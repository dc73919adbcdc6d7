-------------------------- MODULE GovernanceProofs --------------------------
(***************************************************************************)
(* What a call must pass before its tool runs, for any middleware,         *)
(* envelopes, compositions, executions and approvals: no tool runs         *)
(* ungoverned and every end is seen (Pipeline), an identity envelope is    *)
(* accepted once per replay store (IdentityReplay), a composition that is  *)
(* sealed meets the requirements of production (Sealing), an approval is   *)
(* used once, for what it was given for, and its reservation is ended only *)
(* by its holder (Approvals).                                              *)
(***************************************************************************)
EXTENDS Pipeline, Approvals, IdentityReplay, Sealing, TLAPS

USE ZenonT(40)

-----------------------------------------------------------------------------
(* Sealing.                                                                *)

SealingTypeOK ==
    /\ parts \in Parts
    /\ registry \in Registries
    /\ regs \in [Registries -> [tools : SUBSET Tools, sealed : BOOLEAN]]
    /\ profile \in Profiles \union {NoProfile}
    /\ sealed \in BOOLEAN

\* The registry of a sealed runtime is sealed too, and what was evaluated left
\* no reason; a runtime with a profile is sealed by a report and by nothing else.
SealingInv ==
    /\ SealingTypeOK
    /\ report # <<>> =>
         /\ sealed /\ profile # NoProfile
         /\ regs[registry].sealed
         /\ report = <<profile, parts, regs[registry].tools>>
         /\ Evaluate(regs[registry].tools, parts, profile) = {}
    /\ profile # NoProfile /\ sealed => report # <<>>

\* The invariant of sealing holds for any tools, pipelines and profiles and any
\* number of threads that compose and seal the runtime.
THEOREM SealingInvHolds == SealingSpec => []SealingInv
<1>1. SealingInit => SealingInv
  <2>1. SealingInit => sealed \in BOOLEAN /\ (sealed <=> profile = NoProfile)
    BY DEF SealingInit
  <2> QED BY <2>1, SMTT(30) DEF SealingInit, SealingInv, SealingTypeOK
<1>2. ASSUME SealingInv, [SealingNext]_sealingVars
      PROVE  SealingInv'
  <2> USE <1>2
  <2>1. CASE SetPart
    BY <2>1 DEF SetPart, GuardSealedMutation, SealingInv, SealingTypeOK, Parts
  <2>2. CASE SetRegistry
    BY <2>2 DEF SetRegistry, GuardSealedMutation, SealingInv, SealingTypeOK
  <2>3. CASE SetProfile
    BY <2>3 DEF SetProfile, GuardSealedMutation, SealingInv, SealingTypeOK
  <2>4. CASE Register
    <3>1. PICK r \in Registries, t \in Tools :
              /\ ~regs[r].sealed
              /\ regs' = [regs EXCEPT ![r].tools = @ \union {t}]
      BY <2>4 DEF Register
    <3>2. UNCHANGED <<parts, registry, profile, sealed, report, sealing>>
      BY <2>4 DEF Register
    <3>3. /\ regs' \in [Registries -> [tools : SUBSET Tools, sealed : BOOLEAN]]
          /\ regs[registry].sealed => regs'[registry] = regs[registry]
      BY <3>1 DEF SealingInv, SealingTypeOK
    <3>4. CASE report = <<>>
      BY <3>2, <3>3, <3>4 DEF SealingInv, SealingTypeOK
    <3>5. CASE report # <<>>
      BY <3>2, <3>3, <3>5, SMTT(30) DEF SealingInv, SealingTypeOK
    <3> QED BY <3>4, <3>5
  <2>5. CASE SealRegistry
    <3>1. PICK r \in Registries : regs' = [regs EXCEPT ![r].sealed = TRUE]
      BY <2>5 DEF SealRegistry
    <3>2. UNCHANGED <<parts, registry, profile, sealed, report, sealing>>
      BY <2>5 DEF SealRegistry
    <3>3. /\ regs' \in [Registries -> [tools : SUBSET Tools, sealed : BOOLEAN]]
          /\ regs'[registry].tools = regs[registry].tools
          /\ regs[registry].sealed => regs'[registry].sealed
      BY <3>1 DEF SealingInv, SealingTypeOK
    <3> QED BY <3>2, <3>3, SMTT(30) DEF SealingInv, SealingTypeOK
  <2>6. ASSUME NEW s \in Sealers, BeginSeal(s)
        PROVE  SealingInv'
    BY <2>6 DEF BeginSeal, SealingInv, SealingTypeOK
  <2>7. ASSUME NEW s \in Sealers, SealProduction(s)
        PROVE  SealingInv'
    <3>1. UNCHANGED <<parts, registry, profile>>
      BY <2>7 DEF SealProduction
    <3>2. CASE UNCHANGED <<regs, sealed, report>>
      BY <3>1, <3>2 DEF SealingInv, SealingTypeOK
    <3>3. CASE /\ profile # NoProfile
               /\ Evaluate(regs[registry].tools, parts, profile) = {}
               /\ regs' = [regs EXCEPT ![registry].sealed = TRUE]
               /\ report' = <<profile, parts, regs[registry].tools>>
               /\ sealed' = TRUE
      <4>1. /\ regs' \in [Registries -> [tools : SUBSET Tools, sealed : BOOLEAN]]
            /\ regs'[registry].tools = regs[registry].tools
            /\ regs'[registry].sealed
        BY <3>3 DEF SealingInv, SealingTypeOK
      <4> QED BY <3>1, <3>3, <4>1 DEF SealingInv, SealingTypeOK
    <3> QED BY <2>7, <3>2, <3>3 DEF SealProduction
  <2>8. CASE UNCHANGED sealingVars
    BY <2>8 DEF sealingVars, SealingInv, SealingTypeOK
  <2> QED BY <2>1, <2>2, <2>3, <2>4, <2>5, <2>6, <2>7, <2>8 DEF SealingNext
<1> QED BY <1>1, <1>2, PTL DEF SealingSpec

\* A sealed runtime stays what its report was about, whoever sets a part,
\* registers a tool or seals meanwhile (Runtime.seal_production and the setters).
THEOREM ReportStaysCurrent == SealingSpec => []ReportIsCurrent
<1>1. SealingInv => ReportIsCurrent
  BY DEF SealingInv, ReportIsCurrent
<1> QED BY <1>1, SealingInvHolds, PTL

\* The least-number principle, a hypothesis of the lemmas about the first
\* middleware of a kind; NaturalsAreWellOrdered, below them, discharges it.
NatWellOrdered == \A S \in SUBSET Nat : S # {} => \E m \in S : \A i \in S : m <= i

\* The first middleware of a kind is one of the pipeline.
LEMMA FirstOfIsThere ==
    ASSUME NatWellOrdered, NEW pipeline \in Pipelines, NEW k, FirstOf(pipeline, k) # <<>>
    PROVE  \E i \in DOMAIN pipeline : /\ pipeline[i].is = k
                                      /\ FirstOf(pipeline, k)[1] = pipeline[i]
<1> DEFINE found == {i \in DOMAIN pipeline : pipeline[i].is = k}
<1>1. found # {}
  BY DEF FirstOf
<1>2. found \subseteq Nat
  <2>1. pipeline \in Seq(Middleware)
    BY SealingConstants
  <2> QED BY <2>1, SMTT(30)
<1>3. PICK i \in found : \A j \in found : i <= j
  BY <1>1, <1>2 DEF NatWellOrdered
<1> DEFINE first == CHOOSE n \in found : \A j \in found : n <= j
<1>4. first \in found
  BY <1>3
<1>5. FirstOf(pipeline, k) = <<pipeline[first]>>
  BY <1>1 DEF FirstOf
<1> HIDE DEF first
<1> QED BY <1>4, <1>5, SMTT(30)

\* What a report without a reason says of the runtime (ProductionProfile.evaluate).
LEMMA ReadyMeansProduction ==
    ASSUME NatWellOrdered, NEW tools \in SUBSET Tools, NEW x \in Parts, NEW p \in Profiles,
           Evaluate(tools, x, p) = {}, NEW t \in tools
    PROVE  /\ x.identity = "trusted" /\ x.verified
           /\ \E i \in DOMAIN x.pipeline :
                /\ x.pipeline[i].is = "audit" /\ x.pipeline[i].closed
                /\ {"durable", "protected"} \subseteq x.pipeline[i].able
                /\ t.mode = "idempotent" => "idempotent" \in x.pipeline[i].able
           /\ t.mode # "read_only" => /\ t.contract \in {"fits", "conditional"}
                                      /\ x.store = "sqlite"
           /\ t.mode = "idempotent" => x.ledger = "sqlite" /\ t.provider
           /\ t.approval => \E i \in DOMAIN x.pipeline :
                /\ x.pipeline[i].is = "decision"
                /\ {"durable", "protected"} \subseteq x.pipeline[i].able
<1>1. t \in ToolSpec /\ x.pipeline \in Pipelines /\ tools # {}
  BY SealingConstants DEF Parts
<1>2. x.identity \in Identities /\ x.verified \in BOOLEAN /\ x.store \in Stores /\ x.ledger \in Ledgers
  BY DEF Parts
<1>3. /\ UNION {ToolReadiness(u, p) : u \in tools} = {}
      /\ CallReasons(tools, x, p) = {}
      /\ AuditReasons(x.pipeline, Idempotent(tools), x.ledger) = {}
      /\ t.approval => ApprovalReasons(x.pipeline) = {}
  <2> DEFINE A == UNION {ToolReadiness(u, p) : u \in tools}
             B == IF tools = {} THEN {} ELSE CallReasons(tools, x, p)
             C == IF tools # {} \/ x.ledger # "none"
                  THEN AuditReasons(x.pipeline, Idempotent(tools), x.ledger) ELSE {}
             D == IF \E u \in tools : u.approval THEN ApprovalReasons(x.pipeline) ELSE {}
  <2>1. Evaluate(tools, x, p) = A \union B \union C \union D
    BY DEF Evaluate
  <2>2. A = {} /\ B = {} /\ C = {} /\ D = {}
    <3> HIDE DEF A, B, C, D
    <3> QED BY <2>1
  <2> QED BY <1>1, <2>2
<1>4. ToolReadiness(t, p) = {}
  BY <1>3
<1>5. /\ If(x.identity = "none", "identity provider required") = {}
      /\ If(x.identity = "untrusted", "identity provider not trusted") = {}
      /\ If(x.identity = "volatile", "durable replay store required") = {}
      /\ If(~x.verified, "verified identity required") = {}
      /\ If((\E u \in tools : u.mode # "read_only") /\ x.store = "memory",
            "durable store required") = {}
      /\ ReconciliationReasons(Idempotent(tools), x.store, x.ledger) = {}
  BY <1>3 DEF CallReasons
<1>7. x.identity = "trusted" /\ x.verified
  BY <1>2, <1>5 DEF If, Identities
<1>8. t.mode # "read_only" => t.contract \in {"fits", "conditional"} /\ x.store = "sqlite"
  BY <1>1, <1>2, <1>4, <1>5 DEF If, Stores, ToolReadiness, ContractReasons, ToolSpec
<1>9. t.mode = "idempotent" => x.ledger = "sqlite" /\ t.provider
  BY <1>1, <1>2, <1>5 DEF If, Ledgers, ReconciliationReasons, Idempotent
<1>10. \E i \in DOMAIN x.pipeline :
            /\ x.pipeline[i].is = "audit" /\ x.pipeline[i].closed
            /\ {"durable", "protected"} \subseteq x.pipeline[i].able
            /\ t.mode = "idempotent" => "idempotent" \in x.pipeline[i].able
  <2> DEFINE m == FirstOf(x.pipeline, "audit")
  <2>1. m # <<>>
    BY <1>3 DEF AuditReasons
  <2>2. /\ {"durable", "protected"} \subseteq m[1].able
        /\ m[1].closed
        /\ Idempotent(tools) # {} => "idempotent" \in m[1].able
    BY <1>3, <2>1 DEF AuditReasons, If
  <2>3. t.mode = "idempotent" => Idempotent(tools) # {}
    BY DEF Idempotent
  <2>4. PICK i \in DOMAIN x.pipeline : x.pipeline[i].is = "audit" /\ m[1] = x.pipeline[i]
    BY <1>1, <2>1, FirstOfIsThere, SMTT(30)
  <2> QED BY <2>2, <2>3, <2>4
<1>11. t.approval => \E i \in DOMAIN x.pipeline :
            /\ x.pipeline[i].is = "decision"
            /\ {"durable", "protected"} \subseteq x.pipeline[i].able
  <2> SUFFICES ASSUME t.approval
               PROVE  \E i \in DOMAIN x.pipeline :
                        /\ x.pipeline[i].is = "decision"
                        /\ {"durable", "protected"} \subseteq x.pipeline[i].able
    OBVIOUS
  <2> DEFINE m == FirstOf(x.pipeline, "decision")
  <2>1. m # <<>>
    BY <1>3 DEF ApprovalReasons
  <2>2. {"durable", "protected"} \subseteq m[1].able
    BY <1>3, <2>1 DEF ApprovalReasons, If
  <2>3. PICK i \in DOMAIN x.pipeline : x.pipeline[i].is = "decision" /\ m[1] = x.pipeline[i]
    BY <1>1, <2>1, FirstOfIsThere, SMTT(30)
  <2> QED BY <2>2, <2>3
<1> QED BY <1>7, <1>8, <1>9, <1>10, <1>11

-----------------------------------------------------------------------------
(* Identity envelopes.                                                     *)

IdentityTypeOK ==
    /\ clock \in Nat
    /\ durable \in BOOLEAN
    /\ claims \in [ReplayStores -> SUBSET (Envelopes \X Nat)]
    /\ verifying \in [Verifiers -> {NoVerification} \union (Envelopes \X (Nat \union {-1}))]
    /\ spent \in [ReplayStores -> [Envelopes -> Nat]]

\* The time a claim is made with is never ahead of the clock.
ClaimTimeIsPast ==
    \A v \in Verifiers : verifying[v] # NoVerification => verifying[v][2] <= clock

\* The record of an accepted envelope outlives the envelope.
SpentIsRecorded ==
    \A s \in ReplayStores, e \in Envelopes :
        /\ spent[s][e] <= 1
        /\ spent[s][e] = 1 => \/ clock >= ExpiresAt[e] + Skew
                              \/ <<e, ExpiresAt[e] + Skew>> \in claims[s]

IdentityInv == IdentityTypeOK /\ ClaimTimeIsPast /\ SpentIsRecorded

\* A verification goes to a store that exists.
LEMMA ReplayStoreExists ==
    ASSUME NEW v \in Verifiers
    PROVE  ReplayStoreOf(v) \in ReplayStores
BY IdentityConstants DEF ReplayStoreOf, ReplayStores

\* A claim keeps the invariant: purging with a time of the past removes no
\* record of an envelope that could still be accepted, so an envelope that is
\* accepted now had not been accepted before.
LEMMA ClaimKeepsRecords ==
    ASSUME IdentityInv, NEW v \in Verifiers, Claim(v)
    PROVE  IdentityInv'
<1> DEFINE e == verifying[v][1]
           now == verifying[v][2]
           s == ReplayStoreOf(v)
           left == Purged(s, now)
<1>1. s \in ReplayStores
  BY ReplayStoreExists
<1>2. /\ verifying[v] \in Envelopes \X (Nat \union {-1})
      /\ e \in Envelopes /\ now \in Nat /\ now <= clock
  BY DEF Claim, IdentityInv, IdentityTypeOK, ClaimTimeIsPast
<1>3. left \subseteq claims[s] /\ left \subseteq Envelopes \X Nat
  BY <1>1 DEF Purged, IdentityInv, IdentityTypeOK
<1>4. ExpiresAt \in [Envelopes -> Nat] /\ Skew \in Nat
  BY IdentityConstants
<1>5. UNCHANGED <<clock, durable>> /\ verifying' = [verifying EXCEPT ![v] = NoVerification]
  BY DEF Claim
<1>6. ClaimTimeIsPast'
  BY <1>5 DEF ClaimTimeIsPast, IdentityInv, IdentityTypeOK
<1>7. \A f \in Envelopes : <<f, ExpiresAt[f] + Skew>> \in claims[s]
                               => \/ clock >= ExpiresAt[f] + Skew
                                  \/ <<f, ExpiresAt[f] + Skew>> \in left
  BY <1>1, <1>2, <1>4, SMTT(30) DEF Purged, IdentityInv, IdentityTypeOK
<1>8. CASE e \in {c[1] : c \in left}
  <2>1. /\ spent' = spent
        /\ claims' = claims \/ claims' = [claims EXCEPT ![s] = left]
    BY <1>8 DEF Claim
  <2>2. IdentityTypeOK'
    BY <1>1, <1>3, <1>5, <2>1 DEF IdentityInv, IdentityTypeOK
  <2>3. SpentIsRecorded'
    BY <1>1, <1>5, <1>7, <2>1 DEF SpentIsRecorded, IdentityInv, IdentityTypeOK
  <2> QED BY <1>6, <2>2, <2>3 DEF IdentityInv
<1>9. CASE e \notin {c[1] : c \in left}
  <2>1. /\ claims' = [claims EXCEPT ![s] = left \union {<<e, ExpiresAt[e] + Skew>>}]
        /\ spent' = IF clock < ExpiresAt[e] + Skew
                    THEN [spent EXCEPT ![s][e] = @ + 1] ELSE spent
    BY <1>9 DEF Claim, ReplayExpiry
  <2>2. IdentityTypeOK'
    BY <1>1, <1>2, <1>3, <1>4, <1>5, <2>1, SMTT(30) DEF IdentityInv, IdentityTypeOK
  <2>3. clock < ExpiresAt[e] + Skew => spent[s][e] = 0
    <3>1. <<e, ExpiresAt[e] + Skew>> \notin left
      BY <1>9, SMTT(30)
    <3>2. spent[s][e] = 1 => \/ clock >= ExpiresAt[e] + Skew
                             \/ <<e, ExpiresAt[e] + Skew>> \in claims[s]
      BY <1>1, <1>2 DEF IdentityInv, SpentIsRecorded
    <3>3. spent[s][e] = 1 => clock >= ExpiresAt[e] + Skew
      BY <1>2, <1>7, <3>1, <3>2
    <3>4. spent[s][e] \in Nat /\ spent[s][e] <= 1
      BY <1>1, <1>2 DEF IdentityInv, IdentityTypeOK, SpentIsRecorded
    <3>5. clock \in Nat /\ ExpiresAt[e] + Skew \in Nat
      BY <1>2, <1>4, SMTT(30) DEF IdentityInv, IdentityTypeOK
    <3> HIDE DEF e, s, left
    <3> QED BY <3>3, <3>4, <3>5, SMTT(30)
  <2>4. ASSUME NEW t \in ReplayStores, NEW f \in Envelopes
        PROVE  /\ spent'[t][f] <= 1
               /\ spent'[t][f] = 1 => \/ clock >= ExpiresAt[f] + Skew
                                      \/ <<f, ExpiresAt[f] + Skew>> \in claims'[t]
    <3>1. CASE t # s
      BY <3>1, <1>1, <2>1 DEF IdentityInv, IdentityTypeOK, SpentIsRecorded
    <3>2. CASE t = s /\ f # e
      BY <3>2, <1>1, <1>7, <2>1 DEF IdentityInv, IdentityTypeOK, SpentIsRecorded
    <3>3. CASE t = s /\ f = e
      <4>1. <<e, ExpiresAt[e] + Skew>> \in claims'[s]
        BY <1>1, <2>1 DEF IdentityInv, IdentityTypeOK
      <4>2. spent'[s][e] = IF clock < ExpiresAt[e] + Skew THEN spent[s][e] + 1 ELSE spent[s][e]
        BY <1>1, <1>2, <2>1 DEF IdentityInv, IdentityTypeOK
      <4>3. spent[s][e] \in Nat /\ spent[s][e] <= 1
        BY <1>1, <1>2 DEF IdentityInv, IdentityTypeOK, SpentIsRecorded
      <4> HIDE DEF e, s, left
      <4> QED BY <3>3, <2>3, <4>1, <4>2, <4>3, SMTT(30)
    <3> QED BY <3>1, <3>2, <3>3
  <2>5. SpentIsRecorded'
    BY <1>5, <2>4 DEF SpentIsRecorded
  <2> QED BY <1>6, <2>2, <2>5 DEF IdentityInv
<1> QED BY <1>8, <1>9

\* The invariant of the replay stores holds for any envelopes, any number of
\* verifiers and processes, and any skew, in SQLite and in memory.
THEOREM IdentityInvHolds == IdentitySpec => []IdentityInv
<1>1. IdentityInit => IdentityInv
  BY IdentityConstants, SMTT(30)
     DEF IdentityInit, IdentityInv, IdentityTypeOK, ClaimTimeIsPast, SpentIsRecorded
<1>2. ASSUME IdentityInv, [IdentityNext]_identityVars
      PROVE  IdentityInv'
  <2>1. ASSUME NEW v \in Verifiers, Verify(v)
        PROVE  IdentityInv'
    BY <1>2, <2>1, SMTT(30)
       DEF Verify, IdentityInv, IdentityTypeOK, ClaimTimeIsPast, SpentIsRecorded, NoVerification
  <2>2. ASSUME NEW v \in Verifiers, ReadClaimTime(v)
        PROVE  IdentityInv'
    BY <1>2, <2>2, SMTT(30)
       DEF ReadClaimTime, IdentityInv, IdentityTypeOK, ClaimTimeIsPast, SpentIsRecorded, NoVerification
  <2>3. ASSUME NEW v \in Verifiers, Claim(v)
        PROVE  IdentityInv'
    BY <1>2, <2>3, ClaimKeepsRecords
  <2>4. ASSUME NEW h \in Hosts, HostRestarts(h)
        PROVE  IdentityInv'
    BY <1>2, <2>4, SMTT(30)
       DEF HostRestarts, IdentityInv, IdentityTypeOK, ClaimTimeIsPast, SpentIsRecorded, ReplayStores
  <2>5. CASE Tick
    <3>1. IdentityTypeOK'
      BY <1>2, <2>5, SMTT(30) DEF Tick, IdentityInv, IdentityTypeOK
    <3>2. ASSUME NEW v \in Verifiers, verifying[v] # NoVerification
          PROVE  verifying[v][2] <= clock + 1
      <4>1. verifying[v] \in Envelopes \X (Nat \union {-1})
        BY <1>2, <3>2 DEF IdentityInv, IdentityTypeOK
      <4>2. verifying[v][2] \in Int
        BY <4>1, SMTT(30)
      <4> QED BY <1>2, <3>2, <4>2, SMTT(30) DEF IdentityInv, IdentityTypeOK, ClaimTimeIsPast
    <3>3. ClaimTimeIsPast'
      BY <2>5, <3>2 DEF Tick, ClaimTimeIsPast
    <3>4. SpentIsRecorded'
      BY <1>2, <2>5, IdentityConstants, SMTT(30)
         DEF Tick, IdentityInv, IdentityTypeOK, SpentIsRecorded
    <3> QED BY <3>1, <3>3, <3>4 DEF IdentityInv
  <2>6. CASE UNCHANGED identityVars
    BY <1>2, <2>6 DEF identityVars, IdentityInv, IdentityTypeOK, ClaimTimeIsPast, SpentIsRecorded
  <2> QED BY <1>2, <2>1, <2>2, <2>3, <2>4, <2>5, <2>6 DEF IdentityNext
<1> QED BY <1>1, <1>2, PTL DEF IdentitySpec

\* While an envelope is acceptable a replay store lets it pass once, whatever
\* verifications race for it (HMACClaimsIdentityProvider.verify and claim).
THEOREM EnvelopeIsSpentOnce == IdentitySpec => []OncePerEnvelope
<1>1. IdentityInv => OncePerEnvelope
  BY DEF IdentityInv, SpentIsRecorded, OncePerEnvelope
<1> QED BY <1>1, IdentityInvHolds, PTL

-----------------------------------------------------------------------------
(* The pipeline.                                                           *)

\* From the announcement of the execution to the settlement of its result.
Executing == {"claim", "execute", "revalidate", "refused", "body", "tool", "leave"}

Statuses == {"pending", "allowed", "denied", "executing", "succeeded", "failed", "unknown"}
CallPlaces ==
    {"new", "prepare", "before", "stage", "decided", "observe", "over"} \union Executing
CallEnds == {"none", "deny", "deny_early", "deny_again", "reuse", "result", "error", "carried",
             "cancel", "lost"}

PipelineTypeOK ==
    /\ ctx \in Context /\ base \in Context
    /\ at \in CallPlaces
    /\ idx \in Nat \ {0}
    /\ then \in CallEnds
    /\ mode \in {"run", "preview", "preview all", "replay"}
    /\ world \in Nat
    /\ body \in {"no", "started", "returned"}
    /\ alarm \in BOOLEAN /\ everDenied \in BOOLEAN /\ broken \in BOOLEAN
    /\ passed \subseteq OfKind("gating")
    /\ observed \in [OfKind("observing") -> Statuses \union {"none", "late"}]

\* The contexts a call may go on with are of its own request.
RequestIsOwn == at \notin {"observe", "over"} => ctx.own /\ base.own

\* The context itself tells whether the call was ever denied; while the observers
\* run, the one from before them does.  After a cancellation there is nothing
\* left to decide.
DenialIsRemembered ==
    /\ at \notin {"observe", "over"} => then = "none" /\ (everDenied <=> Denied(ctx))
    /\ at = "observe" /\ then # "cancel" => (everDenied <=> Denied(base))

\* A running call that is not denied has passed the gates behind it, and one
\* that executes has passed all of them.
GatesArePassed ==
    /\ at \in {"new", "prepare", "before"} => passed = {} /\ ~broken
    /\ at = "stage" /\ mode = "run" /\ ~everDenied =>
        ~broken /\ passed = {i \in OfKind("gating") : i < idx}
    /\ at = "decided" /\ mode = "run" /\ ~everDenied => ~broken /\ passed = OfKind("gating")
    /\ at \in Executing => mode = "run" /\ ~everDenied /\ ~broken /\ passed = OfKind("gating")
    /\ body # "no" =>
        /\ at \in Executing \union {"observe", "over"}
        /\ mode = "run" /\ ~broken /\ passed = OfKind("gating")

\* A call that executes has a decision; between its last check and the tool the
\* context keeps its approval, and between the revalidation and the tool the
\* action is the bound one.
ToolIsReady ==
    /\ at \in Executing => ctx.decision # "none"
    /\ at \in {"revalidate", "body", "tool"} /\ ctx.needs => ctx.approval = ctx.tier
    /\ at \in {"body", "tool"} => verified = bound

\* What may come after the observers of a call that ends as next with context c.
EndsWith(c, next) ==
    /\ next # "carried" => Terminal(c)
    /\ next = "deny_again" => c.status = "denied" /\ c.decision # "none"
    /\ next = "reuse" => ~Denied(c) /\ c.decision # "none"

\* The observers are shown an outcome, which only a hook's denial changes.
ObserversHold ==
    at = "observe" => ctx \in {base, WithDeny(base)} /\ EndsWith(base, then)

\* What has been done about an observer, of the call's context c.
ShownTo(i, c) ==
    /\ observed[i] # "none"
    /\ observed[i] = "late" => then # "cancel" /\ (Middlewares[i].critical => alarm)
    /\ observed[i] \notin {"late", c.status} => Denied(c) \/ alarm

\* The observers behind have been shown the outcome.
OutcomeIsShown ==
    /\ at = "observe" => \A i \in OfKind("observing") : i < idx => ShownTo(i, ctx)
    /\ EveryEndIsObserved

PipelineInv ==
    /\ PipelineTypeOK
    /\ RequestIsOwn
    /\ DenialIsRemembered
    /\ GatesArePassed
    /\ ToolIsReady
    /\ ObserversHold
    /\ OutcomeIsShown

\* A denial leaves the request, its tier and its need for an approval alone.
LEMMA DenyingKeepsRequest ==
  ASSUME NEW c \in Context
  PROVE  /\ WithDeny(c) \in Context /\ Denied(WithDeny(c)) /\ Terminal(WithDeny(c))
         /\ WithDeny(c).own = c.own /\ WithDeny(c).tier = c.tier /\ WithDeny(c).needs = c.needs
         /\ WithDeny(c).decision = "deny" /\ WithDeny(c).status = "denied"
BY DEF WithDeny, Denied, Terminal, Context

\* So do the hooks.
LEMMA HooksKeepRequest ==
  ASSUME NEW c \in Context, NEW d \in EmitHook(c, TRUE)
  PROVE  /\ d \in Context /\ d.own = c.own /\ d.tier = c.tier /\ d.needs = c.needs
         /\ c.decision # "none" => d.decision # "none"
         /\ d.status \in {c.status, "denied"}
         /\ Denied(c) => Denied(d)
         /\ ~Denied(d) => d = c
BY DenyingKeepsRequest DEF EmitHook

\* And the check of the approval, which an undenied context survives only with
\* the approval it needs.
LEMMA EnforcingKeepsRequest ==
  ASSUME NEW c \in Context
  PROVE  LET d == EnforceRequiredApproval(c)
         IN  /\ d \in Context /\ d.own = c.own /\ d.tier = c.tier /\ d.needs = c.needs
             /\ c.decision # "none" => d.decision # "none"
             /\ d.status \in {c.status, "denied"}
             /\ Denied(c) => d = c
             /\ ~Denied(d) => d = c /\ (c.needs => c.approval = c.tier)
BY DenyingKeepsRequest DEF EnforceRequiredApproval, HasBoundApproval

\* A failure is an outcome, and does not take the place of a denial.
LEMMA FailingKeepsRequest ==
  ASSUME NEW c \in Context, NEW uncertain \in BOOLEAN
  PROVE  LET d == FailedContext(c, uncertain)
         IN  /\ d \in Context /\ d.own = c.own /\ d.tier = c.tier /\ d.needs = c.needs
             /\ d.decision = c.decision
             /\ Terminal(d) /\ (Denied(d) <=> Denied(c))
             /\ Denied(c) => d = c
BY DEF FailedContext, Terminal, Denied, Context

\* A sequence has its elements where it has positions.
LEMMA SequenceElement ==
  ASSUME NEW S, NEW q \in Seq(S)
  PROVE  /\ Len(q) \in Nat /\ DOMAIN q = 1..Len(q)
         /\ \A i \in 1..Len(q) : q[i] \in S
BY SMTT(30)

\* The middleware are a list, each of a kind.
LEMMA MiddlewareKinds ==
  /\ Len(Middlewares) \in Nat /\ DOMAIN Middlewares = 1..Len(Middlewares)
  /\ \A i \in 1..Len(Middlewares) :
       /\ Middlewares[i].kind \in {"gating", "observing", "execution"}
       /\ Middlewares[i].critical \in BOOLEAN
<1> DEFINE Kinds == [kind : {"gating", "observing", "execution"}, critical : BOOLEAN,
                     replayable : BOOLEAN]
<1>1. Middlewares \in Seq(Kinds)
  BY PipelineConstants
<1>2. \A x \in Kinds : x.kind \in {"gating", "observing", "execution"} /\ x.critical \in BOOLEAN
  OBVIOUS
<1> HIDE DEF Kinds
<1>3. QED
  BY <1>1, <1>2, SequenceElement

\* The numbers a call starts with.
LEMMA FirstIndex == 1 \in Nat \ {0} /\ 0 \in Nat
BY SMTT(30)

\* A call whose outcome is known goes to its observers, from wherever it is.
LEMMA ObserveKeepsInv ==
  ASSUME PipelineInv, NEW c \in Context, NEW next \in CallEnds \ {"none", "lost"},
         Observe(c, next), EndsWith(c, next), next # "cancel" /\ everDenied => Denied(c),
         UNCHANGED <<mode, world, record>>,
         body' \in {"no", "started", "returned"}, body' # "no" => body # "no" \/ at \in Executing
  PROVE  PipelineInv'
<1> /\ PipelineTypeOK /\ RequestIsOwn /\ DenialIsRemembered /\ GatesArePassed /\ ToolIsReady
    /\ OutcomeIsShown
  BY DEF PipelineInv
<1>1. /\ ctx' = c /\ base' = c /\ at' = "observe" /\ idx' = 1 /\ then' = next /\ alarm' = FALSE
      /\ everDenied' = (everDenied \/ Denied(c)) /\ observed' = Unseen
      /\ UNCHANGED <<mode, world, passed, broken>>
  BY DEF Observe, Loop, Goto, record
<1>2. PipelineTypeOK'
  <2>1. everDenied' \in BOOLEAN
    BY <1>1 DEF PipelineTypeOK
  <2>2. idx' \in Nat \ {0} /\ world' \in Nat
    BY <1>1, FirstIndex DEF PipelineTypeOK
  <2>3. observed' \in [OfKind("observing") -> Statuses \union {"none", "late"}]
    BY <1>1 DEF Unseen
  <2>4. at' \in CallPlaces /\ then' \in CallEnds
    BY <1>1 DEF CallPlaces
  <2>5. QED
    BY <1>1, <2>1, <2>2, <2>3, <2>4 DEF PipelineTypeOK, OfKind
<1>3. RequestIsOwn' /\ ToolIsReady'
  BY <1>1 DEF RequestIsOwn, ToolIsReady, Executing
<1>4. DenialIsRemembered'
  BY <1>1 DEF DenialIsRemembered, Denied
<1>5. GatesArePassed'
  BY <1>1 DEF GatesArePassed, Executing, OfKind
<1>6. ObserversHold'
  BY <1>1 DEF ObserversHold, EndsWith, Terminal, Denied
<1>7. OutcomeIsShown'
  <2>1. \A i \in OfKind("observing") : ~(i < 1)
    BY MiddlewareKinds, SMTT(30) DEF OfKind
  <2>2. QED
    BY <1>1, <2>1 DEF OutcomeIsShown, EveryEndIsObserved, OfKind
<1>8. QED
  BY <1>2, <1>3, <1>4, <1>5, <1>6, <1>7 DEF PipelineInv

\* A call starts without anything decided.
LEMMA PipelineInitInv == PipelineInit => PipelineInv
<1> SUFFICES ASSUME PipelineInit PROVE PipelineInv
  OBVIOUS
<1>1. ctx \in Context /\ ctx.own
  <2>1. 0 \in Tiers /\ -1 \in Tiers \union {-1}
    BY PipelineConstants, SMTT(30) DEF Tiers
  <2>2. /\ ctx = [ctx EXCEPT !.own = TRUE]
        /\ ctx.status = "pending" /\ ctx.decision = "none" /\ ctx.tier = 0 /\ ctx.needs \in BOOLEAN
        /\ ctx.approval = -1 /\ ctx.own
    BY DEF PipelineInit
  <2>3. ctx \in [status : {"pending"}, decision : {"none"}, tier : {0}, needs : BOOLEAN,
                 approval : {-1}, own : {TRUE}]
    BY DEF PipelineInit
  <2>4. QED
    BY <2>1, <2>2, <2>3 DEF Context
<1>1a. idx \in Nat \ {0} /\ world \in Nat
  BY FirstIndex DEF PipelineInit
<1>1b. PipelineTypeOK /\ RequestIsOwn
  BY <1>1, <1>1a DEF PipelineInit, PipelineTypeOK, RequestIsOwn, CallPlaces, CallEnds, Unseen
<1>2. DenialIsRemembered /\ GatesArePassed /\ ToolIsReady /\ ObserversHold /\ OutcomeIsShown
  BY DEF PipelineInit, DenialIsRemembered, GatesArePassed, ToolIsReady, ObserversHold,
         OutcomeIsShown, Executing, EveryEndIsObserved, Denied
<1>3. QED
  BY <1>1b, <1>2 DEF PipelineInv

\* A call that goes on keeps everything but what depends on where it goes.
LEMMA GotoKeepsInv ==
  ASSUME PipelineInv, NEW c \in Context, NEW place \in CallPlaces \ {"observe"},
         Goto(c, place), idx' \in Nat \ {0}, UNCHANGED <<alarm, observed, mode, world>>,
         base' \in Context, body' \in {"no", "started", "returned"},
         passed' \subseteq OfKind("gating"), broken' \in BOOLEAN,
         place # "over" => /\ then = "none" /\ then' = then
                           /\ c.own /\ base'.own /\ (everDenied => Denied(c)),
         place = "over" => then' = "lost" \/ (mode # "run" /\ then' = then)
  PROVE  /\ PipelineTypeOK' /\ RequestIsOwn' /\ DenialIsRemembered' /\ ObserversHold'
         /\ OutcomeIsShown' /\ ctx' = c /\ at' = place
         /\ place # "over" => (everDenied' <=> Denied(c))
<1> /\ PipelineTypeOK /\ RequestIsOwn /\ DenialIsRemembered /\ OutcomeIsShown
  BY DEF PipelineInv
<1>1. /\ ctx' = c /\ at' = place
      /\ everDenied' = (everDenied \/ Denied(c))
      /\ UNCHANGED <<mode, world>>
  BY DEF Goto
<1>2. PipelineTypeOK'
  <2>1. everDenied' \in BOOLEAN
    BY <1>1 DEF PipelineTypeOK
  <2>2. at' \in CallPlaces /\ then' \in CallEnds
    BY <1>1 DEF PipelineTypeOK, CallEnds
  <2>3. QED
    BY <1>1, <2>1, <2>2 DEF PipelineTypeOK, OfKind
<1>3. RequestIsOwn'
  BY <1>1 DEF RequestIsOwn
<1>4. place # "over" => (everDenied' <=> Denied(c))
  BY <1>1
<1>5. DenialIsRemembered' /\ ObserversHold'
  BY <1>1, <1>4 DEF DenialIsRemembered, ObserversHold, Denied
<1>6. OutcomeIsShown'
  BY <1>1 DEF OutcomeIsShown, EveryEndIsObserved
<1>7. QED
  BY <1>1, <1>2, <1>3, <1>4, <1>5, <1>6

\* _create_context.
LEMMA CreateContextKeepsInv ==
  ASSUME PipelineInv, CreateContext
  PROVE  PipelineInv'
<1> /\ PipelineTypeOK /\ RequestIsOwn /\ DenialIsRemembered /\ GatesArePassed
  BY DEF PipelineInv
<1>1. PICK c \in {ctx, WithDeny(ctx)} : Goto(c, "prepare")
  BY DEF CreateContext
<1>2. c \in Context /\ c.own /\ (everDenied => Denied(c)) /\ then = "none"
  BY DenyingKeepsRequest DEF PipelineTypeOK, RequestIsOwn, DenialIsRemembered, CreateContext
<1>3. /\ PipelineTypeOK' /\ RequestIsOwn' /\ DenialIsRemembered' /\ ObserversHold'
      /\ OutcomeIsShown' /\ at' = "prepare"
  <2>1. /\ idx' \in Nat \ {0} /\ UNCHANGED <<then, alarm, observed, mode, world>>
        /\ base' \in Context /\ base'.own /\ body' \in {"no", "started", "returned"}
        /\ passed' \subseteq OfKind("gating") /\ broken' \in BOOLEAN
    BY DEF CreateContext, calm, shown, fixed, record, PipelineTypeOK, RequestIsOwn
  <2>2. "prepare" \in CallPlaces \ {"observe"}
    BY DEF CallPlaces
  <2>3. QED
    BY <1>1, <1>2, <2>1, <2>2, GotoKeepsInv
<1>4. GatesArePassed' /\ ToolIsReady'
  BY <1>3 DEF CreateContext, record, GatesArePassed, ToolIsReady, Executing
<1>5. QED
  BY <1>3, <1>4 DEF PipelineInv

\* _prepare_parameters, _bind_action and _enforce_idempotency_key.
LEMMA PrepareActionKeepsInv ==
  ASSUME PipelineInv, PrepareAction
  PROVE  PipelineInv'
<1> /\ PipelineTypeOK /\ RequestIsOwn /\ DenialIsRemembered /\ GatesArePassed
  BY DEF PipelineInv
<1>1. /\ at = "prepare" /\ then = "none" /\ (everDenied <=> Denied(ctx))
      /\ passed = {} /\ ~broken /\ body = "no"
      /\ UNCHANGED <<mode, world, record>> /\ body' = body
  BY DEF PrepareAction, DenialIsRemembered, GatesArePassed, fixed, Executing
<1>2. PICK c \in Context :
        /\ c.own /\ (everDenied => Denied(c))
        /\ \/ mode = "replay" /\ Goto(c, "over") /\ UNCHANGED <<idx, calm>>
           \/ mode = "replay" /\ Loop(c, "stage", 1) /\ UNCHANGED calm
           \/ Goto(c, "before") /\ UNCHANGED <<idx, calm>>
           \/ Terminal(c) /\ \E next \in {"deny", "error"} : Observe(c, next)
  <2>1. ctx \in Context /\ ctx.own
    BY <1>1 DEF PipelineTypeOK, RequestIsOwn
  <2>2. /\ WithDeny(ctx) \in Context /\ WithDeny(ctx).own /\ Denied(WithDeny(ctx))
        /\ Terminal(WithDeny(ctx))
    BY <2>1, DenyingKeepsRequest
  <2>3. \A uncertain \in BOOLEAN :
          /\ FailedContext(ctx, uncertain) \in Context /\ FailedContext(ctx, uncertain).own
          /\ Terminal(FailedContext(ctx, uncertain))
          /\ Denied(ctx) => Denied(FailedContext(ctx, uncertain))
    BY <2>1, FailingKeepsRequest
  <2>4. \A c \in {ctx, WithDeny(ctx)} : Denied(c) => Terminal(c)
    BY DEF Terminal
  <2>5. CASE Fails(ctx)
    BY <1>1, <2>3, <2>5 DEF Fails
  <2>6. QED
    BY <1>1, <2>1, <2>2, <2>4, <2>5 DEF PrepareAction
<1>3. CASE \E next \in {"deny", "error"} : Observe(c, next) /\ Terminal(c)
  <2>1. PICK next \in {"deny", "error"} : Observe(c, next) /\ Terminal(c)
    BY <1>3
  <2>2. next \in CallEnds \ {"none", "lost"} /\ EndsWith(c, next)
    BY <2>1 DEF CallEnds, EndsWith
  <2>3. QED
    BY <1>1, <1>2, <2>1, <2>2, ObserveKeepsInv DEF PipelineTypeOK
<1>4. ASSUME NEW place \in {"over", "stage", "before"}, Goto(c, place),
             idx' \in Nat \ {0}, UNCHANGED calm, place # "before" => mode = "replay"
      PROVE  PipelineInv'
  <2>1. /\ UNCHANGED <<then, alarm, observed, mode, world>> /\ base' \in Context /\ base'.own
        /\ body' \in {"no", "started", "returned"}
        /\ passed' \subseteq OfKind("gating") /\ broken' \in BOOLEAN
        /\ place \in CallPlaces \ {"observe"}
    BY <1>1, <1>4 DEF calm, shown, record, PipelineTypeOK, RequestIsOwn, CallPlaces
  <2>2. /\ PipelineTypeOK' /\ RequestIsOwn' /\ DenialIsRemembered' /\ ObserversHold'
        /\ OutcomeIsShown' /\ at' = place
    BY <1>1, <1>2, <1>4, <2>1, GotoKeepsInv
  <2>3. GatesArePassed' /\ ToolIsReady'
    BY <1>1, <1>4, <2>2 DEF record, GatesArePassed, ToolIsReady, Executing
  <2>4. QED
    BY <2>2, <2>3 DEF PipelineInv
<1>5. QED
  <2>1. idx \in Nat \ {0}
    BY DEF PipelineTypeOK
  <2>2. QED
    BY <1>2, <1>3, <1>4, <2>1, FirstIndex DEF Loop

\* The hook before the pipeline.
LEMMA BeforePipelineKeepsInv ==
  ASSUME PipelineInv, BeforePipeline
  PROVE  PipelineInv'
<1> /\ PipelineTypeOK /\ RequestIsOwn /\ DenialIsRemembered /\ GatesArePassed
  BY DEF PipelineInv
<1>1. /\ at = "before" /\ then = "none" /\ (everDenied <=> Denied(ctx))
      /\ passed = {} /\ ~broken /\ body = "no"
      /\ UNCHANGED <<then, alarm, observed, mode, world, body, passed, broken>>
  BY DEF BeforePipeline, DenialIsRemembered, GatesArePassed, shown, fixed, record, Executing
<1>2. PICK c \in EmitHook(ctx, TRUE) :
        /\ base' = c
        /\ IF Denied(c) THEN Goto(c, "decided") /\ UNCHANGED idx ELSE Loop(c, "stage", 1)
  BY DEF BeforePipeline
<1>3. c \in Context /\ c.own /\ (everDenied => Denied(c))
  BY <1>1, HooksKeepRequest DEF PipelineTypeOK, RequestIsOwn
<1>4. PICK place \in {"decided", "stage"} :
        /\ Goto(c, place) /\ idx' \in Nat \ {0} /\ (place = "decided" => Denied(c))
        /\ place = "stage" => idx' = 1
  <2>1. idx \in Nat \ {0}
    BY DEF PipelineTypeOK
  <2>2. QED
    BY <1>2, <2>1, FirstIndex DEF Loop
<1>5. /\ PipelineTypeOK' /\ RequestIsOwn' /\ DenialIsRemembered' /\ ObserversHold'
      /\ OutcomeIsShown' /\ at' = place /\ (everDenied' <=> Denied(c))
  <2>1. place \in CallPlaces \ {"observe"} /\ place # "over"
    BY DEF CallPlaces
  <2>2. QED
    BY <1>1, <1>2, <1>3, <1>4, <2>1, GotoKeepsInv DEF PipelineTypeOK
<1>6. GatesArePassed' /\ ToolIsReady'
  <2>1. {i \in OfKind("gating") : i < 1} = {}
    BY MiddlewareKinds, SMTT(30) DEF OfKind
  <2>2. QED
    BY <1>1, <1>4, <1>5, <2>1 DEF GatesArePassed, ToolIsReady, Executing, OfKind
<1>7. QED
  BY <1>5, <1>6 DEF PipelineInv

\* What a middleware may make of a context, and what a failed one leaves.
LEMMA StageOutcome ==
  ASSUME PipelineTypeOK, RunStage
  PROVE  \E c \in Context :
           /\ Goto(c, "stage") /\ idx' = idx + 1
           /\ c.own = ctx.own /\ c.tier >= ctx.tier /\ (ctx.needs => c.needs)
           /\ ctx.decision # "none" => c.decision # "none"
           /\ Denied(ctx) => Denied(c)
           /\ ctx.status = "denied" => c.status = "denied"
           /\ \/ passed' = passed
              \/ /\ passed' = passed \union {idx}
                 /\ Middlewares[idx].kind = "gating" /\ ~Denied(ctx) /\ ~Denied(c)
           /\ ~Denied(c) /\ mode = "run" /\ Middlewares[idx].kind = "gating" =>
                passed' = passed \union {idx}
           /\ ~Denied(c) => (broken' <=> broken)
           /\ broken' \in BOOLEAN
<1> DEFINE m == Middlewares[idx]
<1>1. ctx \in Context /\ ctx.tier \in Int /\ ctx.tier >= ctx.tier
  <2>1. ctx \in Context
    BY DEF PipelineTypeOK
  <2>2. QED
    BY <2>1, PipelineConstants, SMTT(30) DEF Context, Tiers
<1>2. /\ m.kind \in {"gating", "observing", "execution"} /\ m.critical \in BOOLEAN
      /\ broken \in BOOLEAN
  <2>1. idx \in 1..Len(Middlewares) /\ broken \in BOOLEAN
    <3>1. idx \in Nat \ {0} /\ idx <= Len(Middlewares) /\ broken \in BOOLEAN
      BY DEF PipelineTypeOK, RunStage
    <3>2. QED
      BY <3>1, MiddlewareKinds, SMTT(30)
  <2>2. QED
    BY <2>1, MiddlewareKinds
<1> HIDE DEF m
<1>3. CASE ~Include(m, ctx) /\ Loop(ctx, "stage", idx + 1) /\ UNCHANGED record
  <2>1. m.kind = "gating" /\ mode = "run" => Denied(ctx)
    BY <1>3 DEF Include
  <2>2. QED
    BY <1>1, <1>2, <1>3, <2>1 DEF Loop, record, m
<1> DEFINE Outcome(c) ==
      /\ Goto(c, "stage") /\ idx' = idx + 1
      /\ c.own = ctx.own /\ c.tier >= ctx.tier /\ (ctx.needs => c.needs)
      /\ ctx.decision # "none" => c.decision # "none"
      /\ Denied(ctx) => Denied(c)
      /\ ctx.status = "denied" => c.status = "denied"
      /\ \/ passed' = passed
         \/ /\ passed' = passed \union {idx}
            /\ Middlewares[idx].kind = "gating" /\ ~Denied(ctx) /\ ~Denied(c)
      /\ ~Denied(c) /\ mode = "run" /\ Middlewares[idx].kind = "gating" =>
           passed' = passed \union {idx}
      /\ ~Denied(c) => (broken' <=> broken)
      /\ broken' \in BOOLEAN
<1>4. ASSUME NEW c \in EmitHook(ctx, TRUE)
      PROVE  /\ c \in Context /\ c.own = ctx.own /\ c.tier = ctx.tier /\ c.needs = ctx.needs
             /\ ctx.decision # "none" => c.decision # "none"
             /\ c.status \in {ctx.status, "denied"}
             /\ Denied(ctx) => Denied(c)
             /\ ~Denied(c) => c = ctx
  BY <1>1, HooksKeepRequest
<1>5. ASSUME NEW c \in EmitHook(ctx, TRUE), Denied(c) /\ m.kind = "gating",
             Loop(c, "stage", idx + 1), UNCHANGED record
      PROVE  c \in Context /\ Outcome(c)
  <2>1. /\ c \in Context /\ c.own = ctx.own /\ c.tier >= ctx.tier /\ c.needs = ctx.needs
        /\ ctx.decision # "none" => c.decision # "none"
        /\ c.status \in {ctx.status, "denied"}
    BY <1>1, <1>4, <1>5
  <2>2. Goto(c, "stage") /\ idx' = idx + 1 /\ passed' = passed /\ broken' = broken
    BY <1>5 DEF Loop, record
  <2>3. QED
    BY <1>2, <1>5, <2>1, <2>2
<1>6. ASSUME NEW c \in EmitHook(ctx, TRUE), ~(Denied(c) /\ m.kind = "gating"),
             NEW d \in Candidates, ValidateMiddlewareTransition(c, d, m.kind),
             Loop(d, "stage", idx + 1), UNCHANGED broken,
             passed' = IF m.kind = "gating" /\ ~Denied(d) THEN passed \union {idx} ELSE passed
      PROVE  d \in Context /\ Outcome(d)
  <2>1. d \in Context
    BY <1>6 DEF Candidates
  <2>2. /\ d.own = c.own /\ d.tier >= c.tier /\ (c.needs => d.needs) /\ (Denied(c) => Denied(d))
        /\ c.decision # "none" => d.decision # "none"
        /\ d.status \in {c.status, "denied"}
    BY <1>6 DEF ValidateMiddlewareTransition, GovernanceState
  <2>3. QED
    BY <1>1, <1>2, <1>4, <1>6, <2>1, <2>2 DEF Loop, m
<1>7. ASSUME NEW c \in EmitHook(ctx, TRUE), ~(Denied(c) /\ m.kind = "gating"),
             Loop(FailedStage(m, c), "stage", idx + 1), UNCHANGED passed,
             broken' = (broken \/ m.kind = "gating" \/ m.critical)
      PROVE  FailedStage(m, c) \in Context /\ Outcome(FailedStage(m, c))
  <2>1. CASE m.kind = "gating" \/ m.critical
    <3>1. FailedStage(m, c) = WithDeny(c)
      BY <2>1 DEF FailedStage
    <3>2. /\ WithDeny(c) \in Context /\ Denied(WithDeny(c)) /\ WithDeny(c).own = c.own
          /\ WithDeny(c).tier = c.tier /\ WithDeny(c).needs = c.needs
          /\ WithDeny(c).decision = "deny" /\ WithDeny(c).status = "denied"
      BY <1>4, <1>7, DenyingKeepsRequest
    <3>3. QED
      <4>1. c.tier >= ctx.tier /\ c.own = ctx.own /\ c.needs = ctx.needs
        BY <1>1, <1>4, <1>7
      <4>2. /\ Goto(FailedStage(m, c), "stage") /\ idx' = idx + 1 /\ passed' = passed
            /\ broken' \in BOOLEAN
        BY <1>7 DEF Loop
      <4>3. QED
        BY <3>1, <3>2, <4>1, <4>2
  <2>2. CASE ~(m.kind = "gating" \/ m.critical)
    <3>1. FailedStage(m, c) = c
      BY <2>2 DEF FailedStage
    <3>2. /\ c \in Context /\ c.own = ctx.own /\ c.tier >= ctx.tier /\ c.needs = ctx.needs
          /\ ctx.decision # "none" => c.decision # "none"
          /\ c.status \in {ctx.status, "denied"} /\ (Denied(ctx) => Denied(c))
      BY <1>1, <1>4, <1>7
    <3>3. /\ Goto(c, "stage") /\ idx' = idx + 1 /\ passed' = passed
          /\ (broken' <=> broken) /\ broken' \in BOOLEAN
      BY <1>7, <2>2, <3>1 DEF Loop
    <3>4. QED
      BY <2>2, <3>1, <3>2, <3>3 DEF m
  <2>3. QED
    BY <2>1, <2>2
<1>8. \E c \in Context : Outcome(c)
  BY <1>3, <1>5, <1>6, <1>7 DEF RunStage, m
<1>9. QED
  BY <1>8

\* One middleware of _run_pre_pipeline.
LEMMA RunStageKeepsInv ==
  ASSUME PipelineInv, RunStage
  PROVE  PipelineInv'
<1> /\ PipelineTypeOK /\ RequestIsOwn /\ DenialIsRemembered /\ GatesArePassed
  BY DEF PipelineInv
<1>1. /\ at = "stage" /\ then = "none" /\ (everDenied <=> Denied(ctx)) /\ body = "no"
      /\ idx \in Nat \ {0} /\ idx \in 1..Len(Middlewares)
      /\ UNCHANGED <<base, then, alarm, observed, mode, world, body>>
  <2>1. /\ at = "stage" /\ idx <= Len(Middlewares)
        /\ UNCHANGED <<base, then, alarm, observed, mode, world, body>>
    BY DEF RunStage, calm, shown, fixed
  <2>2. idx \in Nat \ {0} /\ idx \in 1..Len(Middlewares)
    <3>1. idx \in Nat \ {0}
      BY DEF PipelineTypeOK
    <3>2. QED
      BY <2>1, <3>1, MiddlewareKinds, SMTT(30)
  <2>3. QED
    BY <2>1, <2>2 DEF DenialIsRemembered, GatesArePassed, Executing
<1>2. PICK c \in Context :
        /\ Goto(c, "stage") /\ idx' = idx + 1 /\ c.own = ctx.own
        /\ Denied(ctx) => Denied(c)
        /\ \/ passed' = passed
           \/ /\ passed' = passed \union {idx}
              /\ Middlewares[idx].kind = "gating" /\ ~Denied(ctx) /\ ~Denied(c)
        /\ ~Denied(c) /\ mode = "run" /\ Middlewares[idx].kind = "gating" =>
             passed' = passed \union {idx}
        /\ ~Denied(c) => (broken' <=> broken)
        /\ broken' \in BOOLEAN
  BY <1>1, StageOutcome
<1>3. idx \in DOMAIN Middlewares
  BY <1>1, MiddlewareKinds
<1>4. passed' \subseteq OfKind("gating")
  BY <1>2, <1>3 DEF OfKind, PipelineTypeOK
<1>5. /\ PipelineTypeOK' /\ RequestIsOwn' /\ DenialIsRemembered' /\ ObserversHold'
      /\ OutcomeIsShown' /\ at' = "stage" /\ (everDenied' <=> Denied(c))
  <2>1. idx' \in Nat \ {0}
    BY <1>1, <1>2, SMTT(30)
  <2>2. /\ c.own /\ (everDenied => Denied(c)) /\ base' \in Context /\ base'.own
        /\ body' \in {"no", "started", "returned"} /\ "stage" \in CallPlaces \ {"observe"}
    BY <1>1, <1>2 DEF RequestIsOwn, PipelineTypeOK, CallPlaces
  <2>3. QED
    BY <1>1, <1>2, <1>4, <2>1, <2>2, GotoKeepsInv
<1>6. GatesArePassed'
  <2>1. ASSUME mode = "run", ~Denied(c)
        PROVE  ~broken' /\ passed' = {i \in OfKind("gating") : i < idx + 1}
    <3>1. ~broken /\ passed = {i \in OfKind("gating") : i < idx}
      BY <1>1, <1>2, <2>1 DEF GatesArePassed
    <3>2. OfKind("gating") \subseteq Nat
      BY MiddlewareKinds, SMTT(30) DEF OfKind
    <3>3. \A i \in Nat : i < idx + 1 <=> i < idx \/ i = idx
      BY <1>1, SMTT(30)
    <3>4. CASE Middlewares[idx].kind = "gating"
      <4>1. idx \in OfKind("gating") /\ passed' = passed \union {idx}
        BY <1>2, <1>3, <2>1, <3>4 DEF OfKind
      <4>2. QED
        BY <1>2, <2>1, <3>1, <3>2, <3>3, <4>1
    <3>5. CASE Middlewares[idx].kind # "gating"
      <4>1. idx \notin OfKind("gating") /\ passed' = passed
        BY <1>2, <3>5 DEF OfKind
      <4>2. QED
        BY <1>2, <2>1, <3>1, <3>2, <3>3, <4>1
    <3>6. QED
      BY <3>4, <3>5
  <2>2. QED
    BY <1>1, <1>2, <1>5, <2>1 DEF GatesArePassed, Executing, OfKind
<1>7. ToolIsReady'
  BY <1>5 DEF ToolIsReady, Executing
<1>8. QED
  BY <1>5, <1>6, <1>7 DEF PipelineInv

\* The end of the pipeline and the hook after it.
LEMMA AfterPipelineKeepsInv ==
  ASSUME PipelineInv, AfterPipeline
  PROVE  PipelineInv'
<1> /\ PipelineTypeOK /\ RequestIsOwn /\ DenialIsRemembered /\ GatesArePassed
  BY DEF PipelineInv
<1>1. /\ at = "stage" /\ then = "none" /\ (everDenied <=> Denied(ctx)) /\ body = "no"
      /\ UNCHANGED <<base, idx, then, alarm, observed, mode, world, body, passed, broken>>
  BY DEF AfterPipeline, DenialIsRemembered, GatesArePassed, calm, shown, fixed, record, Executing
<1> DEFINE c == IF Denied(ctx) THEN ctx ELSE [ctx EXCEPT !.status = "allowed"]
<1>2. c \in Context /\ c.own /\ (Denied(c) <=> Denied(ctx))
  BY <1>1 DEF PipelineTypeOK, RequestIsOwn, Context, Denied
<1>3. PICK d \in Context, place \in {"over", "decided"} :
        /\ Goto(d, place) /\ d.own /\ (Denied(c) => Denied(d)) /\ (place = "over" <=> mode = "replay")
  <2>1. CASE mode = "replay"
    <3>1. Goto(EnforceRequiredApproval(c), "over")
      BY <2>1 DEF AfterPipeline
    <3> HIDE DEF c
    <3>2. /\ EnforceRequiredApproval(c) \in Context /\ EnforceRequiredApproval(c).own
          /\ Denied(c) => Denied(EnforceRequiredApproval(c))
      BY <1>2, EnforcingKeepsRequest
    <3>3. QED
      BY <2>1, <3>1, <3>2
  <2>2. CASE mode # "replay"
    <3>1. PICK d \in (IF Denied(c) THEN {c} ELSE EmitHook(c, TRUE)) : Goto(d, "decided")
      BY <2>2 DEF AfterPipeline
    <3> HIDE DEF c
    <3>2. d \in Context /\ d.own /\ (Denied(c) => Denied(d))
      BY <1>2, <3>1, HooksKeepRequest
    <3>3. QED
      BY <2>2, <3>1, <3>2
  <2>3. QED
    BY <2>1, <2>2
<1> HIDE DEF c
<1>4. /\ PipelineTypeOK' /\ RequestIsOwn' /\ DenialIsRemembered' /\ ObserversHold'
      /\ OutcomeIsShown' /\ at' = place /\ (place # "over" => (everDenied' <=> Denied(d)))
  <2>1. /\ idx' \in Nat \ {0} /\ base' \in Context /\ base'.own
        /\ body' \in {"no", "started", "returned"}
        /\ passed' \subseteq OfKind("gating") /\ broken' \in BOOLEAN
        /\ place \in CallPlaces \ {"observe"}
    BY <1>1 DEF PipelineTypeOK, RequestIsOwn, CallPlaces
  <2>2. QED
    BY <1>1, <1>2, <1>3, <2>1, GotoKeepsInv
<1>5. GatesArePassed'
  <2>1. ASSUME mode = "run", ~Denied(ctx)
        PROVE  ~broken /\ passed = OfKind("gating")
    <3>1. ~broken /\ passed = {i \in OfKind("gating") : i < idx}
      BY <1>1, <2>1 DEF GatesArePassed
    <3>2. \A i \in OfKind("gating") : i < idx
      <4>1. idx \in Nat \ {0} /\ idx > Len(Middlewares)
        BY DEF AfterPipeline, PipelineTypeOK
      <4>2. QED
        BY <4>1, MiddlewareKinds, SMTT(30) DEF OfKind
    <3>3. QED
      BY <3>1, <3>2
  <2>2. QED
    BY <1>1, <1>2, <1>3, <1>4, <2>1 DEF GatesArePassed, Executing, OfKind
<1>6. ToolIsReady'
  BY <1>4 DEF ToolIsReady, Executing
<1>7. QED
  BY <1>4, <1>5, <1>6 DEF PipelineInv

\* What holds while a call executes, and is kept by every step of it.
LEMMA ExecutingFacts ==
  ASSUME PipelineInv, at \in Executing
  PROVE  /\ then = "none" /\ ~everDenied /\ ~Denied(ctx) /\ ctx \in Context /\ ctx.own
         /\ ctx.decision # "none" /\ mode = "run" /\ ~broken /\ passed = OfKind("gating")
         /\ base \in Context /\ base.own /\ idx \in Nat \ {0} /\ broken \in BOOLEAN
         /\ body \in {"no", "started", "returned"}
BY DEF PipelineInv, PipelineTypeOK, RequestIsOwn, DenialIsRemembered, GatesArePassed, ToolIsReady,
       Executing

\* A call that goes on executing.
LEMMA ExecutingKeepsInv ==
  ASSUME PipelineInv, at \in Executing, NEW c \in Context, NEW place \in Executing,
         Goto(c, place), c.own, ~Denied(c), c.decision # "none",
         UNCHANGED <<idx, calm, fixed, world, record>>,
         body' \in {body, "started", "returned"},
         place \in {"revalidate", "body", "tool"} /\ c.needs => c.approval = c.tier,
         place \in {"body", "tool"} => verified' = bound'
  PROVE  PipelineInv'
<1>1. /\ then = "none" /\ ~everDenied /\ mode = "run" /\ ~broken /\ passed = OfKind("gating")
      /\ UNCHANGED <<idx, then, alarm, observed, base, mode, world, passed, broken>>
  BY ExecutingFacts DEF calm, shown, fixed, record
<1>2. /\ idx' \in Nat \ {0} /\ base' \in Context /\ base'.own
      /\ body' \in {"no", "started", "returned"}
      /\ passed' \subseteq OfKind("gating") /\ broken' \in BOOLEAN
  BY <1>1, ExecutingFacts
<1>3. /\ PipelineTypeOK' /\ RequestIsOwn' /\ DenialIsRemembered' /\ ObserversHold'
      /\ OutcomeIsShown' /\ ctx' = c /\ at' = place /\ (everDenied' <=> Denied(c))
  <2>1. place \in CallPlaces \ {"observe"} /\ place # "over"
    BY DEF Executing, CallPlaces
  <2>2. QED
    BY <1>1, <1>2, <2>1, GotoKeepsInv
<1>4. GatesArePassed'
  BY <1>1, <1>3 DEF GatesArePassed, Executing, OfKind
<1>5. ToolIsReady'
  BY <1>3 DEF ToolIsReady
<1>6. QED
  BY <1>3, <1>4, <1>5 DEF PipelineInv

\* A call that ends while it executes, and is observed.
LEMMA ExecutingIsObserved ==
  ASSUME PipelineInv, at \in Executing, NEW c \in Context,
         NEW next \in {"deny", "deny_again", "reuse", "result", "error", "carried"},
         Observe(c, next), EndsWith(c, next), UNCHANGED <<fixed, world, record>>,
         body' \in {body, "started", "returned"}
  PROVE  PipelineInv'
<1>1. /\ ~everDenied /\ UNCHANGED <<mode, world, record>>
      /\ body' \in {"no", "started", "returned"}
  BY ExecutingFacts DEF fixed
<1>2. next \in CallEnds \ {"none", "lost"}
  BY DEF CallEnds
<1>3. QED
  BY <1>1, <1>2, ObserveKeepsInv

\* The approval is enforced, execution announced, and enforced again.
LEMMA AnnounceExecutionKeepsInv ==
  ASSUME PipelineInv, AnnounceExecution
  PROVE  PipelineInv'
<1> /\ PipelineTypeOK /\ RequestIsOwn /\ DenialIsRemembered /\ GatesArePassed
  BY DEF PipelineInv
<1> DEFINE c == EnforceRequiredApproval(ctx)
           executing == [c EXCEPT !.status = "executing",
                                  !.decision = IF @ = "none" THEN "allow" ELSE @]
<1>1. /\ at = "decided" /\ then = "none" /\ (everDenied <=> Denied(ctx)) /\ body = "no"
      /\ UNCHANGED <<mode, world, body, passed, broken, record>>
  BY DEF AnnounceExecution, DenialIsRemembered, GatesArePassed, fixed, record, Executing
<1>2. /\ base \in Context /\ base.own /\ body' \in {"no", "started", "returned"}
      /\ passed' \subseteq OfKind("gating") /\ broken' \in BOOLEAN /\ idx \in Nat \ {0}
      /\ {"over", "claim"} \subseteq CallPlaces \ {"observe"}
  BY <1>1 DEF PipelineTypeOK, RequestIsOwn, CallPlaces, Executing
<1>3. c \in Context /\ c.own /\ (Denied(ctx) => Denied(c)) /\ (~Denied(c) => c = ctx)
  BY <1>1, EnforcingKeepsRequest DEF PipelineTypeOK, RequestIsOwn
<1>4. CASE mode # "run" /\ Goto(c, "over") /\ UNCHANGED <<idx, calm>>
  <2> HIDE DEF c
  <2>1. /\ PipelineTypeOK' /\ RequestIsOwn' /\ DenialIsRemembered' /\ ObserversHold'
        /\ OutcomeIsShown' /\ at' = "over"
    BY <1>1, <1>2, <1>3, <1>4, GotoKeepsInv DEF calm, shown
  <2>2. GatesArePassed' /\ ToolIsReady'
    BY <1>1, <2>1 DEF GatesArePassed, ToolIsReady, Executing
  <2>3. QED
    BY <2>1, <2>2 DEF PipelineInv
<1>5. ASSUME NEW d \in Context, Denied(d), Observe(d, "deny_early")
      PROVE  PipelineInv'
  <2>1. "deny_early" \in CallEnds \ {"none", "lost"} /\ EndsWith(d, "deny_early")
    BY <1>5 DEF CallEnds, EndsWith, Terminal
  <2>2. QED
    BY <1>1, <1>2, <1>5, <2>1, ObserveKeepsInv
<1>6. ASSUME mode = "run", ~Denied(c), NEW d \in EmitHook(executing, TRUE)
      PROVE  /\ d \in Context /\ d.own /\ d.decision # "none"
             /\ EnforceRequiredApproval(d) \in Context
             /\ ~Denied(EnforceRequiredApproval(d)) => ~Denied(d)
  <2>1. executing \in Context /\ executing.own /\ executing.decision # "none"
    BY <1>3 DEF Context
  <2> HIDE DEF executing, c
  <2>2. d \in Context /\ d.own /\ d.decision # "none"
    BY <1>6, <2>1, HooksKeepRequest
  <2>3. QED
    BY <2>2, EnforcingKeepsRequest
<1>7. ASSUME mode = "run", ~Denied(c), NEW d \in Context, d.own, ~Denied(d), d.decision # "none",
             Goto(d, "claim"), UNCHANGED <<idx, calm>>
      PROVE  PipelineInv'
  <2>1. ~everDenied
    BY <1>1, <1>3, <1>7
  <2> HIDE DEF c
  <2>2. /\ PipelineTypeOK' /\ RequestIsOwn' /\ DenialIsRemembered' /\ ObserversHold'
        /\ OutcomeIsShown' /\ ctx' = d /\ at' = "claim" /\ ~everDenied'
    BY <1>1, <1>2, <1>7, <2>1, GotoKeepsInv DEF calm, shown
  <2>3. GatesArePassed' /\ ToolIsReady'
    BY <1>1, <1>7, <2>1, <2>2 DEF GatesArePassed, ToolIsReady, Executing, OfKind
  <2>4. QED
    BY <2>2, <2>3 DEF PipelineInv
<1>8. QED
  BY <1>3, <1>4, <1>5, <1>6, <1>7 DEF AnnounceExecution

\* An exception while the call executes.
LEMMA FailingKeepsInv ==
  ASSUME PipelineInv, at \in Executing, Fails(ctx), UNCHANGED <<fixed, world, body, record>>
  PROVE  PipelineInv'
<1>1. PICK uncertain \in BOOLEAN : Observe(FailedContext(ctx, uncertain), "error")
  BY DEF Fails
<1>2. /\ FailedContext(ctx, uncertain) \in Context
      /\ EndsWith(FailedContext(ctx, uncertain), "error")
  BY ExecutingFacts, FailingKeepsRequest DEF EndsWith
<1>3. QED
  BY <1>1, <1>2, ExecutingIsObserved

\* What an execution middleware does on its own.
LEMMA MiddlewareActsKeepsInv ==
  ASSUME PipelineInv, at \in Executing, MiddlewareActs, UNCHANGED <<fixed, world, body, record>>
  PROVE  PipelineInv'
<1>1. ASSUME NEW place \in {"execute", "leave"}, Goto(ctx, place), UNCHANGED <<idx, calm>>
      PROVE  PipelineInv'
  <2>1. place \in Executing /\ place \notin {"revalidate", "body", "tool"}
    BY DEF Executing
  <2>2. QED
    BY <1>1, <2>1, ExecutingFacts, ExecutingKeepsInv
<1>2. ASSUME NEW c \in Candidates, Observe(c, "carried")
      PROVE  PipelineInv'
  <2>1. c \in Context /\ EndsWith(c, "carried")
    BY DEF Candidates, EndsWith
  <2>2. QED
    BY <1>2, <2>1, ExecutingIsObserved
<1>3. QED
  BY <1>1, <1>2, FailingKeepsInv DEF MiddlewareActs

\* The commitment of the approvals, and what a result that is reused shows.
LEMMA CommittingKeepsRequest ==
  ASSUME NEW c \in Context, NEW d \in CommitApprovals(c)
  PROVE  /\ d \in Context /\ d.own = c.own /\ d.tier = c.tier /\ d.needs = c.needs
         /\ c.decision # "none" => d.decision # "none"
         /\ Cached(d) \in Context /\ Cached(d).own = c.own /\ Terminal(Cached(d))
         /\ Cached(d).tier = c.tier /\ Cached(d).needs = c.needs
         /\ Cached(d).decision = d.decision /\ (~Denied(d) => ~Denied(Cached(d)))
<1>1. PICK e \in {c, [c EXCEPT !.approval = -1], WithDeny(c)} : d = EnforceRequiredApproval(e)
  BY DEF CommitApprovals
<1>2. /\ e \in Context /\ e.own = c.own /\ e.tier = c.tier /\ e.needs = c.needs
      /\ c.decision # "none" => e.decision # "none"
  BY DenyingKeepsRequest DEF Context
<1>3. /\ d \in Context /\ d.own = c.own /\ d.tier = c.tier /\ d.needs = c.needs
      /\ c.decision # "none" => d.decision # "none"
  BY <1>1, <1>2, EnforcingKeepsRequest
<1>4. QED
  BY <1>3 DEF Cached, Context, Terminal, Denied

\* A commitment that denies the call gives it the status of a denial.
LEMMA CommittingDenies ==
  ASSUME NEW c \in Context, NEW d \in CommitApprovals(c), ~Denied(c), Denied(d)
  PROVE  d.status = "denied"
<1>1. PICK e \in {c, [c EXCEPT !.approval = -1], WithDeny(c)} : d = EnforceRequiredApproval(e)
  BY DEF CommitApprovals
<1>2. e \in Context /\ (~Denied(e) \/ e.status = "denied")
  BY DenyingKeepsRequest DEF Context, Denied
<1>3. QED
  BY <1>1, <1>2, DenyingKeepsRequest DEF EnforceRequiredApproval

\* The claim and the commitment of the approvals.
LEMMA AcquireClaimKeepsInv ==
  ASSUME PipelineInv, AcquireClaim
  PROVE  PipelineInv'
<1>1. /\ at \in Executing /\ ctx \in Context /\ ctx.own /\ ~Denied(ctx) /\ ctx.decision # "none"
      /\ UNCHANGED <<fixed, world, binding, body, record>>
  BY ExecutingFacts DEF AcquireClaim, Executing
<1>2. ASSUME NEW c \in CommitApprovals(ctx), Denied(c), Observe(c, "deny_again")
      PROVE  PipelineInv'
  <2>1. c \in Context /\ c.status = "denied" /\ c.decision # "none"
    <3>1. c \in Context /\ (ctx.decision # "none" => c.decision # "none")
      BY <1>1, <1>2, CommittingKeepsRequest
    <3>2. ~Denied(ctx) /\ Denied(c) => c.status = "denied"
      BY <1>1, <1>2, CommittingDenies
    <3>3. QED
      BY <1>1, <1>2, <3>1, <3>2
  <2>2. EndsWith(c, "deny_again")
    BY <1>2, <2>1 DEF Terminal, EndsWith
  <2>3. QED
    BY <1>1, <1>2, <2>1, <2>2, ExecutingIsObserved
<1>3. ASSUME NEW c \in CommitApprovals(ctx), ~Denied(c), Observe(Cached(c), "reuse")
      PROVE  PipelineInv'
  <2>1. Cached(c) \in Context /\ EndsWith(Cached(c), "reuse")
    BY <1>1, <1>3, CommittingKeepsRequest DEF EndsWith
  <2>2. QED
    BY <1>1, <1>3, <2>1, ExecutingIsObserved
<1>4. ASSUME NEW c \in CommitApprovals(ctx), ~Denied(c), Goto(c, "execute"),
             UNCHANGED <<idx, calm>>
      PROVE  PipelineInv'
  <2>1. c \in Context /\ c.own /\ c.decision # "none" /\ "execute" \in Executing
    BY <1>1, CommittingKeepsRequest DEF Executing
  <2>2. QED
    BY <1>1, <1>4, <2>1, ExecutingKeepsInv
<1>5. CASE Observe(WithDeny(ctx), "deny_again")
  <2>1. WithDeny(ctx) \in Context /\ EndsWith(WithDeny(ctx), "deny_again")
    BY <1>1, DenyingKeepsRequest DEF EndsWith
  <2>2. QED
    BY <1>1, <1>5, <2>1, ExecutingIsObserved
<1>6. CASE Fails(ctx)
  BY <1>1, <1>6, FailingKeepsInv
<1>7. QED
  BY <1>2, <1>3, <1>4, <1>5, <1>6 DEF AcquireClaim

\* The execution middleware hand a context to execute_tool, or do not.
LEMMA EnterExecutionKeepsInv ==
  ASSUME PipelineInv, EnterExecution
  PROVE  PipelineInv'
<1>1. /\ at \in Executing /\ ctx \in Context /\ ctx.own /\ ~Denied(ctx) /\ ctx.decision # "none"
      /\ UNCHANGED <<fixed, world, binding, body, record>>
  BY ExecutingFacts DEF EnterExecution, Executing
<1>2. ASSUME NEW c \in Candidates, ValidateMiddlewareTransition(ctx, c, "execution"),
             ~Denied(EnforceRequiredApproval(c)), Goto(c, "revalidate"), UNCHANGED <<idx, calm>>
      PROVE  PipelineInv'
  <2>1. c \in Context /\ c.own /\ c.decision # "none" /\ "revalidate" \in Executing
    BY <1>1, <1>2 DEF Candidates, ValidateMiddlewareTransition, GovernanceState, Executing
  <2>2. ~Denied(c) /\ (c.needs => c.approval = c.tier)
    BY <1>2, <2>1, EnforcingKeepsRequest
  <2>3. QED
    BY <1>1, <1>2, <2>1, <2>2, ExecutingKeepsInv
<1>3. CASE Goto(ctx, "refused") /\ UNCHANGED <<idx, calm>>
  <2>1. "refused" \in Executing
    BY DEF Executing
  <2>2. QED
    BY <1>1, <1>3, <2>1, ExecutingKeepsInv
<1>4. CASE Fails(ctx) \/ MiddlewareActs
  BY <1>1, <1>4, FailingKeepsInv, MiddlewareActsKeepsInv
<1>5. QED
  BY <1>2, <1>3, <1>4 DEF EnterExecution

\* _revalidate_bound_action, and a denial that leaves execute_tool.
LEMMA RevalidateKeepsInv ==
  ASSUME PipelineInv, RevalidateBoundAction \/ RefuseExecution
  PROVE  PipelineInv'
<1>1. /\ at \in Executing /\ ctx \in Context /\ ctx.own /\ ~Denied(ctx) /\ ctx.decision # "none"
      /\ at = "revalidate" => (ctx.needs => ctx.approval = ctx.tier)
      /\ UNCHANGED <<fixed, world, body, record>>
  BY ExecutingFacts DEF RevalidateBoundAction, RefuseExecution, Executing, PipelineInv, ToolIsReady
<1>2. "body" \in Executing /\ "refused" \in Executing
  BY DEF Executing
<1>3. CASE RevalidateBoundAction
  <2>1. CASE verified' = bound /\ Goto(ctx, "body")
    BY <1>1, <1>2, <1>3, <2>1, ExecutingKeepsInv DEF RevalidateBoundAction
  <2>2. CASE Goto(ctx, "refused")
    BY <1>1, <1>2, <1>3, <2>2, ExecutingKeepsInv DEF RevalidateBoundAction
  <2>3. QED
    BY <1>3, <2>1, <2>2 DEF RevalidateBoundAction
<1>4. CASE RefuseExecution
  <2>1. CASE Observe(WithDeny(ctx), "deny")
    <3>1. WithDeny(ctx) \in Context /\ EndsWith(WithDeny(ctx), "deny")
      BY <1>1, DenyingKeepsRequest DEF EndsWith
    <3>2. QED
      BY <1>1, <2>1, <3>1, ExecutingIsObserved
  <2>2. QED
    BY <1>1, <1>4, <2>1, MiddlewareActsKeepsInv DEF RefuseExecution
<1>5. QED
  BY <1>3, <1>4

\* The tool starts, ends, and execution is left.
LEMMA ToolKeepsInv ==
  ASSUME PipelineInv, StartTool \/ EndTool \/ LeaveExecution
  PROVE  PipelineInv'
<1>1. /\ at \in Executing /\ ctx \in Context /\ ctx.own /\ ~Denied(ctx) /\ ctx.decision # "none"
      /\ UNCHANGED <<fixed, world, binding, record>>
  BY ExecutingFacts DEF StartTool, EndTool, LeaveExecution, Executing
<1>2. "tool" \in Executing /\ "leave" \in Executing
  BY DEF Executing
<1>3. CASE StartTool
  <2>1. /\ ctx.needs => ctx.approval = ctx.tier
        /\ verified' = bound'
    BY <1>3 DEF StartTool, PipelineInv, ToolIsReady, binding
  <2>2. QED
    BY <1>1, <1>2, <1>3, <2>1, ExecutingKeepsInv DEF StartTool
<1>4. CASE EndTool
  <2>1. CASE (Fails(ctx) \/ MiddlewareActs) /\ UNCHANGED body
    BY <1>1, <2>1, FailingKeepsInv, MiddlewareActsKeepsInv
  <2>2. CASE body' = "returned" /\ Goto(ctx, "leave") /\ UNCHANGED <<idx, calm>>
    BY <1>1, <1>2, <2>2, ExecutingKeepsInv
  <2>3. QED
    BY <1>4, <2>1, <2>2 DEF EndTool
<1>5. CASE LeaveExecution
  <2>1. CASE Fails(ctx) \/ MiddlewareActs
    BY <1>1, <1>5, <2>1, FailingKeepsInv, MiddlewareActsKeepsInv DEF LeaveExecution
  <2>2. CASE Observe([ctx EXCEPT !.status = "succeeded"], "result")
    <3> DEFINE c == [ctx EXCEPT !.status = "succeeded"]
    <3>1. c \in Context /\ EndsWith(c, "result") /\ body' = body
      BY <1>1, <1>5 DEF Context, Terminal, LeaveExecution, EndsWith
    <3>2. Observe(c, "result")
      BY <2>2
    <3> HIDE DEF c
    <3>3. QED
      BY <1>1, <3>1, <3>2, ExecutingIsObserved
  <2>3. QED
    BY <1>5, <2>1, <2>2 DEF LeaveExecution
<1>6. QED
  BY <1>3, <1>4, <1>5

\* What the observers are shown is the outcome or its denial.
LEMMA ObservedContext ==
  ASSUME PipelineInv, at = "observe"
  PROVE  /\ ctx \in Context /\ base \in Context /\ base.own = ctx.own /\ base.tier = ctx.tier
         /\ base.needs = ctx.needs /\ (Denied(base) => Denied(ctx))
         /\ then # "carried" => Terminal(ctx) /\ Terminal(base)
         /\ EndsWith(base, then)
<1>1. /\ ctx \in Context /\ base \in Context /\ ctx \in {base, WithDeny(base)}
      /\ EndsWith(base, then)
  BY DEF PipelineInv, PipelineTypeOK, ObserversHold
<1>2. QED
  BY <1>1, DenyingKeepsRequest DEF EndsWith

\* What one observer is shown.
LEMMA ShowingKeepsContext ==
  ASSUME PipelineInv, at = "observe", NEW i \in OfKind("observing"), ShowOutcome(i)
  PROVE  /\ ctx' \in {ctx, WithDeny(ctx)} /\ alarm' \in BOOLEAN /\ (alarm => alarm')
         /\ observed' = [observed EXCEPT ![i] = observed'[i]]
         /\ observed' \in [OfKind("observing") -> Statuses \union {"none", "late"}]
         /\ observed'[i] # "none"
         /\ observed'[i] = "late" => then # "cancel" /\ (Middlewares[i].critical => alarm')
         /\ observed'[i] \in {"late", ctx'.status}
<1>1. /\ ctx \in Context /\ alarm \in BOOLEAN /\ Middlewares[i].critical \in BOOLEAN
      /\ observed \in [OfKind("observing") -> Statuses \union {"none", "late"}]
  <2>1. i \in 1..Len(Middlewares)
    BY MiddlewareKinds DEF OfKind
  <2>2. QED
    BY <2>1, MiddlewareKinds DEF PipelineInv, PipelineTypeOK
<1>2. PICK c \in EmitHook(ctx, TRUE), late \in BOOLEAN, failed \in BOOLEAN :
        /\ late => failed /\ then # "cancel"
        /\ ctx' = c
        /\ observed' = [observed EXCEPT ![i] = IF late THEN "late" ELSE c.status]
        /\ alarm' = (alarm \/ (failed /\ Middlewares[i].critical))
  BY DEF ShowOutcome
<1>3. c \in {ctx, WithDeny(ctx)} /\ c \in Context
  BY <1>1, <1>2, DenyingKeepsRequest DEF EmitHook
<1>4. c.status \in Statuses /\ c.status \notin {"none", "late"}
  BY <1>3 DEF Context, Statuses
<1>5. observed'[i] = IF late THEN "late" ELSE c.status
  BY <1>1, <1>2
<1>6. observed' \in [OfKind("observing") -> Statuses \union {"none", "late"}]
  BY <1>1, <1>2, <1>4
<1>7. alarm' \in BOOLEAN /\ (alarm => alarm')
      /\ (late => then # "cancel" /\ (Middlewares[i].critical => alarm'))
  BY <1>1, <1>2
<1>8. QED
  BY <1>2, <1>3, <1>4, <1>5, <1>6, <1>7

\* One observer is called, or a middleware of another kind passed over.
LEMMA RunObserverKeepsInv ==
  ASSUME PipelineInv, RunObserver
  PROVE  PipelineInv'
<1> /\ PipelineTypeOK /\ RequestIsOwn /\ DenialIsRemembered /\ GatesArePassed /\ ToolIsReady
    /\ ObserversHold /\ OutcomeIsShown
  BY DEF PipelineInv
<1>1. /\ at = "observe" /\ idx' = idx + 1
      /\ UNCHANGED <<base, at, then, mode, world, bound, verified, body, passed, broken,
                     everDenied>>
  BY DEF RunObserver, fixed, binding, record
<1>2. idx \in Nat \ {0}
  BY DEF PipelineTypeOK
<1>3. /\ ctx \in Context /\ base \in Context /\ ctx \in {base, WithDeny(base)}
      /\ EndsWith(base, then) /\ alarm \in BOOLEAN
      /\ observed \in [OfKind("observing") -> Statuses \union {"none", "late"}]
  BY <1>1 DEF ObserversHold, PipelineTypeOK
<1>4. /\ ctx' \in {ctx, WithDeny(ctx)} /\ alarm' \in BOOLEAN /\ (alarm => alarm')
      /\ observed' \in [OfKind("observing") -> Statuses \union {"none", "late"}]
      /\ \A i \in OfKind("observing") : i # idx => observed'[i] = observed[i]
      /\ idx \in OfKind("observing") =>
            /\ observed'[idx] # "none"
            /\ observed'[idx] = "late" => then # "cancel" /\ (Middlewares[idx].critical => alarm')
            /\ observed'[idx] \in {"late", ctx'.status}
  <2>1. CASE idx \in OfKind("observing")
    <3>1. ShowOutcome(idx)
      BY <2>1 DEF RunObserver
    <3>2. QED
      BY <1>1, <1>3, <2>1, <3>1, ShowingKeepsContext
  <2>2. CASE idx \notin OfKind("observing")
    BY <1>3, <2>2 DEF RunObserver
  <2>3. QED
    BY <2>1, <2>2
<1>5. ctx' \in Context /\ ctx' \in {base', WithDeny(base')} /\ (ctx' = ctx \/ Denied(ctx'))
  <2>1. WithDeny(ctx) \in Context /\ Denied(WithDeny(ctx))
    BY <1>3, DenyingKeepsRequest
  <2>2. WithDeny(WithDeny(base)) = WithDeny(base)
    BY <1>3 DEF WithDeny, Context
  <2>3. QED
    BY <1>1, <1>3, <1>4, <2>1, <2>2
<1>6. idx' \in Nat \ {0}
  BY <1>1, <1>2, SMTT(30)
<1>7. PipelineTypeOK'
  BY <1>1, <1>4, <1>5, <1>6 DEF PipelineTypeOK, OfKind, CallPlaces, CallEnds, Executing
<1>8. RequestIsOwn' /\ DenialIsRemembered' /\ GatesArePassed' /\ ToolIsReady'
  BY <1>1 DEF RequestIsOwn, DenialIsRemembered, GatesArePassed, ToolIsReady, Executing, OfKind,
              Denied
<1>9. ObserversHold'
  BY <1>1, <1>3, <1>5 DEF ObserversHold, EndsWith, Terminal, Denied
<1>10. OutcomeIsShown'
  <2>1. ASSUME NEW i \in OfKind("observing"), i < idx + 1
        PROVE  ShownTo(i, ctx)'
    <3>1. i < idx \/ i = idx
      <4>1. i \in Nat
        BY MiddlewareKinds, SMTT(30) DEF OfKind
      <4>2. QED
        BY <1>2, <2>1, <4>1, SMTT(30)
    <3>2. CASE i = idx
      BY <1>1, <1>4, <3>2 DEF ShownTo, Denied
    <3>3. CASE i # idx
      <4>1. ShownTo(i, ctx)
        BY <1>1, <3>1, <3>3 DEF OutcomeIsShown
      <4>2. QED
        BY <1>1, <1>4, <1>5, <3>3, <4>1 DEF ShownTo, Denied
    <3>4. QED
      BY <3>2, <3>3
  <2>2. QED
    BY <1>1, <2>1 DEF OutcomeIsShown, EveryEndIsObserved, OfKind
<1>11. QED
  BY <1>7, <1>8, <1>9, <1>10 DEF PipelineInv

\* What follows the observers.
LEMMA EndObserversKeepsInv ==
  ASSUME PipelineInv, EndObservers
  PROVE  PipelineInv'
<1> /\ PipelineTypeOK /\ RequestIsOwn /\ DenialIsRemembered /\ GatesArePassed /\ ToolIsReady
    /\ OutcomeIsShown
  BY DEF PipelineInv
<1>1. /\ at = "observe" /\ idx > Len(Middlewares)
      /\ UNCHANGED <<mode, world, bound, verified, body, passed, broken, record>>
  BY DEF EndObservers, fixed, binding, record
<1>2. /\ ctx \in Context /\ base \in Context /\ base.own = ctx.own
      /\ (Denied(base) => Denied(ctx))
      /\ then # "carried" => Terminal(ctx) /\ Terminal(base)
      /\ body \in {"no", "started", "returned"}
      /\ then # "cancel" => (everDenied <=> Denied(base))
  BY <1>1, ObservedContext DEF PipelineTypeOK, DenialIsRemembered
<1>3. CASE then \in {"deny_again", "reuse"} /\ Fails(base)
  <2>1. PICK uncertain \in BOOLEAN : Observe(FailedContext(base, uncertain), "error")
    BY <1>3 DEF Fails
  <2>2. /\ FailedContext(base, uncertain) \in Context
        /\ EndsWith(FailedContext(base, uncertain), "error")
        /\ Denied(FailedContext(base, uncertain)) <=> Denied(base)
    BY <1>2, FailingKeepsRequest DEF EndsWith
  <2>3. "error" \in CallEnds \ {"none", "lost"}
    BY DEF CallEnds
  <2>4. QED
    BY <1>1, <1>2, <1>3, <2>1, <2>2, <2>3, ObserveKeepsInv
<1>4. CASE then = "deny_again" /\ Observe(ctx, "deny")
  <2>1. "deny" \in CallEnds \ {"none", "lost"} /\ EndsWith(ctx, "deny")
    BY <1>2, <1>4 DEF CallEnds, EndsWith
  <2>2. QED
    BY <1>1, <1>2, <1>4, <2>1, ObserveKeepsInv
<1>5. CASE /\ ctx' = IF ~alarm THEN ctx ELSE IF then = "cancel" THEN base ELSE AuditFailed(ctx)
           /\ at' = "over"
           /\ UNCHANGED <<idx, calm, everDenied>>
  <2>1. /\ ctx' \in Context /\ (then # "carried" => Terminal(ctx'))
        /\ ctx' = ctx \/ alarm
    <3>1. AuditFailed(ctx) \in Context /\ (Terminal(ctx) => Terminal(AuditFailed(ctx)))
      <4>1. CASE AuditFailed(ctx) = ctx
        BY <1>2, <4>1
      <4>2. CASE AuditFailed(ctx) = [ctx EXCEPT !.status = "unknown"]
        BY <1>2, <4>2 DEF Context, Terminal
      <4>3. QED
        BY <4>1, <4>2 DEF AuditFailed
    <3>2. QED
      BY <1>2, <1>5, <3>1
  <2>2. PipelineTypeOK'
    BY <1>1, <1>5, <2>1 DEF PipelineTypeOK, calm, shown, CallPlaces, CallEnds, OfKind
  <2>3. RequestIsOwn' /\ DenialIsRemembered' /\ GatesArePassed' /\ ToolIsReady' /\ ObserversHold'
    BY <1>1, <1>5 DEF RequestIsOwn, DenialIsRemembered, GatesArePassed, ToolIsReady,
                      ObserversHold, Executing, OfKind
  <2>4. OutcomeIsShown'
    <3>1. \A i \in OfKind("observing") : i < idx
      <4>1. idx \in Nat \ {0}
        BY DEF PipelineTypeOK
      <4>2. QED
        BY <1>1, <4>1, MiddlewareKinds, SMTT(30) DEF OfKind
    <3>2. \A i \in OfKind("observing") : ShownTo(i, ctx)
      BY <1>1, <3>1 DEF OutcomeIsShown
    <3>3. UNCHANGED <<then, alarm, observed>>
      BY <1>5 DEF calm, shown
    <3>4. EveryEndIsObserved'
      BY <1>5, <2>1, <3>2, <3>3 DEF EveryEndIsObserved, ShownTo, OfKind, Terminal, Denied
    <3>5. QED
      BY <1>5, <3>4 DEF OutcomeIsShown
  <2>5. QED
    BY <2>2, <2>3, <2>4 DEF PipelineInv
<1>6. QED
  BY <1>3, <1>4, <1>5 DEF EndObservers

\* The caller is cancelled.
LEMMA CancelledKeepsInv ==
  ASSUME PipelineInv, Cancelled
  PROVE  PipelineInv'
<1> /\ PipelineTypeOK /\ RequestIsOwn /\ DenialIsRemembered /\ GatesArePassed
  BY DEF PipelineInv
<1>1. /\ at \notin {"over", "new"} /\ UNCHANGED <<mode, world, body, passed, broken, record>>
  BY DEF Cancelled, fixed, record
<1>2. /\ ctx \in Context /\ base \in Context /\ body' \in {"no", "started", "returned"}
      /\ passed' \subseteq OfKind("gating") /\ broken' \in BOOLEAN /\ idx \in Nat \ {0}
  BY <1>1 DEF PipelineTypeOK
<1>3. ASSUME NEW c \in {base, ctx}, NEW uncertain \in BOOLEAN,
             Observe(FailedContext(c, uncertain), "cancel")
      PROVE  PipelineInv'
  <2>1. /\ FailedContext(c, uncertain) \in Context
        /\ EndsWith(FailedContext(c, uncertain), "cancel")
        /\ "cancel" \in CallEnds \ {"none", "lost"}
    BY <1>2, FailingKeepsRequest DEF EndsWith, CallEnds
  <2>2. QED
    BY <1>1, <1>2, <1>3, <2>1, ObserveKeepsInv
<1>4. CASE /\ at = "prepare" \/ at = "observe"
           /\ Goto(ctx, "over") /\ then' = "lost" /\ UNCHANGED <<idx, base, alarm, observed>>
  <2>1. "over" \in CallPlaces \ {"observe"}
    BY DEF CallPlaces
  <2>2. /\ PipelineTypeOK' /\ RequestIsOwn' /\ DenialIsRemembered' /\ ObserversHold'
        /\ OutcomeIsShown' /\ at' = "over"
    BY <1>1, <1>2, <1>4, <2>1, GotoKeepsInv
  <2>3. GatesArePassed' /\ ToolIsReady'
    BY <1>1, <1>4, <2>2 DEF GatesArePassed, ToolIsReady, Executing, OfKind
  <2>4. QED
    BY <2>2, <2>3 DEF PipelineInv
<1>5. QED
  <2>1. CASE Observe(FailedContext(IF at \in {"stage", "observe"} THEN base ELSE ctx,
                                   body # "no" \/ then = "result"), "cancel")
    <3>1. /\ (IF at \in {"stage", "observe"} THEN base ELSE ctx) \in {base, ctx}
          /\ (body # "no" \/ then = "result") \in BOOLEAN
      OBVIOUS
    <3>2. QED
      BY <1>3, <2>1, <3>1
  <2>2. QED
    BY <1>4, <2>1 DEF Cancelled

\* A step that changes at most what the action's preconditions are about.
SameCall ==
    UNCHANGED <<ctx, base, at, idx, then, alarm, mode, bound, verified, body, passed, broken,
                everDenied, observed>>

\* It keeps the invariant.
LEMMA SameCallKeepsInv ==
  ASSUME PipelineInv, SameCall, world' \in Nat
  PROVE  PipelineInv'
<1>1. PipelineTypeOK'
  <2>1. ctx' \in Context /\ base' \in Context
    <3>1. ctx \in Context /\ base \in Context
      BY DEF PipelineInv, PipelineTypeOK
    <3>2. QED
      BY <3>1 DEF SameCall
  <2>2. idx' \in Nat \ {0}
    <3>1. idx \in Nat \ {0}
      BY DEF PipelineInv, PipelineTypeOK
    <3>2. QED
      BY <3>1 DEF SameCall
  <2>3. /\ at' \in CallPlaces /\ then' \in CallEnds
        /\ mode' \in {"run", "preview", "preview all", "replay"}
        /\ body' \in {"no", "started", "returned"}
    <3>1. /\ at \in CallPlaces /\ then \in CallEnds
          /\ mode \in {"run", "preview", "preview all", "replay"}
          /\ body \in {"no", "started", "returned"}
      BY DEF PipelineInv, PipelineTypeOK
    <3>2. at' = at /\ then' = then /\ mode' = mode /\ body' = body
      BY DEF SameCall
    <3>3. QED
      BY <3>1, <3>2
  <2>4. alarm' \in BOOLEAN /\ everDenied' \in BOOLEAN /\ broken' \in BOOLEAN
    <3>1. alarm \in BOOLEAN /\ everDenied \in BOOLEAN /\ broken \in BOOLEAN
      BY DEF PipelineInv, PipelineTypeOK
    <3>2. QED
      BY <3>1 DEF SameCall
  <2>5. /\ passed' \subseteq OfKind("gating")
        /\ observed' \in [OfKind("observing") -> Statuses \union {"none", "late"}]
    <3>1. /\ passed \subseteq OfKind("gating")
          /\ observed \in [OfKind("observing") -> Statuses \union {"none", "late"}]
      BY DEF PipelineInv, PipelineTypeOK
    <3>2. QED
      BY <3>1 DEF SameCall
  <2>6. QED
    BY <2>1, <2>2, <2>3, <2>4, <2>5 DEF PipelineTypeOK, OfKind, CallPlaces, CallEnds, Executing
<1>2. QED
  BY <1>1, SMTT(30)
     DEF SameCall, PipelineInv, RequestIsOwn, DenialIsRemembered, GatesArePassed, ToolIsReady,
         ObserversHold, EndsWith, ShownTo, OutcomeIsShown, EveryEndIsObserved, Executing, OfKind,
         Denied, Terminal

\* What the action's preconditions are about changes, and nothing else does.
LEMMA WorldChangesKeepsInv ==
  ASSUME PipelineInv, WorldChanges
  PROVE  PipelineInv'
<1>1. SameCall /\ world' = world + 1
  BY DEF WorldChanges, SameCall, calm, shown, fixed, binding, record
<1>2. world \in Nat
  BY DEF PipelineInv, PipelineTypeOK
<1>3. world' \in Nat
  BY <1>1, <1>2, SMTT(30)
<1>4. QED
  BY <1>1, <1>3, SameCallKeepsInv

\* The inductive invariant of one governed call, for any middleware.
THEOREM PipelineInvHolds == PipelineSpec => []PipelineInv
<1>1. PipelineInit => PipelineInv
  BY PipelineInitInv
<1>2. PipelineInv /\ [PipelineNext]_pipelineVars => PipelineInv'
  <2> SUFFICES ASSUME PipelineInv, [PipelineNext]_pipelineVars PROVE PipelineInv'
    OBVIOUS
  <2>1. CASE UNCHANGED pipelineVars
    <3>1. SameCall /\ world' = world
      BY <2>1 DEF pipelineVars, SameCall
    <3>2. world' \in Nat
      <4>1. world \in Nat
        BY DEF PipelineInv, PipelineTypeOK
      <4>2. QED
        BY <3>1, <4>1
    <3>3. QED
      BY <3>1, <3>2, SameCallKeepsInv
  <2>2. CASE PipelineNext
    BY <2>2, CreateContextKeepsInv, PrepareActionKeepsInv, BeforePipelineKeepsInv,
       RunStageKeepsInv, AfterPipelineKeepsInv, AnnounceExecutionKeepsInv, AcquireClaimKeepsInv,
       EnterExecutionKeepsInv, RevalidateKeepsInv, ToolKeepsInv, RunObserverKeepsInv,
       EndObserversKeepsInv, CancelledKeepsInv, WorldChangesKeepsInv DEF PipelineNext
  <2>3. QED
    BY <2>1, <2>2
<1>3. QED
  BY <1>1, <1>2, PTL DEF PipelineSpec

\* The tool runs only for a call every gate let pass, with the approval it
\* needs and the action it was bound to, in no preview and no replay.
THEOREM ToolRunsGoverned == PipelineSpec => []ToolIsGoverned
<1>1. PipelineInv => ToolIsGoverned
  BY DEF PipelineInv, RequestIsOwn, GatesArePassed, ToolIsReady, ToolIsGoverned
<1>2. QED
  BY <1>1, PipelineInvHolds, PTL

\* Every call that ends with an answer has gone to every observer with its
\* outcome; a critical observer that was not called in time, and one that failed,
\* changes the answer.
THEOREM EndsAreObserved == PipelineSpec => []EveryEndIsObserved
<1>1. PipelineInv => EveryEndIsObserved
  BY DEF PipelineInv, OutcomeIsShown
<1>2. QED
  BY <1>1, PipelineInvHolds, PTL

\* What a later context of a call keeps of an earlier one.
Tighter(p, c) ==
    /\ c.own = p.own
    /\ c.tier >= p.tier
    /\ p.needs => c.needs
    /\ p.decision # "none" => c.decision # "none"
Follows(p, c) == Tighter(p, c) /\ (p.status = "denied" => c.status = "denied")

\* A context follows itself, its denial, its failure and, unless it is denied,
\* whatever only gives it another status.
LEMMA ContextsFollow ==
  ASSUME NEW c \in Context
  PROVE  /\ Follows(c, c) /\ Follows(c, WithDeny(c)) /\ Follows(c, EnforceRequiredApproval(c))
         /\ \A uncertain \in BOOLEAN : Follows(c, FailedContext(c, uncertain))
         /\ \A d \in EmitHook(c, TRUE) : Follows(c, d)
         /\ Follows(c, AuditFailed(c))
         /\ ~Denied(c) => /\ \A d \in CommitApprovals(c) : Follows(c, d) /\ Follows(c, Cached(d))
                          /\ \A status : Follows(c, [c EXCEPT !.status = status])
<1>1. c.tier \in Int /\ c.tier >= c.tier
  BY PipelineConstants, SMTT(30) DEF Context, Tiers
<1>2. Follows(c, c)
  BY <1>1 DEF Follows, Tighter
<1>3. Follows(c, WithDeny(c))
  BY <1>1, DenyingKeepsRequest DEF Follows, Tighter
<1>4. Follows(c, EnforceRequiredApproval(c))
  BY <1>2, <1>3 DEF EnforceRequiredApproval
<1>5. \A uncertain \in BOOLEAN : Follows(c, FailedContext(c, uncertain))
  BY <1>1, FailingKeepsRequest DEF Follows, Tighter, Denied
<1>6. \A d \in EmitHook(c, TRUE) : Follows(c, d)
  BY <1>2, <1>3 DEF EmitHook
<1>7. ASSUME ~Denied(c), NEW d \in CommitApprovals(c)
      PROVE  Follows(c, d) /\ Follows(c, Cached(d))
  BY <1>1, <1>7, CommittingKeepsRequest DEF Follows, Tighter, Denied
<1>8. ASSUME ~Denied(c), NEW status
      PROVE  Follows(c, [c EXCEPT !.status = status])
  BY <1>1, <1>8 DEF Follows, Tighter, Denied, Context
<1>9. Follows(c, AuditFailed(c))
  BY <1>2, <1>8 DEF AuditFailed
<1>10. QED
  BY <1>2, <1>3, <1>4, <1>5, <1>6, <1>7, <1>8, <1>9

\* And what follows a context that follows another follows that one too.
LEMMA FollowingIsTransitive ==
  ASSUME NEW c \in Context, NEW d \in Context, NEW e \in Context, Follows(c, d), Follows(d, e)
  PROVE  Follows(c, e)
<1>1. c.tier \in Int /\ d.tier \in Int /\ e.tier \in Int
  BY PipelineConstants, SMTT(30) DEF Context, Tiers
<1>2. QED
  BY <1>1, SMTT(30) DEF Follows, Tighter

\* The context of an execution middleware's own exception takes over.
Carries == then' = "carried" /\ then # "carried"

\* What an execution middleware does goes on with the context it was given,
\* unless it is that of its own exception.
LEMMA ActingFollows ==
  ASSUME PipelineInv, at \in Executing, Fails(ctx) \/ MiddlewareActs, ~Carries
  PROVE  Follows(ctx, ctx')
<1>1. ctx \in Context /\ then = "none"
  BY ExecutingFacts
<1>2. QED
  BY <1>1, ContextsFollow DEF MiddlewareActs, Fails, Observe, Loop, Goto, Carries

\* Before and in execution, until the caller is cancelled, each step of a call
\* goes on with a context that follows the one before.
LEMMA StepFollows ==
  ASSUME PipelineInv, PipelineNext, then' # "cancel", ~Carries, ~EndObservers
  PROVE  Follows(ctx, ctx')
<1>1. ctx \in Context /\ Follows(ctx, ctx)
  BY ContextsFollow DEF PipelineInv, PipelineTypeOK
<1>2. CASE CreateContext
  BY <1>1, <1>2, ContextsFollow DEF CreateContext, Goto
<1>3. CASE PrepareAction
  BY <1>1, <1>3, ContextsFollow DEF PrepareAction, Fails, Observe, Loop, Goto
<1>4. CASE BeforePipeline
  BY <1>1, <1>4, ContextsFollow DEF BeforePipeline, Loop, Goto
<1>5. CASE RunStage
  <2>1. PipelineTypeOK
    BY DEF PipelineInv
  <2>2. QED
    BY <1>5, <2>1, StageOutcome DEF Follows, Tighter, Goto
<1>6. CASE AfterPipeline
  <2> DEFINE c == IF Denied(ctx) THEN ctx ELSE [ctx EXCEPT !.status = "allowed"]
  <2>1. c \in Context /\ Follows(ctx, c)
    BY <1>1, ContextsFollow DEF Context
  <2>2. \/ ctx' = EnforceRequiredApproval(c)
        \/ ctx' \in {c} \union EmitHook(c, TRUE)
    BY <1>6 DEF AfterPipeline, Goto
  <2> HIDE DEF c
  <2>3. Follows(c, ctx') /\ ctx' \in Context
    <3>1. CASE ctx' = EnforceRequiredApproval(c)
      BY <2>1, <3>1, ContextsFollow, EnforcingKeepsRequest
    <3>2. CASE ctx' = c
      BY <2>1, <3>2, ContextsFollow
    <3>3. CASE ctx' \in EmitHook(c, TRUE)
      BY <2>1, <3>3, ContextsFollow, HooksKeepRequest
    <3>4. QED
      BY <2>2, <3>1, <3>2, <3>3
  <2>4. QED
    BY <1>1, <2>1, <2>3, FollowingIsTransitive
<1>7. CASE AnnounceExecution
  <2> DEFINE c == EnforceRequiredApproval(ctx)
             executing == [c EXCEPT !.status = "executing",
                                    !.decision = IF @ = "none" THEN "allow" ELSE @]
  <2>1. c \in Context /\ Follows(ctx, c)
    BY <1>1, ContextsFollow, EnforcingKeepsRequest
  <2>2. CASE ctx' = c
    BY <2>1, <2>2
  <2>3. ASSUME ~Denied(c), NEW d \in EmitHook(executing, TRUE),
               ctx' \in {d, EnforceRequiredApproval(d)}
        PROVE  Follows(ctx, ctx')
    <3>1. c.tier \in Int
      BY <2>1, PipelineConstants, SMTT(30) DEF Context, Tiers
    <3> HIDE DEF c
    <3>2. executing \in Context /\ Follows(c, executing)
      <4>1. /\ executing.tier = c.tier /\ executing.needs = c.needs /\ executing.own = c.own
            /\ executing.decision # "none" /\ executing \in Context
        BY <2>1 DEF Context
      <4>2. QED
        BY <2>3, <3>1, <4>1, SMTT(30) DEF Follows, Tighter, Denied
    <3> HIDE DEF executing
    <3>3. d \in Context /\ Follows(executing, d)
      BY <2>3, <3>2, ContextsFollow, HooksKeepRequest
    <3>4. ctx' \in Context /\ Follows(d, ctx')
      BY <2>3, <3>3, ContextsFollow, EnforcingKeepsRequest
    <3>5. QED
      BY <1>1, <2>1, <3>2, <3>3, <3>4, FollowingIsTransitive
  <2>4. QED
    BY <1>7, <2>2, <2>3 DEF AnnounceExecution, Observe, Loop, Goto
<1>8. CASE AcquireClaim
  <2>1. ~Denied(ctx)
    BY <1>8, ExecutingFacts DEF AcquireClaim, Executing
  <2>2. QED
    BY <1>1, <1>8, <2>1, ContextsFollow DEF AcquireClaim, Fails, Observe, Loop, Goto
<1>9. CASE EnterExecution
  <2>1. ASSUME NEW c \in Candidates, ValidateMiddlewareTransition(ctx, c, "execution")
        PROVE  Follows(ctx, c)
    BY <1>1, <2>1 DEF ValidateMiddlewareTransition, GovernanceState, Follows, Tighter
  <2>2. at \in Executing
    BY <1>9 DEF EnterExecution, Executing
  <2>3. QED
    BY <1>1, <1>9, <2>1, <2>2, ActingFollows DEF EnterExecution, Goto
<1>10. CASE RevalidateBoundAction \/ StartTool
  BY <1>1, <1>10 DEF RevalidateBoundAction, StartTool, Goto
<1>11. CASE RefuseExecution \/ EndTool
  <2>1. at \in Executing
    BY <1>11 DEF RefuseExecution, EndTool, Executing
  <2>2. QED
    BY <1>1, <1>11, <2>1, ContextsFollow, ActingFollows
       DEF RefuseExecution, EndTool, Observe, Loop, Goto
<1>12. CASE LeaveExecution
  <2>1. ~Denied(ctx) /\ at \in Executing
    BY <1>12, ExecutingFacts DEF LeaveExecution, Executing
  <2>2. QED
    BY <1>1, <1>12, <2>1, ContextsFollow, ActingFollows DEF LeaveExecution, Observe, Loop, Goto
<1>13. CASE RunObserver
  <2>1. ctx' \in {ctx, WithDeny(ctx)}
    BY <1>13, ShowingKeepsContext DEF RunObserver
  <2>2. QED
    BY <1>1, <2>1, ContextsFollow
<1>14. CASE WorldChanges
  BY <1>1, <1>14 DEF WorldChanges
<1>15. CASE Cancelled
  BY <1>1, <1>15 DEF Cancelled, Observe, Loop, Goto
<1>16. QED
  BY <1>2, <1>3, <1>4, <1>5, <1>6, <1>7, <1>8, <1>9, <1>10, <1>11, <1>12, <1>13, <1>14, <1>15
     DEF PipelineNext

\* What follows the observers goes on with the outcome they were shown, with the
\* failure of the one they were shown first, or with that one.
LEMMA EndFollows ==
  ASSUME PipelineInv, EndObservers
  PROVE  /\ ctx'.own = ctx.own
         /\ then' # "cancel" => Tighter(ctx, ctx') /\ (everDenied => Follows(ctx, ctx'))
<1>1. /\ at = "observe" /\ ctx \in Context /\ base \in Context /\ base.own = ctx.own
      /\ base.tier = ctx.tier /\ base.needs = ctx.needs /\ EndsWith(base, then)
      /\ then # "cancel" => (everDenied <=> Denied(base))
  BY ObservedContext DEF EndObservers, PipelineInv, DenialIsRemembered
<1>2. /\ Follows(ctx, ctx) /\ Follows(ctx, AuditFailed(ctx)) /\ ctx.tier >= ctx.tier
  BY <1>1, ContextsFollow DEF Follows, Tighter
<1>3. CASE then \in {"deny_again", "reuse"} /\ Fails(base)
  <2>1. PICK uncertain \in BOOLEAN : ctx' = FailedContext(base, uncertain)
    BY <1>3 DEF Fails, Observe, Loop, Goto
  <2>2. /\ ctx'.own = ctx.own /\ ctx'.tier = ctx.tier /\ ctx'.needs = ctx.needs
        /\ ctx'.decision = base.decision /\ base.decision # "none"
        /\ Denied(base) => ctx' = base
    BY <1>1, <1>3, <2>1, FailingKeepsRequest DEF EndsWith
  <2>3. everDenied => ctx'.status = "denied"
    BY <1>1, <1>3, <2>2 DEF EndsWith
  <2>4. QED
    BY <1>2, <2>2, <2>3 DEF Follows, Tighter
<1>4. CASE Observe(ctx, "deny")
  BY <1>2, <1>4 DEF Observe, Loop, Goto, Follows
<1>5. CASE /\ ctx' = IF ~alarm THEN ctx ELSE IF then = "cancel" THEN base ELSE AuditFailed(ctx)
           /\ then' = then
  BY <1>1, <1>2, <1>5 DEF Follows, Tighter
<1>6. QED
  BY <1>3, <1>4, <1>5 DEF EndObservers, calm, shown

\* A cancellation keeps the request too.
LEMMA CancellingKeepsRequest ==
  ASSUME PipelineInv, PipelineNext, then' = "cancel"
  PROVE  ctx'.own = ctx.own
<1>1. CASE Cancelled
  <2>1. ctx \in Context /\ base \in Context
    BY DEF PipelineInv, PipelineTypeOK
  <2>2. base.own = ctx.own
    <3>1. CASE at = "observe"
      BY <3>1, ObservedContext
    <3>2. CASE at # "observe"
      BY <1>1, <2>1, <3>2 DEF Cancelled, PipelineInv, RequestIsOwn, Context
    <3>3. QED
      BY <3>1, <3>2
  <2>3. PICK c \in {base, ctx}, uncertain \in BOOLEAN : ctx' = FailedContext(c, uncertain)
    <3>1. /\ (IF at \in {"stage", "observe"} THEN base ELSE ctx) \in {base, ctx}
          /\ (body # "no" \/ then = "result") \in BOOLEAN
      OBVIOUS
    <3>2. QED
      BY <1>1, <3>1 DEF Cancelled, Observe, Loop, Goto
  <2>4. c \in Context /\ c.own = ctx.own
    BY <2>1, <2>2
  <2>5. FailedContext(c, uncertain).own = c.own
    BY <2>4, FailingKeepsRequest
  <2>6. QED
    BY <2>3, <2>4, <2>5
<1>2. CASE EndObservers
  BY <1>2, EndFollows
<1>3. CASE RunObserver
  <2>1. ctx \in Context /\ ctx' \in {ctx, WithDeny(ctx)}
    BY <1>3, ShowingKeepsContext DEF RunObserver, PipelineInv, PipelineTypeOK
  <2>2. QED
    BY <2>1, DenyingKeepsRequest
<1>4. CASE WorldChanges
  BY <1>4 DEF WorldChanges
<1>5. at \notin {"observe", "over"} => then = "none"
  BY DEF PipelineInv, DenialIsRemembered
<1>6. QED
  BY <1>1, <1>2, <1>3, <1>4, <1>5
     DEF PipelineNext, CreateContext, PrepareAction, BeforePipeline, RunStage, AfterPipeline,
         AnnounceExecution, AcquireClaim, EnterExecution, RevalidateBoundAction, RefuseExecution,
         StartTool, EndTool, LeaveExecution, MiddlewareActs, Fails, Observe, calm, shown

\* After a denial, and while the context of an execution middleware's exception
\* is reported, no step starts the tool or lets another gate count.
LEMMA EndedIsIdle ==
  ASSUME PipelineInv, PipelineNext, everDenied \/ then = "carried"
  PROVE  body' = body /\ passed' = passed
<1>1. CASE RunStage
  <2>1. PipelineTypeOK /\ Denied(ctx)
    BY <1>1 DEF RunStage, PipelineInv, DenialIsRemembered
  <2>2. passed' = passed
    BY <1>1, <2>1, StageOutcome
  <2>3. QED
    BY <1>1, <2>2 DEF RunStage
<1>2. CASE StartTool \/ EndTool
  BY <1>2, ExecutingFacts DEF StartTool, EndTool, Executing
<1>3. QED
  BY <1>1, <1>2 DEF PipelineNext, CreateContext, PrepareAction, BeforePipeline, AfterPipeline,
     AnnounceExecution, AcquireClaim, EnterExecution, RevalidateBoundAction, RefuseExecution,
     LeaveExecution, RunObserver, EndObservers, Cancelled, WorldChanges, record

\* No extension changes what the request is, lowers its risk, lifts its need
\* for an approval or takes back a decision; the context of an execution
\* middleware's own exception may, but it is only reported.
THEOREM CallsOnlyTighten == PipelineSpec => OnlyTightens
<1> DEFINE Tightens ==
      /\ ~(then' = "carried" /\ then # "carried") =>
            /\ ctx'.own = ctx.own
            /\ then' # "cancel" =>
                /\ ctx'.tier >= ctx.tier
                /\ ctx.needs => ctx'.needs
                /\ ctx.decision # "none" => ctx'.decision # "none"
      /\ then = "carried" => body' = body /\ passed' = passed
<1>1. PipelineInv /\ [PipelineNext]_pipelineVars => [Tightens]_pipelineVars
  <2> SUFFICES ASSUME PipelineInv, PipelineNext PROVE Tightens
    OBVIOUS
  <2>1. ASSUME ~Carries
        PROVE  ctx'.own = ctx.own /\ (then' # "cancel" => Tighter(ctx, ctx'))
    <3>1. CASE then' = "cancel"
      BY <3>1, CancellingKeepsRequest
    <3>2. CASE EndObservers
      BY <3>2, EndFollows
    <3>3. CASE then' # "cancel" /\ ~EndObservers
      BY <2>1, <3>3, StepFollows DEF Follows, Tighter
    <3>4. QED
      BY <3>1, <3>2, <3>3
  <2>2. QED
    BY <2>1, EndedIsIdle DEF Carries, Tighter
<1>2. QED
  BY <1>1, PipelineInvHolds, PTL DEF PipelineSpec, OnlyTightens

\* After a denial the tool does not start, no gate counts, and the call is
\* reported as denied unless its caller is cancelled.
THEOREM CallsStayDenied == PipelineSpec => DenialIsFinal
<1> DEFINE Final == everDenied =>
                      /\ body' = body
                      /\ passed' = passed
                      /\ ctx.status = "denied" /\ then' # "cancel" => ctx'.status = "denied"
<1>1. PipelineInv /\ [PipelineNext]_pipelineVars => [Final]_pipelineVars
  <2> SUFFICES ASSUME PipelineInv, PipelineNext, everDenied PROVE Final
    BY DEF Final
  <2>1. ~Carries
    <3>1. at \notin Executing
      BY ExecutingFacts
    <3>2. QED
      BY <3>1 DEF Carries, PipelineNext, CreateContext, PrepareAction, BeforePipeline, RunStage,
         AfterPipeline, AnnounceExecution, AcquireClaim, EnterExecution, RevalidateBoundAction,
         RefuseExecution, StartTool, EndTool, LeaveExecution, RunObserver, EndObservers, Cancelled,
         WorldChanges, Fails, Observe, calm, shown, Executing
  <2>2. then' # "cancel" => Follows(ctx, ctx')
    BY <2>1, StepFollows, EndFollows
  <2>3. QED
    BY <2>2, EndedIsIdle DEF Follows
<1>2. QED
  BY <1>1, PipelineInvHolds, PTL DEF PipelineSpec, DenialIsFinal

-----------------------------------------------------------------------------
(* Approvals.                                                                  *)

-----------------------------------------------------------------------------
(* The inductive invariant.                                                    *)

\* What every row satisfies.
RowOK(r) ==
    /\ r \in Row
    /\ r.status \in {"absent", "pending"} => r.decision = NoDecision
    /\ r.token # None => r.status = "decided"

Allows(r) == r.decision.outcome = "allow" /\ r.decision.approver

\* What relates an execution e at stage s, with proposal p, orphaned call o,
\* remembered reservation k and a body that has begun or not (b), to the row r
\* of its request.
ExecutionOK(e, r, s, p, o, k, b) ==
    /\ s \in {"granted", "commit"} =>
         r.status \in {"decided", "consumed"} /\ r.content = ContentOf[e] /\ Allows(r)
    /\ s \in {"committed", "running"} \/ b =>
         r.status = "consumed" /\ r.consumer = e /\ r.content = ContentOf[e] /\ Allows(r)
    /\ r.token = e /\ ~r.lapsed =>
         s \in {"granted", "commit", "release", "denied", "failed closed", "stopped"}
    /\ s = "granted" /\ r.token = e /\ ~r.lapsed => k
    /\ k => s \in {"granted", "release"}
    /\ o # None => s \in {"failed closed", "stopped"}
    /\ s = "decide" \/ o = "decide" => p \in Decision
    /\ b => s = "running" \/ s \in Ended

ApprovalInv ==
    /\ ApprovalTypeOK
    /\ \A q \in Requests : RowOK(row[q])
    /\ \A e \in Executions :
         ExecutionOK(e, row[RequestOf[e]], stage[e], proposal[e], orphan[e], kept[e],
                     e \in started)

-----------------------------------------------------------------------------
(* How a row may change.                                                       *)

\* Content, decision and consumption are final once they are recorded.
Evolves(r, s) ==
    /\ RowOK(s)
    /\ r.status # "absent" => s.status # "absent" /\ s.content = r.content
    /\ r.status \in {"decided", "consumed"} =>
         s.status \in {"decided", "consumed"} /\ s.decision = r.decision
    /\ r.status = "consumed" => s.status = "consumed" /\ s.consumer = r.consumer

\* Nobody but e gets hold of the reservation.
TokenFor(e, r, s) ==
    /\ s.token \in {r.token, None, e}
    /\ s.token = r.token /\ r.lapsed /\ s.token # e => s.lapsed

\* pending records a request or leaves the row.
LEMMA PendedEvolves ==
    ASSUME NEW e \in Executions, RowOK(Mine(e))
    PROVE  /\ Evolves(Mine(e), Pended(e))
           /\ Pended(e).token = Mine(e).token /\ Pended(e).lapsed = Mine(e).lapsed
           /\ Pended(e).decision = Mine(e).decision
<1>1. ContentOf[e] \in Contents
  BY ApprovalConstants
<1> QED BY <1>1 DEF RowOK, Row, Evolves, Pended

\* A decision is recorded in a row that has none.
LEMMA DecidedEvolves ==
    ASSUME NEW q \in Requests, RowOK(row[q]), Decidable(q), NEW d \in Decision
    PROVE  /\ Evolves(row[q], Decided(q, d))
           /\ Decided(q, d).token = row[q].token /\ Decided(q, d).lapsed = row[q].lapsed
           /\ row[q].decision = NoDecision /\ Decided(q, d).decision = d
BY DEF RowOK, Row, Evolves, Decidable, Decided

\* reserve gives the token to e, if anything.
LEMMA ReservedEvolves ==
    ASSUME NEW e \in Executions, RowOK(Mine(e))
    PROVE  /\ Evolves(Mine(e), Reserved(e))
           /\ Reserved(e).decision = Mine(e).decision
           /\ IF Reservable(e) THEN Reserved(e).token = e ELSE Reserved(e) = Mine(e)
<1>1. CASE Reservable(e)
  BY <1>1 DEF RowOK, Row, Evolves, Reserved, Reservable
<1>2. CASE ~Reservable(e)
  BY <1>2 DEF RowOK, Evolves, Reserved
<1> QED BY <1>1, <1>2

\* commit consumes the row or clears the reservation of e.
LEMMA CommittedEvolves ==
    ASSUME NEW e \in Executions, RowOK(Mine(e))
    PROVE  /\ Evolves(Mine(e), Committed(e))
           /\ Committed(e).decision = Mine(e).decision
           /\ Committed(e) = Mine(e) \/ (Mine(e).token = e /\ Committed(e).token = None)
           /\ Committable(e) => Committed(e).status = "consumed" /\ Committed(e).consumer = e
<1>0. e # None
  BY ApprovalConstants
<1>1. CASE Committable(e)
  BY <1>0, <1>1 DEF RowOK, Row, Evolves, Committed, ClearReservation, Mine, Committable, Holds
<1>2. CASE ~Committable(e) /\ Mine(e).status = "decided" /\ Mine(e).token = e
  BY <1>2 DEF RowOK, Row, Evolves, Committed, ClearReservation, Mine
<1>3. CASE ~Committable(e) /\ ~(Mine(e).status = "decided" /\ Mine(e).token = e)
  BY <1>3 DEF RowOK, Evolves, Committed
<1> QED BY <1>1, <1>2, <1>3

\* release clears the reservation of e or nothing.
LEMMA ReleasedEvolves ==
    ASSUME NEW e \in Executions, RowOK(Mine(e))
    PROVE  /\ Evolves(Mine(e), Released(e))
           /\ Released(e).decision = Mine(e).decision
           /\ Released(e) = Mine(e) \/ (Mine(e).token = e /\ Released(e).token = None)
           /\ Released(e).token # e
<1>0. e # None
  BY ApprovalConstants
<1>1. CASE Mine(e).status # "consumed" /\ Mine(e).token = e
  BY <1>0, <1>1 DEF RowOK, Row, Evolves, Released, ClearReservation, Mine
<1>2. CASE ~(Mine(e).status # "consumed" /\ Mine(e).token = e)
  BY <1>0, <1>2 DEF RowOK, Evolves, Released
<1> QED BY <1>1, <1>2

\* An execution that takes no part in a step stays related to its row.
LEMMA Bystander ==
    ASSUME NEW f \in Executions, NEW r, NEW r2, NEW s, NEW p, NEW o, NEW k, NEW b,
           ExecutionOK(f, r, s, p, o, k, b),
           Evolves(r, r2),
           r2.token = f => r.token = f /\ (r.lapsed => r2.lapsed),
           r \in Row
    PROVE  ExecutionOK(f, r2, s, p, o, k, b)
BY DEF ExecutionOK, Evolves, RowOK, Allows, Row

-----------------------------------------------------------------------------
(* Steps.                                                                      *)

\* Nothing changes but e's own state and the row of its request.
OnlyBy(e) ==
    /\ \A q \in Requests : q # RequestOf[e] => row'[q] = row[q]
    /\ \A f \in Executions : f # e =>
         /\ stage'[f] = stage[f] /\ proposal'[f] = proposal[f]
         /\ orphan'[f] = orphan[f] /\ kept'[f] = kept[f]
         /\ (f \in started') = (f \in started)

\* A step of e keeps the invariant if it leaves its own row and state in order.
LEMMA StepOfOne ==
    ASSUME ApprovalInv, NEW e \in Executions, OnlyBy(e), ApprovalTypeOK',
           Evolves(row[RequestOf[e]], row'[RequestOf[e]]),
           TokenFor(e, row[RequestOf[e]], row'[RequestOf[e]]),
           ExecutionOK(e, row'[RequestOf[e]], stage'[e], proposal'[e], orphan'[e], kept'[e],
                       e \in started')
    PROVE  ApprovalInv'
<1>1. RequestOf \in [Executions -> Requests] /\ None \notin Executions
  BY ApprovalConstants
<1>2. \A q \in Requests : RowOK(row'[q])
  BY DEF ApprovalInv, OnlyBy, Evolves
<1>3. ASSUME NEW f \in Executions, f # e
      PROVE  ExecutionOK(f, row'[RequestOf[f]], stage'[f], proposal'[f], orphan'[f], kept'[f],
                         f \in started')
  <2>1. ExecutionOK(f, row[RequestOf[f]], stage[f], proposal[f], orphan[f], kept[f], f \in started)
    BY DEF ApprovalInv
  <2>2. RowOK(row[RequestOf[f]]) /\ row[RequestOf[f]] \in Row
    BY <1>1 DEF ApprovalInv, RowOK
  <2>3. CASE RequestOf[f] = RequestOf[e]
    <3>1. row'[RequestOf[f]].token = f => /\ row[RequestOf[f]].token = f
                                          /\ row[RequestOf[f]].lapsed => row'[RequestOf[f]].lapsed
      BY <1>1, <1>3, <2>3 DEF TokenFor
    <3>2. ExecutionOK(f, row'[RequestOf[f]], stage[f], proposal[f], orphan[f], kept[f], f \in started)
      BY <2>1, <2>2, <2>3, <3>1, Bystander
    <3> QED BY <3>2, <1>3 DEF OnlyBy
  <2>4. CASE RequestOf[f] # RequestOf[e]
    BY <1>1, <1>3, <2>1, <2>4 DEF OnlyBy
  <2> QED BY <2>3, <2>4
<1>4. \A f \in Executions :
        ExecutionOK(f, row'[RequestOf[f]], stage'[f], proposal'[f], orphan'[f], kept'[f], f \in started')
  BY <1>3
<1> QED BY <1>2, <1>4 DEF ApprovalInv

\* A step outside the executions: a review, or time that passes.
LEMMA StepOfNone ==
    ASSUME ApprovalInv, NEW q \in Requests, NEW r,
           row' = [row EXCEPT ![q] = r],
           UNCHANGED <<stage, proposal, orphan, kept, started>>,
           Evolves(row[q], r), r.token = row[q].token, row[q].lapsed => r.lapsed
    PROVE  ApprovalInv'
<1>1. RequestOf \in [Executions -> Requests]
  BY ApprovalConstants
<1>2. r \in Row /\ RowOK(r)
  BY DEF Evolves, RowOK
<1>3. ApprovalTypeOK' /\ \A x \in Requests : RowOK(row'[x])
  BY <1>2 DEF ApprovalInv, ApprovalTypeOK
<1>4. ASSUME NEW f \in Executions
      PROVE  ExecutionOK(f, row'[RequestOf[f]], stage[f], proposal[f], orphan[f], kept[f], f \in started)
  <2>1. ExecutionOK(f, row[RequestOf[f]], stage[f], proposal[f], orphan[f], kept[f], f \in started)
    BY DEF ApprovalInv
  <2>2. row[RequestOf[f]] \in Row /\ row \in [Requests -> Row]
    BY <1>1 DEF ApprovalInv, ApprovalTypeOK
  <2>3. CASE RequestOf[f] = q
    <3>1. row'[RequestOf[f]] = r
      BY <2>2, <2>3
    <3> QED BY <2>1, <2>2, <2>3, <3>1, Bystander
  <2>4. CASE RequestOf[f] # q
    BY <1>1, <2>1, <2>2, <2>4
  <2> QED BY <2>3, <2>4
<1> QED BY <1>3, <1>4 DEF ApprovalInv

\* A step of e writes r into its row and moves e to stage s, proposal p,
\* orphaned call o and remembered reservation k.
Moves(e, r, s, p, o, k) ==
    /\ row' = [row EXCEPT ![RequestOf[e]] = r]
    /\ s \in Stages /\ stage' = [stage EXCEPT ![e] = s]
    /\ p \in Decision \cup {NoDecision} /\ proposal' = [proposal EXCEPT ![e] = p]
    /\ o \in Waiting \cup {None} /\ orphan' = [orphan EXCEPT ![e] = o]
    /\ k \in BOOLEAN /\ kept' = [kept EXCEPT ![e] = k]
    /\ started' = started \/ started' = started \cup {e}

\* Such a step keeps the invariant if r and the new state of e are in order.
LEMMA StepWith ==
    ASSUME ApprovalInv, NEW e \in Executions, NEW r, NEW s, NEW p, NEW o, NEW k,
           Moves(e, r, s, p, o, k),
           Evolves(Mine(e), r), TokenFor(e, Mine(e), r),
           ExecutionOK(e, r, s, p, o, k, e \in started')
    PROVE  ApprovalInv'
<1> USE DEF Moves
<1>1. RequestOf[e] \in Requests
  BY ApprovalConstants
<1>2. /\ row \in [Requests -> Row] /\ stage \in [Executions -> Stages]
      /\ proposal \in [Executions -> Decision \cup {NoDecision}]
      /\ orphan \in [Executions -> Waiting \cup {None}]
      /\ kept \in [Executions -> BOOLEAN] /\ started \subseteq Executions
  BY DEF ApprovalInv, ApprovalTypeOK
<1>3. r \in Row
  BY DEF Evolves, RowOK
<1>4. /\ row'[RequestOf[e]] = r /\ stage'[e] = s /\ proposal'[e] = p /\ orphan'[e] = o /\ kept'[e] = k
  BY <1>1, <1>2
<1>5. ApprovalTypeOK'
  BY <1>1, <1>2, <1>3 DEF ApprovalTypeOK
<1>6. OnlyBy(e)
  BY <1>1, <1>2, SMTT(30) DEF OnlyBy
<1>7. ExecutionOK(e, row'[RequestOf[e]], stage'[e], proposal'[e], orphan'[e], kept'[e], e \in started')
  BY <1>4
<1>8. /\ Evolves(row[RequestOf[e]], row'[RequestOf[e]])
      /\ TokenFor(e, row[RequestOf[e]], row'[RequestOf[e]])
  BY <1>4 DEF Mine
<1> QED BY <1>5, <1>6, <1>7, <1>8, StepOfOne

\* The types of e's own state and of its row.
Own(e) ==
    /\ RequestOf[e] \in Requests /\ e # None
    /\ Mine(e) \in Row /\ RowOK(Mine(e)) /\ row = [row EXCEPT ![RequestOf[e]] = Mine(e)]
    /\ stage[e] \in Stages /\ stage = [stage EXCEPT ![e] = stage[e]]
    /\ proposal[e] \in Decision \cup {NoDecision}
    /\ proposal = [proposal EXCEPT ![e] = proposal[e]]
    /\ orphan[e] \in Waiting \cup {None} /\ orphan = [orphan EXCEPT ![e] = orphan[e]]
    /\ kept[e] \in BOOLEAN /\ kept = [kept EXCEPT ![e] = kept[e]]

\* What the invariant says of an execution and of its row.
LEMMA OwnState ==
    ASSUME ApprovalInv, NEW e \in Executions
    PROVE  /\ Own(e)
           /\ ExecutionOK(e, Mine(e), stage[e], proposal[e], orphan[e], kept[e], e \in started)
           /\ Evolves(Mine(e), Mine(e)) /\ TokenFor(e, Mine(e), Mine(e))
<1>1. RequestOf[e] \in Requests /\ e # None
  BY ApprovalConstants
<1>2. Mine(e) \in Row /\ RowOK(Mine(e))
  BY <1>1 DEF ApprovalInv, RowOK, Mine
<1>3. Evolves(Mine(e), Mine(e)) /\ TokenFor(e, Mine(e), Mine(e))
  BY <1>2 DEF Evolves, TokenFor
<1> QED BY <1>1, <1>2, <1>3 DEF Own, ApprovalInv, ApprovalTypeOK, Mine

\* DecisionMiddleware.process keeps the invariant.
LEMMA ProcessKeepsInv ==
    ASSUME ApprovalInv, NEW e \in Executions,
           Pending(e) \/ ProviderDecides(e) \/ RecordDecision(e) \/ Reserve(e)
    PROVE  ApprovalInv'
<1>0. Own(e)
  BY OwnState
<1>i. ExecutionOK(e, Mine(e), stage[e], proposal[e], orphan[e], kept[e], e \in started)
  BY OwnState
<1>r. Evolves(Mine(e), Mine(e)) /\ TokenFor(e, Mine(e), Mine(e))
  BY OwnState
<1>1. CASE Pending(e)
  <2>1. /\ Evolves(Mine(e), Pended(e))
        /\ Pended(e).token = Mine(e).token /\ Pended(e).lapsed = Mine(e).lapsed
    BY <1>0, PendedEvolves DEF Own
  <2>2. TokenFor(e, Mine(e), Pended(e))
    BY <2>1 DEF TokenFor
  <2>3. PICK s \in {"denied", "ask", "reserve"} : stage' = [stage EXCEPT ![e] = s]
    BY <1>1 DEF Pending, MoveTo
  <2>4. ExecutionOK(e, Pended(e), s, proposal[e], orphan[e], kept[e], e \in started')
    BY <1>1, <1>i, <2>1 DEF ExecutionOK, Pending, Ended
  <2>5. s \in Stages
    BY DEF Stages, Waiting, Ended
  <2>6. Moves(e, Pended(e), s, proposal[e], orphan[e], kept[e])
    BY <1>0, <1>1, <2>3, <2>5 DEF Own, Moves, Pending, Put
  <2> QED BY <2>1, <2>2, <2>4, <2>6, StepWith
<1>2. CASE ProviderDecides(e)
  <2>1. PICK d \in Decision : proposal' = [proposal EXCEPT ![e] = d]
    BY <1>2 DEF ProviderDecides
  <2>2. ExecutionOK(e, Mine(e), "decide", d, orphan[e], kept[e], e \in started')
    BY <1>2, <1>i DEF ExecutionOK, ProviderDecides, Ended
  <2>3. "decide" \in Stages /\ d \in Decision \cup {NoDecision}
    BY DEF Stages, Waiting
  <2>4. Moves(e, Mine(e), "decide", d, orphan[e], kept[e])
    BY <1>0, <1>2, <2>1, <2>3 DEF Own, Moves, ProviderDecides, MoveTo
  <2> QED BY <1>r, <2>2, <2>4, StepWith
<1>3. CASE RecordDecision(e)
  <2>0. /\ started' = started /\ proposal' = proposal /\ orphan' = orphan /\ kept' = kept
        /\ "reserve" \in Stages /\ "denied" \in Stages
    BY <1>3 DEF RecordDecision, Stages, Waiting, Ended
  <2>1. proposal[e] \in Decision
    BY <1>3, <1>i DEF ExecutionOK, RecordDecision
  <2>2. CASE /\ Decidable(RequestOf[e]) /\ Put(e, Decided(RequestOf[e], proposal[e]))
             /\ MoveTo(e, "reserve")
    <3> DEFINE r == Decided(RequestOf[e], proposal[e])
    <3>1. Evolves(Mine(e), r) /\ r.token = Mine(e).token /\ r.lapsed = Mine(e).lapsed
      BY <1>0, <2>1, <2>2, DecidedEvolves DEF Own, Mine
    <3> HIDE DEF r
    <3>2. TokenFor(e, Mine(e), r)
      BY <3>1 DEF TokenFor
    <3>3. ExecutionOK(e, r, "reserve", proposal[e], orphan[e], kept[e], e \in started')
      BY <1>3, <1>i, <2>1, <3>1 DEF ExecutionOK, RecordDecision, Ended
    <3>4. row' = [row EXCEPT ![RequestOf[e]] = r] /\ stage' = [stage EXCEPT ![e] = "reserve"]
      BY <2>2 DEF Put, MoveTo, r
    <3>5. Moves(e, r, "reserve", proposal[e], orphan[e], kept[e])
      BY <1>0, <2>0, <3>4 DEF Own, Moves
    <3> QED BY <3>1, <3>2, <3>3, <3>5, StepWith
  <2>3. ASSUME NEW s \in {"reserve", "denied"}, MoveTo(e, s), UNCHANGED row PROVE ApprovalInv'
    <3>1. ExecutionOK(e, Mine(e), s, proposal[e], orphan[e], kept[e], e \in started')
      BY <1>3, <1>i DEF ExecutionOK, RecordDecision, Ended
    <3>2. Moves(e, Mine(e), s, proposal[e], orphan[e], kept[e])
      BY <1>0, <2>0, <2>3 DEF Own, Moves, MoveTo
    <3> QED BY <1>r, <3>1, <3>2, StepWith
  <2> QED BY <1>3, <2>2, <2>3 DEF RecordDecision
<1>4. CASE Reserve(e)
  <2>1. /\ Evolves(Mine(e), Reserved(e))
        /\ Reserved(e).decision = Mine(e).decision
        /\ IF Reservable(e) THEN Reserved(e).token = e ELSE Reserved(e) = Mine(e)
    BY <1>0, ReservedEvolves DEF Own
  <2>2. TokenFor(e, Mine(e), Reserved(e))
    BY <1>r, <2>1 DEF TokenFor
  <2>3. PICK s \in {"granted", "release", "denied"} :
          /\ stage' = [stage EXCEPT ![e] = s]
          /\ s = "granted" => Reservable(e) /\ Grants(e)
          /\ s = "denied" => ~Reservable(e)
    BY <1>4 DEF Reserve, MoveTo
  <2>4. s \in Stages /\ Reservable(e) \in BOOLEAN
    BY DEF Stages, Waiting, Ended, Reservable
  <2>5. Moves(e, Reserved(e), s, proposal[e], orphan[e], Reservable(e))
    BY <1>0, <1>4, <2>3, <2>4 DEF Own, Moves, Reserve, Put
  <2>6. s = "granted" => /\ Reserved(e).status \in {"decided", "consumed"}
                         /\ Reserved(e).content = ContentOf[e] /\ Allows(Reserved(e))
    BY <2>1, <2>3 DEF Reservable, Grants, Allows, Evolves, ValidateRequest
  <2>7. e \notin started
    BY <1>4, <1>i DEF ExecutionOK, Reserve, Ended
  <2>8. ExecutionOK(e, Reserved(e), s, proposal[e], orphan[e], Reservable(e), e \in started')
    BY <1>4, <1>i, <2>1, <2>3, <2>6, <2>7 DEF ExecutionOK, Reserve
  <2> QED BY <2>1, <2>2, <2>5, <2>8, StepWith
<1> QED BY <1>1, <1>2, <1>3, <1>4

\* What the runtime does with a granted context keeps the invariant.
LEMMA RuntimeKeepsInv ==
    ASSUME ApprovalInv, NEW e \in Executions,
           \/ Withdraw(e) \/ Release(e) \/ Boundary(e) \/ Commit(e)
           \/ Execute(e) \/ Finish(e)
    PROVE  ApprovalInv'
<1>0. Own(e)
  BY OwnState
<1>i. ExecutionOK(e, Mine(e), stage[e], proposal[e], orphan[e], kept[e], e \in started)
  BY OwnState
<1>r. Evolves(Mine(e), Mine(e)) /\ TokenFor(e, Mine(e), Mine(e))
  BY OwnState
<1>s. {"denied", "release", "commit", "committed", "running", "finished"} \subseteq Stages
  BY DEF Stages, Waiting, Ended
<1>1. CASE Withdraw(e)
  <2>1. PICK s \in {"release", "denied"} :
          stage' = [stage EXCEPT ![e] = s] /\ (s = "denied" => ~kept[e])
    BY <1>1 DEF Withdraw, MoveTo
  <2>2. ExecutionOK(e, Mine(e), s, proposal[e], orphan[e], FALSE, e \in started')
    BY <1>1, <1>i, <2>1 DEF ExecutionOK, Withdraw, Ended
  <2>3. Moves(e, Mine(e), s, proposal[e], orphan[e], FALSE)
    BY <1>0, <1>1, <1>s, <2>1 DEF Own, Moves, Withdraw
  <2> QED BY <1>r, <2>2, <2>3, StepWith
<1>2. CASE Release(e)
  <2>1. /\ Evolves(Mine(e), Released(e)) /\ Released(e).token # e
        /\ Released(e) = Mine(e) \/ Released(e).token = None
    BY <1>0, ReleasedEvolves DEF Own
  <2>2. TokenFor(e, Mine(e), Released(e))
    BY <1>0, <1>r, <2>1, ReleasedEvolves DEF Own, TokenFor
  <2>3. ExecutionOK(e, Released(e), "denied", proposal[e], orphan[e], FALSE, e \in started')
    BY <1>2, <1>i, <2>1 DEF ExecutionOK, Release, Ended
  <2>4. Put(e, Released(e)) => Moves(e, Released(e), "denied", proposal[e], orphan[e], FALSE)
    BY <1>0, <1>2, <1>s DEF Own, Moves, Release, Put, MoveTo
  <2>5. CASE Put(e, Released(e))
    BY <2>1, <2>2, <2>3, <2>4, <2>5, StepWith
  <2>6. CASE UNCHANGED row
    <3>1. ExecutionOK(e, Mine(e), "denied", proposal[e], orphan[e], FALSE, e \in started')
      BY <1>2, <1>i DEF ExecutionOK, Release, Ended
    <3>2. Moves(e, Mine(e), "denied", proposal[e], orphan[e], FALSE)
      BY <1>0, <1>2, <1>s, <2>6 DEF Own, Moves, Release, MoveTo
    <3> QED BY <1>r, <3>1, <3>2, StepWith
  <2> QED BY <1>2, <2>5, <2>6 DEF Release
<1>3. CASE Boundary(e)
  <2>1. PICK s \in {"commit", "denied"} :
          stage' = [stage EXCEPT ![e] = s] /\ (s = "denied" => ~kept[e])
    BY <1>3 DEF Boundary, MoveTo
  <2>2. ExecutionOK(e, Mine(e), s, proposal[e], orphan[e], FALSE, e \in started')
    BY <1>3, <1>i, <2>1 DEF ExecutionOK, Boundary, Ended
  <2>3. Moves(e, Mine(e), s, proposal[e], orphan[e], FALSE)
    BY <1>0, <1>3, <1>s, <2>1 DEF Own, Moves, Boundary
  <2> QED BY <1>r, <2>2, <2>3, StepWith
<1>4. CASE Commit(e)
  <2>1. /\ Evolves(Mine(e), Committed(e))
        /\ Committed(e).decision = Mine(e).decision
        /\ Committed(e) = Mine(e) \/ (Mine(e).token = e /\ Committed(e).token = None)
        /\ Committable(e) => Committed(e).status = "consumed" /\ Committed(e).consumer = e
    BY <1>0, CommittedEvolves DEF Own
  <2>2. TokenFor(e, Mine(e), Committed(e))
    BY <1>0, <1>r, <2>1 DEF Own, TokenFor
  <2>3. PICK r, s : /\ row' = [row EXCEPT ![RequestOf[e]] = r] /\ r \in {Mine(e), Committed(e)}
                    /\ stage' = [stage EXCEPT ![e] = s] /\ s \in {"committed", "release"}
                    /\ s = "committed" => r = Committed(e) /\ Committable(e)
    BY <1>0, <1>4, SMTT(30) DEF Own, Commit, Put, MoveTo
  <2>4. Evolves(Mine(e), r) /\ TokenFor(e, Mine(e), r)
    BY <1>r, <2>1, <2>2, <2>3
  <2>5. /\ Mine(e).status \in {"decided", "consumed"} /\ Mine(e).content = ContentOf[e]
        /\ Allows(Mine(e)) /\ e \notin started
    BY <1>4, <1>i DEF ExecutionOK, Commit, Ended
  <2>6. r.content = ContentOf[e] /\ Allows(r)
    BY <2>4, <2>5 DEF Evolves, Allows
  <2>7. s = "committed" => r.status = "consumed" /\ r.consumer = e /\ r.token # e
    BY <1>0, <2>1, <2>3 DEF Own, Committable, Holds, RowOK, Evolves
  <2>8. ExecutionOK(e, r, s, proposal[e], orphan[e], kept[e], e \in started')
    BY <1>4, <1>i, <2>3, <2>5, <2>6, <2>7 DEF ExecutionOK, Commit
  <2>9. Moves(e, r, s, proposal[e], orphan[e], kept[e])
    BY <1>0, <1>4, <1>s, <2>3 DEF Own, Moves, Commit
  <2> QED BY <2>4, <2>8, <2>9, StepWith
<1>5. CASE Execute(e)
  <2>1. PICK s \in {"running", "finished", "denied"} : stage' = [stage EXCEPT ![e] = s]
    BY <1>5 DEF Execute, MoveTo
  <2>2. /\ Mine(e).status = "consumed" /\ Mine(e).consumer = e /\ Mine(e).token # e
        /\ Mine(e).content = ContentOf[e] /\ Allows(Mine(e))
    BY <1>0, <1>5, <1>i DEF ExecutionOK, Execute, Own, RowOK
  <2>3. ExecutionOK(e, Mine(e), s, proposal[e], orphan[e], kept[e], e \in started')
    BY <1>5, <1>i, <2>1, <2>2 DEF ExecutionOK, Execute, Ended
  <2>4. Moves(e, Mine(e), s, proposal[e], orphan[e], kept[e])
    BY <1>0, <1>5, <1>s, <2>1 DEF Own, Moves, Execute
  <2> QED BY <1>r, <2>3, <2>4, StepWith
<1>6. CASE Finish(e)
  <2>1. ExecutionOK(e, Mine(e), "finished", proposal[e], orphan[e], kept[e], e \in started')
    BY <1>6, <1>i DEF ExecutionOK, Finish, Ended
  <2>2. Moves(e, Mine(e), "finished", proposal[e], orphan[e], kept[e])
    BY <1>0, <1>6, <1>s DEF Own, Moves, Finish, MoveTo
  <2> QED BY <1>r, <2>1, <2>2, StepWith
<1> QED BY <1>1, <1>2, <1>3, <1>4, <1>5, <1>6

\* An execution that stops waiting, and the call it leaves behind, keep the
\* invariant.
LEMMA FaultKeepsInv ==
    ASSUME ApprovalInv, NEW e \in Executions,
           TimeOut(e) \/ Abandon(e) \/ LateCall(e) \/ DropCall(e) \/ PruneReservation(e)
    PROVE  ApprovalInv'
<1>0. Own(e)
  BY OwnState
<1>i. ExecutionOK(e, Mine(e), stage[e], proposal[e], orphan[e], kept[e], e \in started)
  BY OwnState
<1>r. Evolves(Mine(e), Mine(e)) /\ TokenFor(e, Mine(e), Mine(e))
  BY OwnState
<1>1. ASSUME NEW s \in {"failed closed", "stopped"}, Leave(e, s)
      PROVE  ApprovalInv'
  <2>1. PICK o \in Waiting \cup {None} :
          orphan' = [orphan EXCEPT ![e] = o] /\ (o = "decide" => stage[e] = "decide")
    <3>1. None # "decide"
      BY ApprovalConstants
    <3> QED BY <1>0, <1>1, <3>1 DEF Leave, Waiting
  <2>2. ExecutionOK(e, Mine(e), s, proposal[e], o, FALSE, e \in started')
    BY <1>1, <1>i, <2>1 DEF ExecutionOK, Leave, Ended
  <2>3. s \in Stages
    BY DEF Stages, Ended
  <2>4. Moves(e, Mine(e), s, proposal[e], o, FALSE)
    BY <1>0, <1>1, <2>1, <2>3 DEF Own, Moves, Leave, MoveTo
  <2> QED BY <1>r, <2>2, <2>4, StepWith
<1>2. CASE LateCall(e)
  <2>0. /\ orphan[e] # None /\ stage[e] \in {"failed closed", "stopped"}
        /\ e \in started => Mine(e).status = "consumed"
    <3>1. orphan[e] # None
      BY <1>2, ApprovalConstants DEF LateCall
    <3> QED BY <1>i, <3>1 DEF ExecutionOK
  <2>1. ASSUME NEW r, row' = [row EXCEPT ![RequestOf[e]] = r], Evolves(Mine(e), r),
               TokenFor(e, Mine(e), r)
        PROVE  ApprovalInv'
    <3>1. ExecutionOK(e, r, stage[e], proposal[e], None, kept[e], e \in started')
      <4>1. None # "decide"
        BY ApprovalConstants
      <4> QED BY <1>2, <1>i, <2>0, <2>1, <4>1 DEF ExecutionOK, LateCall, Evolves, Allows, Ended
    <3>2. Moves(e, r, stage[e], proposal[e], None, kept[e])
      BY <1>0, <1>2, <2>1 DEF Own, Moves, LateCall
    <3> QED BY <2>1, <3>1, <3>2, StepWith
  <2>2. CASE Put(e, Pended(e))
    <3>1. Evolves(Mine(e), Pended(e)) /\ TokenFor(e, Mine(e), Pended(e))
      BY <1>0, PendedEvolves DEF Own, TokenFor
    <3> QED BY <2>1, <2>2, <3>1 DEF Put
  <2>3. CASE /\ orphan[e] = "decide" /\ Decidable(RequestOf[e])
             /\ Put(e, Decided(RequestOf[e], proposal[e]))
    <3> DEFINE r == Decided(RequestOf[e], proposal[e])
    <3>1. proposal[e] \in Decision
      BY <1>i, <2>3 DEF ExecutionOK
    <3>2. Evolves(Mine(e), r) /\ TokenFor(e, Mine(e), r)
      BY <1>0, <2>3, <3>1, DecidedEvolves DEF Own, Mine, TokenFor
    <3>3. row' = [row EXCEPT ![RequestOf[e]] = r]
      BY <2>3 DEF Put
    <3> HIDE DEF r
    <3> QED BY <2>1, <3>2, <3>3
  <2>4. CASE Put(e, Reserved(e))
    <3>1. Evolves(Mine(e), Reserved(e)) /\ TokenFor(e, Mine(e), Reserved(e))
      BY <1>0, <1>r, ReservedEvolves DEF Own, TokenFor
    <3> QED BY <2>1, <2>4, <3>1 DEF Put
  <2>5. CASE Put(e, Committed(e))
    <3>1. Evolves(Mine(e), Committed(e)) /\ TokenFor(e, Mine(e), Committed(e))
      BY <1>0, <1>r, CommittedEvolves DEF Own, TokenFor
    <3> QED BY <2>1, <2>5, <3>1 DEF Put
  <2>6. CASE Put(e, Released(e))
    <3>1. Evolves(Mine(e), Released(e)) /\ TokenFor(e, Mine(e), Released(e))
      BY <1>0, <1>r, ReleasedEvolves DEF Own, TokenFor
    <3> QED BY <2>1, <2>6, <3>1 DEF Put
  <2> QED BY <1>2, <2>2, <2>3, <2>4, <2>5, <2>6 DEF LateCall
<1>3. CASE DropCall(e)
  <2>1. None # "decide"
    BY ApprovalConstants
  <2>2. ExecutionOK(e, Mine(e), stage[e], proposal[e], None, kept[e], e \in started')
    BY <1>3, <1>i, <2>1 DEF ExecutionOK, DropCall
  <2>3. Moves(e, Mine(e), stage[e], proposal[e], None, kept[e])
    BY <1>0, <1>3 DEF Own, Moves, DropCall
  <2> QED BY <1>r, <2>2, <2>3, StepWith
<1>4. CASE PruneReservation(e)
  <2>1. ExecutionOK(e, Mine(e), stage[e], proposal[e], orphan[e], FALSE, e \in started')
    BY <1>0, <1>4, <1>i DEF ExecutionOK, PruneReservation, Own, Holds, LiveReservation, Mine
  <2>2. Moves(e, Mine(e), stage[e], proposal[e], orphan[e], FALSE)
    BY <1>0, <1>4 DEF Own, Moves, PruneReservation
  <2> QED BY <1>r, <2>1, <2>2, StepWith
<1> QED BY <1>1, <1>2, <1>3, <1>4 DEF TimeOut, Abandon

\* A review and the passing of time keep the invariant.
LEMMA TimeKeepsInv ==
    ASSUME ApprovalInv, NEW q \in Requests, Review(q) \/ Age(q) \/ LeaseLapses(q)
    PROVE  ApprovalInv'
<1>0. row \in [Requests -> Row] /\ RowOK(row[q]) /\ row[q] \in Row
  BY DEF ApprovalInv, ApprovalTypeOK
<1>1. CASE Review(q)
  <2>1. PICK d \in Decision : row' = [row EXCEPT ![q] = Decided(q, d)]
    BY <1>1 DEF Review
  <2>2. /\ Evolves(row[q], Decided(q, d))
        /\ Decided(q, d).token = row[q].token /\ Decided(q, d).lapsed = row[q].lapsed
    BY <1>0, <1>1, DecidedEvolves DEF Review
  <2>3. UNCHANGED <<stage, proposal, orphan, kept, started>>
    BY <1>1 DEF Review
  <2> QED BY <2>1, <2>2, <2>3, StepOfNone
<1>2. CASE Age(q)
  <2>1. PICK a \in Ages : row' = [row EXCEPT ![q] = [row[q] EXCEPT !.age = a]]
    BY <1>2 DEF Age
  <2> DEFINE r == [row[q] EXCEPT !.age = a]
  <2>2. Evolves(row[q], r) /\ r.token = row[q].token /\ r.lapsed = row[q].lapsed
    BY <1>0 DEF Evolves, RowOK, Row
  <2>3. UNCHANGED <<stage, proposal, orphan, kept, started>> /\ row' = [row EXCEPT ![q] = r]
    BY <1>2, <2>1 DEF Age
  <2> HIDE DEF r
  <2> QED BY <2>2, <2>3, StepOfNone
<1>3. CASE LeaseLapses(q)
  <2> DEFINE r == [row[q] EXCEPT !.lapsed = TRUE]
  <2>1. Evolves(row[q], r) /\ r.token = row[q].token /\ r.lapsed
    BY <1>0 DEF Evolves, RowOK, Row
  <2>2. UNCHANGED <<stage, proposal, orphan, kept, started>> /\ row' = [row EXCEPT ![q] = r]
    BY <1>3 DEF LeaseLapses
  <2> HIDE DEF r
  <2> QED BY <2>1, <2>2, StepOfNone
<1> QED BY <1>1, <1>2, <1>3

-----------------------------------------------------------------------------
(* The theorems.                                                               *)

\* The inductive invariant holds in every reachable state, whatever the
\* numbers of requests and executions: a row keeps its content, decision and
\* consumer, and every execution agrees with the row of its request.
THEOREM ApprovalInvHolds == ApprovalSpec => []ApprovalInv
<1>1. ApprovalInit => ApprovalInv
  <2> SUFFICES ASSUME ApprovalInit PROVE ApprovalInv
    OBVIOUS
  <2>1. NoRow \in Row /\ RowOK(NoRow)
    BY DEF NoRow, Row, RowOK, Ages
  <2>2. ApprovalTypeOK
    BY <2>1 DEF ApprovalInit, ApprovalTypeOK, Stages, Waiting
  <2>3. \A q \in Requests : RowOK(row[q])
    BY <2>1 DEF ApprovalInit
  <2>4. ASSUME NEW e \in Executions
        PROVE  ExecutionOK(e, row[RequestOf[e]], stage[e], proposal[e], orphan[e], kept[e],
                           e \in started)
    <3>1. row[RequestOf[e]] = NoRow /\ NoRow.token = None /\ e # None /\ None # "decide"
      BY ApprovalConstants DEF ApprovalInit, NoRow
    <3> QED BY <3>1 DEF ApprovalInit, ExecutionOK
  <2> QED BY <2>2, <2>3, <2>4 DEF ApprovalInv
<1>2. ApprovalInv /\ [ApprovalNext]_approvalVars => ApprovalInv'
  <2> SUFFICES ASSUME ApprovalInv, [ApprovalNext]_approvalVars PROVE ApprovalInv'
    OBVIOUS
  <2>1. CASE ApprovalNext
    BY <2>1, ProcessKeepsInv, RuntimeKeepsInv, FaultKeepsInv, TimeKeepsInv DEF ApprovalNext
  <2>2. CASE UNCHANGED approvalVars
    BY <2>2 DEF approvalVars, ApprovalInv, ApprovalTypeOK
  <2> QED BY <2>1, <2>2
<1> QED BY <1>1, <1>2, PTL DEF ApprovalSpec

\* Every variable keeps its type.
THEOREM ApprovalsAreTyped == ApprovalSpec => []ApprovalTypeOK
<1>1. ApprovalInv => ApprovalTypeOK
  BY DEF ApprovalInv
<1> QED BY <1>1, ApprovalInvHolds, PTL

\* No approval is used twice: the row of a started execution is consumed by
\* that very execution.
THEOREM ApprovalIsUsedOnce == ApprovalSpec => []SingleUse
<1>1. ApprovalInv => SingleUse
  <2> SUFFICES ASSUME ApprovalInv, NEW e \in started, NEW f \in started,
                      RequestOf[e] = RequestOf[f]
               PROVE  e = f
    BY DEF SingleUse
  <2>1. e \in Executions /\ f \in Executions
    BY DEF ApprovalInv, ApprovalTypeOK
  <2>2. Mine(e).consumer = e /\ Mine(f).consumer = f
    BY <2>1, OwnState DEF ExecutionOK
  <2> QED BY <2>2 DEF Mine
<1> QED BY <1>1, ApprovalInvHolds, PTL

\* A tool only runs on an allow by a named approver, for its own content.
THEOREM RunsOnlyWhatWasApproved == ApprovalSpec => []RunsWhatWasApproved
<1>1. ApprovalInv => RunsWhatWasApproved
  <2> SUFFICES ASSUME ApprovalInv, NEW e \in started
               PROVE  /\ Mine(e).content = ContentOf[e]
                      /\ Mine(e).decision.outcome = "allow" /\ Mine(e).decision.approver
    BY DEF RunsWhatWasApproved
  <2>1. e \in Executions
    BY DEF ApprovalInv, ApprovalTypeOK
  <2> QED BY <2>1, OwnState DEF ExecutionOK, Allows
<1> QED BY <1>1, ApprovalInvHolds, PTL

\* What an execution leaves reserved when it ends is an unspent approval: a token
\* is only in a row that is decided, and a started body has consumed its row.
THEOREM LeftoverStaysUnspent == ApprovalSpec => []LeftoverIsUnspent
<1>1. ApprovalInv => LeftoverIsUnspent
  <2> SUFFICES ASSUME ApprovalInv, NEW e \in Executions, stage[e] \in Ended, Mine(e).token = e
               PROVE  /\ Mine(e).status = "decided" /\ ~kept[e]
                      /\ \A f \in started : RequestOf[f] # RequestOf[e]
    BY DEF LeftoverIsUnspent
  <2>1. Mine(e).status = "decided" /\ ~kept[e]
    BY OwnState DEF ExecutionOK, Own, RowOK, Ended
  <2>2. ASSUME NEW f \in started, RequestOf[f] = RequestOf[e] PROVE FALSE
    <3>1. f \in Executions
      BY DEF ApprovalInv, ApprovalTypeOK
    <3>2. Mine(f).status = "consumed"
      BY <3>1, OwnState DEF ExecutionOK
    <3> QED BY <2>1, <2>2, <3>2 DEF Mine
  <2> QED BY <2>1, <2>2
<1> QED BY <1>1, ApprovalInvHolds, PTL

\* A live reservation ends only through a step or a late call of its holder.
THEOREM OnlyTheHolderEndsALease == ApprovalSpec => LeaseIsExclusive
<1> DEFINE Exclusive(q) ==
        LiveReservation(q) /\ row'[q].token # row[q].token =>
            /\ row'[q].token = None
            /\ \/ stage'[row[q].token] # stage[row[q].token]
               \/ orphan'[row[q].token] # orphan[row[q].token]
<1>1. ASSUME ApprovalInv, [ApprovalNext]_approvalVars, NEW q \in Requests
      PROVE  Exclusive(q)
  <2> SUFFICES ASSUME LiveReservation(q), row'[q].token # row[q].token
               PROVE  /\ row'[q].token = None
                      /\ \/ stage'[row[q].token] # stage[row[q].token]
                         \/ orphan'[row[q].token] # orphan[row[q].token]
    OBVIOUS
  <2>t. row \in [Requests -> Row] /\ RowOK(row[q]) /\ row' # row
    BY <1>1 DEF ApprovalInv, ApprovalTypeOK
  <2>1. ASSUME NEW x \in Requests, Review(x) \/ Age(x) \/ LeaseLapses(x)
        PROVE  FALSE
    <3>1. row[x] \in Row /\ \A d : Decided(x, d).token = row[x].token
      BY <2>t DEF Decided, Row
    <3>2. PICK r : row' = [row EXCEPT ![x] = r] /\ r.token = row[x].token
      <4>1. CASE Review(x)
        BY <3>1, <4>1 DEF Review
      <4>2. CASE Age(x)
        <5>1. PICK a \in Ages : row' = [row EXCEPT ![x] = [row[x] EXCEPT !.age = a]]
          BY <4>2 DEF Age
        <5>2. [row[x] EXCEPT !.age = a].token = row[x].token
          BY <3>1 DEF Row
        <5> QED BY <5>1, <5>2
      <4>3. CASE LeaseLapses(x)
        <5>1. [row[x] EXCEPT !.lapsed = TRUE].token = row[x].token
          BY <3>1 DEF Row
        <5> QED BY <4>3, <5>1 DEF LeaseLapses
      <4> QED BY <2>1, <4>1, <4>2, <4>3
    <3> QED BY <2>t, <3>2
  <2>2. ASSUME NEW e \in Executions, NEW r, Put(e, r)
        PROVE  q = RequestOf[e] /\ row'[q] = r /\ r.token # Mine(e).token /\ Mine(e) = row[q]
    <3>1. RequestOf[e] \in Requests
      BY ApprovalConstants
    <3> QED BY <2>2, <2>t, <3>1 DEF Put, Mine
  <2>3. ASSUME NEW e \in Executions, Put(e, Pended(e)) \/ Put(e, Reserved(e))
        PROVE  FALSE
    <3>1. RowOK(Mine(e))
      BY <1>1, OwnState DEF Own
    <3>2. CASE Put(e, Pended(e))
      BY <2>2, <3>1, <3>2, PendedEvolves
    <3>3. CASE Put(e, Reserved(e))
      <4>1. q = RequestOf[e] /\ Reserved(e).token # Mine(e).token
        BY <2>2, <3>3
      <4>2. ~Reservable(e)
        BY <4>1 DEF Reservable
      <4> QED BY <3>1, <4>1, <4>2, ReservedEvolves
    <3> QED BY <2>3, <3>2, <3>3
  <2>4. ASSUME NEW e \in Executions, Decidable(RequestOf[e]),
               Put(e, Decided(RequestOf[e], proposal[e]))
        PROVE  FALSE
    <3>1. Mine(e) \in Row
      BY <1>1, OwnState DEF Own
    <3>2. Decided(RequestOf[e], proposal[e]).token = Mine(e).token
      BY <3>1 DEF Decided, Mine, Row
    <3> QED BY <2>2, <2>4, <3>2
  <2>5. ASSUME NEW e \in Executions, Put(e, Committed(e)) \/ Put(e, Released(e)),
               stage'[e] # stage[e] \/ orphan'[e] # orphan[e]
        PROVE  /\ row'[q].token = None
               /\ \/ stage'[row[q].token] # stage[row[q].token]
                  \/ orphan'[row[q].token] # orphan[row[q].token]
    <3>1. RowOK(Mine(e))
      BY <1>1, OwnState DEF Own
    <3>2. row[q].token = e /\ row'[q].token = None
      BY <2>2, <2>5, <3>1, CommittedEvolves, ReleasedEvolves, SMTT(30)
    <3> QED BY <2>5, <3>2
  <2>6. ASSUME NEW e \in Executions, NEW s \in {"committed", "release", "denied"},
               stage[e] \in {"commit", "release"}, stage[e] # s, MoveTo(e, s)
        PROVE  stage'[e] # stage[e]
    BY <1>1, <2>6 DEF MoveTo, ApprovalInv, ApprovalTypeOK
  <2>7. ASSUME NEW e \in Executions, LateCall(e)
        PROVE  orphan'[e] # orphan[e]
    BY <1>1, <2>7, ApprovalConstants DEF LateCall, ApprovalInv, ApprovalTypeOK
  <2>8. ASSUME NEW e \in Executions, Commit(e)
        PROVE  stage'[e] # stage[e] /\ (Put(e, Committed(e)) \/ row' = row)
    BY <2>6, <2>8 DEF Commit
  <2>9. ASSUME NEW e \in Executions, Release(e)
        PROVE  stage'[e] # stage[e] /\ Put(e, Released(e))
    BY <2>6, <2>9 DEF Release
  <2>10. PICK e \in Executions :
           \/ Pending(e) \/ RecordDecision(e) \/ Reserve(e) \/ Release(e) \/ Commit(e) \/ LateCall(e)
    BY <1>1, <2>1, <2>t
       DEF ApprovalNext, approvalVars, ProviderDecides, Withdraw, Boundary, Execute,
                      Finish, TimeOut, Abandon, Leave, DropCall, PruneReservation
  <2>11. CASE Pending(e) \/ Reserve(e)
    BY <2>3, <2>11 DEF Pending, Reserve
  <2>12. CASE RecordDecision(e)
    BY <2>4, <2>12, <2>t DEF RecordDecision
  <2>13. CASE Release(e)
    BY <2>5, <2>9, <2>13
  <2>14. CASE Commit(e)
    BY <2>5, <2>8, <2>14, <2>t
  <2>15. CASE LateCall(e)
    BY <2>3, <2>4, <2>5, <2>7, <2>15 DEF LateCall
  <2> QED BY <2>10, <2>11, <2>12, <2>13, <2>14, <2>15
<1>2. ApprovalInv /\ [ApprovalNext]_approvalVars => [\A q \in Requests : Exclusive(q)]_approvalVars
  BY <1>1
<1> QED BY <1>2, ApprovalInvHolds, PTL DEF ApprovalSpec, LeaseIsExclusive

\* What a step may do to the decisions and to the bodies that have begun: it
\* leaves them, records the first decision of a request, or starts one body.
Nothing == started' = started /\ \A q \in Requests : row'[q].decision = row[q].decision

Decides ==
    \E q \in Requests, d \in Decision :
        /\ started' = started
        /\ row[q].decision = NoDecision
        /\ row' = [row EXCEPT ![q] = Decided(q, d)] /\ Decided(q, d).decision = d

Begins ==
    \E e \in Executions : stage[e] = "committed" /\ started' = started \cup {e} /\ row' = row

\* Every step is one of the three.
LEMMA StepEffect ==
    ASSUME ApprovalInv, [ApprovalNext]_approvalVars
    PROVE  Nothing \/ Decides \/ Begins
<1>t. row \in [Requests -> Row]
  BY DEF ApprovalInv, ApprovalTypeOK
<1>1. ASSUME row' = row, started' = started PROVE Nothing
  BY <1>1 DEF Nothing
<1>2. ASSUME NEW q \in Requests, NEW r, row' = [row EXCEPT ![q] = r], started' = started,
             r.decision = row[q].decision
      PROVE  Nothing
  BY <1>t, <1>2 DEF Nothing
<1>3. ASSUME NEW q \in Requests, NEW d \in Decision, Decidable(q), started' = started,
             row' = [row EXCEPT ![q] = Decided(q, d)]
      PROVE  Decides
  <2>1. RowOK(row[q])
    BY DEF ApprovalInv
  <2>2. row[q].decision = NoDecision /\ Decided(q, d).decision = d
    BY <1>3, <2>1, DecidedEvolves
  <2> QED BY <1>3, <2>2 DEF Decides
<1>4. ASSUME NEW e \in Executions, started' = started,
             \/ Put(e, Pended(e)) \/ Put(e, Reserved(e)) \/ Put(e, Committed(e))
             \/ Put(e, Released(e))
      PROVE  Nothing
  <2>1. RequestOf[e] \in Requests /\ RowOK(Mine(e))
    BY OwnState DEF Own
  <2>2. PICK r : Put(e, r) /\ r.decision = Mine(e).decision
    BY <1>4, <2>1, PendedEvolves, ReservedEvolves, CommittedEvolves, ReleasedEvolves, SMTT(30)
  <2> QED BY <1>2, <1>4, <2>1, <2>2 DEF Put, Mine
<1>5. ASSUME NEW e \in Executions, started' = started, Decidable(RequestOf[e]),
             stage[e] = "decide" \/ orphan[e] = "decide",
             Put(e, Decided(RequestOf[e], proposal[e]))
      PROVE  Decides
  <2>1. RequestOf[e] \in Requests /\ proposal[e] \in Decision
    BY <1>5, OwnState DEF Own, ExecutionOK
  <2> QED BY <1>3, <1>5, <2>1 DEF Put
<1>6. ASSUME NEW q \in Requests, Review(q) \/ Age(q) \/ LeaseLapses(q)
      PROVE  Nothing \/ Decides
  <2>1. CASE Review(q)
    BY <1>3, <2>1 DEF Review
  <2>2. CASE Age(q)
    <3>1. PICK a \in Ages : row' = [row EXCEPT ![q] = [row[q] EXCEPT !.age = a]]
      BY <2>2 DEF Age
    <3>2. [row[q] EXCEPT !.age = a].decision = row[q].decision
      BY <1>t DEF Row
    <3> QED BY <1>2, <2>2, <3>1, <3>2 DEF Age
  <2>3. CASE LeaseLapses(q)
    <3>1. [row[q] EXCEPT !.lapsed = TRUE].decision = row[q].decision
      BY <1>t DEF Row
    <3> QED BY <1>2, <2>3, <3>1 DEF LeaseLapses
  <2> QED BY <1>6, <2>1, <2>2, <2>3
<1>7. ASSUME NEW e \in Executions, Execute(e) PROVE Nothing \/ Begins
  BY <1>1, <1>7 DEF Execute, Begins
<1>8. ASSUME NEW e \in Executions,
             \/ Pending(e) \/ RecordDecision(e) \/ Reserve(e) \/ Release(e) \/ Commit(e) \/ LateCall(e)
      PROVE  Nothing \/ Decides
  <2>1. CASE Pending(e) \/ Reserve(e) \/ Release(e) \/ Commit(e)
    BY <1>1, <1>4, <2>1 DEF Pending, Reserve, Release, Commit
  <2>2. CASE RecordDecision(e)
    BY <1>1, <1>5, <2>2 DEF RecordDecision
  <2>3. CASE LateCall(e)
    BY <1>4, <1>5, <2>3 DEF LateCall
  <2> QED BY <1>8, <2>1, <2>2, <2>3
<1>9. ASSUME NEW e \in Executions,
             \/ ProviderDecides(e) \/ Withdraw(e) \/ Boundary(e) \/ Finish(e) \/ TimeOut(e)
             \/ Abandon(e) \/ DropCall(e) \/ PruneReservation(e)
      PROVE  Nothing
  BY <1>1, <1>9 DEF ProviderDecides, Withdraw, Boundary, Finish, TimeOut, Abandon, Leave,
                    DropCall, PruneReservation
<1>10. CASE UNCHANGED approvalVars
  BY <1>1, <1>10 DEF approvalVars
<1>11. CASE ApprovalNext
  BY <1>6, <1>7, <1>8, <1>9, <1>11 DEF ApprovalNext
<1> QED BY <1>10, <1>11

\* The approvals of every request implement the single-use grant: one verdict,
\* and one execution on an allow.
THEOREM ApprovalsRefineSingleGrant == ApprovalSpec => RefinesSingleGrant
<1> DEFINE verdict == [q \in Requests |-> row[q].decision.outcome]
           ran == [q \in Requests |-> {e \in started : RequestOf[e] = q}]
<1>1. ApprovalInit => Grant!GrantInit
  BY SMTT(30) DEF ApprovalInit, NoRow, NoDecision, Grant!GrantInit
<1>2. ASSUME ApprovalInv, [ApprovalNext]_approvalVars
      PROVE  [Grant!GrantNext]_(Grant!grantVars)
  <2>t. row \in [Requests -> Row] /\ started \subseteq Executions
    BY <1>2 DEF ApprovalInv, ApprovalTypeOK
  <2>1. CASE Nothing
    BY <2>1 DEF Nothing, Grant!grantVars
  <2>2. ASSUME started' = started, NEW q \in Requests, NEW d \in Decision,
               row[q].decision = NoDecision, row' = [row EXCEPT ![q] = Decided(q, d)],
               Decided(q, d).decision = d
        PROVE  Grant!GrantNext
    <3>1. d.outcome \in {"allow", "deny"} /\ verdict[q] = None
      BY <2>2, SMTT(30) DEF Decision, NoDecision
    <3>2. verdict' = [verdict EXCEPT ![q] = d.outcome]
      BY <2>2, <2>t
    <3>3. ran' = ran
      BY <2>2
    <3>4. Grant!Judge(q, d.outcome)
      BY <3>1, <3>2, <3>3 DEF Grant!Judge
    <3> QED BY <3>1, <3>4 DEF Grant!GrantNext
  <2>3. ASSUME row' = row, NEW e \in Executions, stage[e] = "committed", started' = started \cup {e}
        PROVE  Grant!GrantNext
    <3> DEFINE q == RequestOf[e]
    <3>1. /\ q \in Requests /\ Mine(e).consumer = e /\ Mine(e).decision.outcome = "allow"
          /\ e \notin started
      BY <1>2, <2>3, OwnState DEF Own, ExecutionOK, Allows, Ended
    <3>2. ran[q] = {}
      <4>1. ASSUME NEW f \in started, RequestOf[f] = q PROVE FALSE
        <5>1. Mine(f).consumer = f
          BY <1>2, <2>t, OwnState DEF ExecutionOK
        <5> QED BY <3>1, <4>1, <5>1 DEF Mine
      <4> QED BY <3>1, <4>1
    <3>3. ran' = [ran EXCEPT ![q] = {e}]
      BY <2>3, <3>1, <3>2
    <3>4. verdict' = verdict /\ verdict[q] = "allow"
      BY <2>3, <3>1 DEF Mine
    <3>5. Grant!Exercise(q, e)
      BY <3>2, <3>3, <3>4 DEF Grant!Exercise
    <3> QED BY <3>1, <3>5 DEF Grant!GrantNext
  <2> QED BY <1>2, <2>1, <2>2, <2>3, StepEffect DEF Decides, Begins
<1> QED BY <1>1, <1>2, ApprovalInvHolds, PTL DEF ApprovalSpec, RefinesSingleGrant, Grant!GrantSpec

-----------------------------------------------------------------------------
(* The least-number principle, and the theorem that rests on it.            *)

INSTANCE WellFoundedInduction

\* Every nonempty set of naturals has a least element.
LEMMA NaturalsAreWellOrdered == NatWellOrdered
<1> DEFINE less == {ss \in Nat \X Nat : ss[1] < ss[2]}
<1>1. IsWellFoundedOn(less, Nat)
  BY NatLessThanWellFounded DEF OpToRel
<1> HIDE DEF less
<1> SUFFICES ASSUME NEW S \in SUBSET Nat, S # {} PROVE \E m \in S : \A i \in S : m <= i
  BY SMTT(30) DEF NatWellOrdered
<1>2. PICK m \in S : \A i \in S : ~(<<i, m>> \in less)
  BY <1>1, WFMin
<1>3. ASSUME NEW i \in S PROVE m <= i
  <2>1. m \in Nat /\ i \in Nat /\ ~(i < m)
    BY <1>2 DEF less
  <2> QED BY <2>1, SMTT(30)
<1> QED BY <1>3, SMTT(30)

\* A runtime that counts as sealed for production gives every tool what its
\* kind needs, for any set of tools, pipelines and profiles.
THEOREM SealedMeansProduction == SealingSpec => []SealedIsProduction
<1>1. SealingInv => SealedIsProduction
  <2> SUFFICES ASSUME SealingInv, profile # NoProfile, sealed, NEW t \in regs[registry].tools
               PROVE  /\ parts.identity = "trusted" /\ parts.verified
                      /\ \E i \in DOMAIN parts.pipeline :
                            LET m == parts.pipeline[i]
                            IN /\ m.is = "audit" /\ m.closed
                               /\ {"durable", "protected"} \subseteq m.able
                               /\ t.mode = "idempotent" => "idempotent" \in m.able
                      /\ t.mode # "read_only" => /\ t.contract \in {"fits", "conditional"}
                                                 /\ parts.store = "sqlite"
                      /\ t.mode = "idempotent" => parts.ledger = "sqlite" /\ t.provider
                      /\ t.approval => \E i \in DOMAIN parts.pipeline :
                            /\ parts.pipeline[i].is = "decision"
                            /\ {"durable", "protected"} \subseteq parts.pipeline[i].able
    BY DEF SealedIsProduction
  <2>1. Evaluate(regs[registry].tools, parts, profile) = {}
    BY DEF SealingInv
  <2>2. regs[registry].tools \in SUBSET Tools /\ parts \in Parts /\ profile \in Profiles
    BY DEF SealingInv, SealingTypeOK
  <2> QED BY <2>1, <2>2, ReadyMeansProduction, NaturalsAreWellOrdered, SMTT(30)
<1> QED BY <1>1, SealingInvHolds, PTL

=============================================================================
