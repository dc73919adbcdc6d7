------------------------------ MODULE Authority ------------------------------
(***************************************************************************)
(* The durable authority: the SQLite database that SQLiteIdempotencyStore  *)
(* (registry.py) and SQLiteReconciliationLedger (reconciliation.py) share  *)
(* in the co-located configuration.  Every operation of either class runs  *)
(* in one BEGIN IMMEDIATE transaction, so every operation is one action    *)
(* here, whichever process, thread or recovered worker calls it.           *)
(*                                                                         *)
(* Clocks are abstracted: a lease or an attempt deadline is "live" until a *)
(* lapse action says that some reader's clock is past it.  An owner token  *)
(* is generated for one execution record, never stored again once the row  *)
(* leaves 'pending', and known only to the caller that inserted the row,   *)
(* so "owner_token = ? AND state = 'pending'" is "state is pending" for    *)
(* the holder of the claim on that record.                                 *)
(***************************************************************************)
EXTENDS Naturals, FiniteSets

CONSTANTS
    Records,       \* execution_record_id values; uuid4, so never used twice
    Keys,          \* (namespace, key) pairs
    Fingerprints,  \* action digests
    Attempts,      \* reconciliation attempt_id values
    None           \* SQL NULL

ASSUME NoneAssumption == None \notin Keys \cup Fingerprints

VARIABLES
    issued,    \* execution record identifiers already generated
    rows,      \* idempotency_records
    prepared,  \* reconciliation_prepared_actions
    heads,     \* reconciliation_heads
    attempts,  \* ATTEMPT_STARTED / ATTEMPT_FINISHED rows of reconciliation_events
    outbox     \* reconciliation_audit_outbox: pairs <<record, revision>>

dbVars == <<issued, rows, prepared, heads, attempts, outbox>>

-----------------------------------------------------------------------------
\* ReconciliationState and the states of an idempotency row.
HeadStates ==
    {"UNKNOWN", "CONFIRMED_SUCCEEDED", "CONFIRMED_NOT_APPLIED", "MANUAL_REVIEW"}

Confirmed == {"CONFIRMED_SUCCEEDED", "CONFIRMED_NOT_APPLIED"}

RowStates ==
    {"pending", "completed", "unknown", "manual_review",
     "applied_no_result", "not_applied"}

Row ==
    [state : RowStates \cup {"absent"},
     key   : Keys \cup {None},
     fp    : Fingerprints \cup {None},
     gen   : Nat,
     lease : {"live", "lapsed", "none"}]

NoRow == [state |-> "absent", key |-> None, fp |-> None, gen |-> 0, lease |-> "none"]

Head ==
    [state : HeadStates, revision : Nat, result : BOOLEAN]

NoHead == [state |-> "none", revision |-> 0, result |-> FALSE]

\* What a ReconciliationFinding or a ManualResolution may conclude.
\* A resolved result comes only with CONFIRMED_SUCCEEDED.
Findings ==
    {f \in [state : Confirmed \cup {"MANUAL_REVIEW"}, result : BOOLEAN] :
       f.result => f.state = "CONFIRMED_SUCCEEDED"}

NoFinding == [state |-> "none", result |-> FALSE]

\* The events of one attempt: started is a start without a finish.
Attempt ==
    [status   : {"none", "started", "finished"},
     deadline : {"live", "lapsed"},
     finding  : Findings \cup {NoFinding}]

NoAttempt == [status |-> "none", deadline |-> "live", finding |-> NoFinding]

AuthorityInit ==
    /\ issued = {}
    /\ rows = [r \in Records |-> NoRow]
    /\ prepared = {}
    /\ heads = [r \in Records |-> NoHead]
    /\ attempts = [r \in Records |-> [a \in Attempts |-> NoAttempt]]
    /\ outbox = {}

-----------------------------------------------------------------------------
\* The idempotency store.

Present(r) == rows[r].state # "absent"

RowsOf(k) == {r \in Records : Present(r) /\ rows[r].key = k}

\* ORDER BY generation DESC LIMIT 1
Latest(k) == {r \in RowsOf(k) : \A s \in RowsOf(k) : rows[s].gen <= rows[r].gen}

\* Mutant: an unknown outcome may be retried like one that was not applied.
OpenAfterUnknown(k, f) ==
    IF RowsOf(k) = {}
    THEN {1}
    ELSE {rows[l].gen + 1 :
            l \in {x \in Latest(k) :
                    rows[x].fp = f /\ rows[x].state \in {"not_applied", "unknown"}}}

\* The generation an acquisition may open: the first one, or the successor
\* of an execution that reconciliation confirmed as not applied.
OpenGenerations(k, f) ==
    IF RowsOf(k) = {}
    THEN {1}
    ELSE {rows[l].gen + 1 :
            l \in {x \in Latest(k) : rows[x].fp = f /\ rows[x].state = "not_applied"}}

\* Mutant: a claim replaces the completed execution of its key.
ClaimReplaces(r, k, f) ==
    LET completed == {s \in Latest(k) : rows[s].state = "completed" /\ heads[s] = NoHead}
    IN  /\ r \notin issued
        /\ RowsOf(k) = completed
        /\ rows' = [s \in Records |->
                      CASE s = r -> [state |-> "pending", key |-> k, fp |-> f, gen |-> 1,
                                     lease |-> "live"]
                        [] s \in completed -> NoRow
                        [] OTHER -> rows[s]]
        /\ issued' = issued \cup {r}
        /\ prepared' = (prepared \ completed) \cup {r}
        /\ UNCHANGED <<heads, attempts, outbox>>

\* acquire_prepared that makes the caller the owner of the new record r.
Claim(r, k, f) ==
    /\ r \notin issued
    /\ \E g \in OpenGenerations(k, f) :
         rows' = [rows EXCEPT ![r] =
                    [state |-> "pending", key |-> k, fp |-> f, gen |-> g,
                     lease |-> "live"]]
    /\ issued' = issued \cup {r}
    /\ prepared' = prepared \cup {r}
    /\ UNCHANGED <<heads, attempts, outbox>>

\* INSERT OR IGNORE of the head prepared for r, with its outbox envelope.
MaterializeHead(r) ==
    IF r \in prepared /\ heads[r] = NoHead
    THEN /\ heads' = [heads EXCEPT ![r] =
                        [state |-> "UNKNOWN", revision |-> 0, result |-> FALSE]]
         /\ outbox' = outbox \cup {<<r, 0>>}
    ELSE UNCHANGED <<heads, outbox>>

SetRowState(r, s) ==
    rows' = [rows EXCEPT ![r].state = s, ![r].lease = "none"]

\* Mutant: the head is left to be created later.
ExpireWithoutHead(r, k, f) ==
    /\ r \in Latest(k)
    /\ rows[r].fp = f
    /\ rows[r].state = "pending"
    /\ rows[r].lease = "lapsed"
    /\ SetRowState(r, "unknown")
    /\ UNCHANGED <<issued, prepared, heads, attempts, outbox>>

\* acquire that finds the owner's lease expired.
ExpireLease(r, k, f) ==
    /\ r \in Latest(k)
    /\ rows[r].fp = f
    /\ rows[r].state = "pending"
    /\ rows[r].lease = "lapsed"
    /\ SetRowState(r, "unknown")
    /\ MaterializeHead(r)
    /\ UNCHANGED <<issued, prepared, attempts>>

Owned(r) == rows[r].state = "pending"

Complete(r) ==
    /\ Owned(r)
    /\ SetRowState(r, "completed")
    /\ UNCHANGED <<issued, prepared, heads, attempts, outbox>>

\* fail deletes the row, and the prepared action unless a head refers to it.
Fail(r) ==
    /\ Owned(r)
    /\ rows' = [rows EXCEPT ![r] = NoRow]
    /\ prepared' = IF heads[r] = NoHead THEN prepared \ {r} ELSE prepared
    /\ UNCHANGED <<issued, heads, attempts, outbox>>

\* renew extends the lease of a row that is still pending, even a lapsed one.
Renew(r) ==
    /\ Owned(r)
    /\ rows' = [rows EXCEPT ![r].lease = "live"]
    /\ UNCHANGED <<issued, prepared, heads, attempts, outbox>>

Prunable == {r \in Records : rows[r].state = "completed" /\ heads[r] = NoHead}

\* prune_completed with a cutoff that the rows of S are older than.
PruneCompleted(S) ==
    /\ S # {}
    /\ S \subseteq Prunable
    /\ rows' = [r \in Records |-> IF r \in S THEN NoRow ELSE rows[r]]
    /\ prepared' = prepared \ S
    /\ UNCHANGED <<issued, heads, attempts, outbox>>

\* A clock passes lease_expires_at.
LeaseLapses(r) ==
    /\ rows[r].state = "pending"
    /\ rows[r].lease = "live"
    /\ rows' = [rows EXCEPT ![r].lease = "lapsed"]
    /\ UNCHANGED <<issued, prepared, heads, attempts, outbox>>

-----------------------------------------------------------------------------
\* The reconciliation ledger.

\* record_unknown: the row, its head and the envelope in one transaction.
RecordUnknown(r) ==
    /\ Owned(r)
    /\ heads[r] = NoHead
    /\ SetRowState(r, "unknown")
    /\ heads' = [heads EXCEPT ![r] =
                   [state |-> "UNKNOWN", revision |-> 0, result |-> FALSE]]
    /\ outbox' = outbox \cup {<<r, 0>>}
    /\ UNCHANGED <<issued, prepared, attempts>>

Unmatched(r) == {a \in Attempts : attempts[r][a].status = "started"}

\* _append_attempt: the head advances by one revision, with its envelope.
AppendAttempt(r, a, rev, record) ==
    /\ heads[r].revision = rev
    /\ attempts' = [attempts EXCEPT ![r][a] = record]
    /\ heads' = [heads EXCEPT ![r].revision = rev + 1]
    /\ outbox' = outbox \cup {<<r, rev + 1>>}
    /\ UNCHANGED <<issued, rows, prepared>>

\* Mutant: an open attempt does not keep the next one from starting.
StartSecondAttempt(r, a, rev) ==
    /\ heads[r].state = "UNKNOWN"
    /\ attempts[r][a].status = "none"
    /\ AppendAttempt(r, a, rev, [NoAttempt EXCEPT !.status = "started"])

\* start_attempt: only for an UNKNOWN head without an open attempt.
StartAttempt(r, a, rev) ==
    /\ heads[r].state = "UNKNOWN"
    /\ attempts[r][a].status = "none"
    /\ Unmatched(r) = {}
    /\ AppendAttempt(r, a, rev, [NoAttempt EXCEPT !.status = "started"])

\* Only a successful outcome carries a finding; a finish needs its start.
FinishAttempt(r, a, rev, finding) ==
    /\ heads[r] # NoHead
    /\ attempts[r][a].status = "started"
    /\ AppendAttempt(r, a, rev,
         [attempts[r][a] EXCEPT !.status = "finished", !.finding = finding])

\* A clock passes the deadline persisted with a started attempt.
DeadlineLapses(r, a) ==
    /\ attempts[r][a].status = "started"
    /\ attempts[r][a].deadline = "live"
    /\ attempts' = [attempts EXCEPT ![r][a].deadline = "lapsed"]
    /\ UNCHANGED <<issued, rows, prepared, heads, outbox>>

\* _require_legal_transition
LegalTransition(old, new) ==
    \/ old = "UNKNOWN" /\ new \in Confirmed \cup {"MANUAL_REVIEW"}
    \/ old = "MANUAL_REVIEW" /\ new \in Confirmed

\* _disposition followed by _idempotency_disposition
IdempotencyDisposition(state, result) ==
    CASE state = "UNKNOWN" -> "unknown"
      [] state = "MANUAL_REVIEW" -> "manual_review"
      [] state = "CONFIRMED_NOT_APPLIED" -> "not_applied"
      [] state = "CONFIRMED_SUCCEEDED" ->
           IF result THEN "completed" ELSE "applied_no_result"

\* The transition record, the head, the idempotency row and the envelope.
AppendTransition(r, rev, finding) ==
    /\ LegalTransition(heads[r].state, finding.state)
    /\ rows[r].state \in {"unknown", "manual_review"}
    /\ SetRowState(r, IdempotencyDisposition(finding.state, finding.result))
    /\ heads' = [heads EXCEPT ![r] =
                   [state |-> finding.state, revision |-> rev + 1,
                    result |-> finding.result]]

\* compare_and_append_transition with a provider's finding.
ProviderTransition(r, a, rev, finding) ==
    /\ heads[r].state = "UNKNOWN"
    /\ heads[r].revision = rev
    /\ attempts[r][a].status = "finished"
    /\ attempts[r][a].finding = finding
    /\ finding # NoFinding
    /\ AppendTransition(r, rev, finding)
    /\ outbox' = outbox \cup {<<r, rev + 1>>}
    /\ UNCHANGED <<issued, prepared, attempts>>

\* compare_and_append_transition with an operator's resolution.
ManualTransition(r, rev, finding) ==
    /\ heads[r].state = "MANUAL_REVIEW"
    /\ heads[r].revision = rev
    /\ finding.state \in Confirmed
    /\ AppendTransition(r, rev, finding)
    /\ outbox' = outbox \cup {<<r, rev + 1>>}
    /\ UNCHANGED <<issued, prepared, attempts>>

\* Mutant: only the quarantine transition gets an envelope.
RecoverOneEnvelope(r) ==
    LET unmatched == Unmatched(r)
        last == heads[r].revision + Cardinality(unmatched)
    IN  /\ unmatched # {}
        /\ heads[r].state = "UNKNOWN"
        /\ \A a \in unmatched : attempts[r][a].deadline = "lapsed"
        /\ attempts' = [attempts EXCEPT ![r] =
             [a \in Attempts |->
                IF a \in unmatched
                THEN [attempts[r][a] EXCEPT !.status = "finished"]
                ELSE attempts[r][a]]]
        /\ AppendTransition(r, last, [state |-> "MANUAL_REVIEW", result |-> FALSE])
        /\ outbox' = outbox \cup {<<r, last + 1>>}
        /\ UNCHANGED <<issued, prepared>>

\* recover_unfinished_attempts once every unmatched deadline has passed:
\* one synthetic finish per attempt, then the quarantine transition.
RecoverUnfinished(r) ==
    LET unmatched == Unmatched(r)
        last == heads[r].revision + Cardinality(unmatched)
    IN  /\ unmatched # {}
        /\ heads[r].state = "UNKNOWN"
        /\ \A a \in unmatched : attempts[r][a].deadline = "lapsed"
        /\ attempts' = [attempts EXCEPT ![r] =
             [a \in Attempts |->
                IF a \in unmatched
                THEN [attempts[r][a] EXCEPT !.status = "finished"]
                ELSE attempts[r][a]]]
        /\ AppendTransition(r, last, [state |-> "MANUAL_REVIEW", result |-> FALSE])
        /\ outbox' = outbox \cup {<<r, n>> : n \in (heads[r].revision + 1)..(last + 1)}
        /\ UNCHANGED <<issued, prepared>>

-----------------------------------------------------------------------------
\* Every transaction, by any caller, in any order.

StoreNext ==
    \/ \E r \in Records, k \in Keys, f \in Fingerprints :
         Claim(r, k, f) \/ ExpireLease(r, k, f)
    \/ \E r \in Records :
         \/ Complete(r)
         \/ Fail(r)
         \/ Renew(r)
         \/ LeaseLapses(r)
    \/ \E S \in SUBSET Records : PruneCompleted(S)

LedgerNext ==
    \E r \in Records :
      \/ RecordUnknown(r)
      \/ RecoverUnfinished(r)
      \/ \E finding \in Findings : ManualTransition(r, heads[r].revision, finding)
      \/ \E a \in Attempts :
           \/ StartAttempt(r, a, heads[r].revision)
           \/ DeadlineLapses(r, a)
           \/ \E finding \in Findings \cup {NoFinding} :
                \/ FinishAttempt(r, a, heads[r].revision, finding)
                \/ ProviderTransition(r, a, heads[r].revision, finding)

AuthorityNext == StoreNext \/ LedgerNext

AuthoritySpec == AuthorityInit /\ [][AuthorityNext]_dbVars

-----------------------------------------------------------------------------
\* The tables hold rows of their schema.
AuthorityTypeOK ==
    /\ issued \subseteq Records
    /\ rows \in [Records -> Row]
    /\ prepared \subseteq Records
    /\ heads \in [Records -> Head \cup {NoHead}]
    /\ attempts \in [Records -> [Attempts -> Attempt]]
    /\ outbox \subseteq Records \X Nat

\* Only identifiers that were generated appear in any table.
IssuedCoversTables ==
    \A r \in Records \ issued :
      /\ rows[r] = NoRow
      /\ heads[r] = NoHead
      /\ r \notin prepared

\* The executions of one key form a chain: they agree on the fingerprint,
\* no two share a generation, and every execution but the newest has been
\* confirmed as not applied (_acquire opens a generation on that condition
\* only, and fail and prune_completed delete rows without breaking it).
GenerationChain ==
    \A r, s \in Records :
      Present(r) /\ Present(s) /\ r # s /\ rows[r].key = rows[s].key =>
        /\ rows[r].fp = rows[s].fp
        /\ rows[r].gen # rows[s].gen
        /\ rows[r].gen < rows[s].gen => rows[r].state = "not_applied"

\* The store and the ledger never disagree about an execution: a row has
\* the disposition of its head, and a row without a head is still owned or
\* was completed by its owner.  In particular no crash, lapse or lost race
\* leaves an 'unknown' row that reconciliation has no head for.
DispositionAgrees ==
    \A r \in Records :
      IF heads[r] = NoHead
      THEN rows[r].state \in {"absent", "pending", "completed"}
      ELSE rows[r].state = IdempotencyDisposition(heads[r].state, heads[r].result)

\* Every row still has the recovery descriptor that was committed with it
\* (acquire_prepared), and no descriptor outlives its row (fail, prune_completed).
PreparedCoversRows ==
    \A r \in Records : Present(r) <=> r \in prepared

\* Every committed revision of a head has its audit envelope, and there is
\* no envelope without its revision: the outbox is written in the same
\* transaction as the change it reports (enqueue_reconciliation_audit_outbox).
OutboxComplete ==
    /\ \A e \in outbox : heads[e[1]] # NoHead /\ e[2] <= heads[e[1]].revision
    /\ \A r \in Records :
         heads[r] # NoHead => \A n \in 0..heads[r].revision : <<r, n>> \in outbox

\* One provider probe at a time: an execution never has two attempts
\* without a terminal record.
OneOpenAttempt ==
    \A r \in Records, a, b \in Attempts :
      a \in Unmatched(r) /\ b \in Unmatched(r) => a = b

\* Attempts exist only for executions that reconciliation has a head for.
AttemptsNeedHead ==
    \A r \in Records, a \in Attempts :
      heads[r] = NoHead => attempts[r][a] = NoAttempt

\* A confirmed resolution is final: no later transaction changes the state
\* or the result of the head.
ResolutionIsFinal ==
    [][\A r \in Records :
         heads[r].state \in Confirmed =>
           heads'[r].state = heads[r].state /\ heads'[r].result = heads[r].result]_dbVars

\* A key is taken again only when every execution recorded for it has been
\* confirmed as not applied; an unknown, quarantined or applied execution
\* blocks it (README: "automatic reuse stays blocked").
ReuseNeedsConfirmation ==
    [][\A r, s \in Records :
         Present(r) /\ s \notin issued /\ s \in issued' /\ rows'[s].key = rows[r].key
           => rows[r].state = "not_applied"]_dbVars

\* The inductive invariant: everything above that a single state can show.
AuthorityInv ==
    /\ AuthorityTypeOK
    /\ IssuedCoversTables
    /\ GenerationChain
    /\ DispositionAgrees
    /\ PreparedCoversRows
    /\ OutboxComplete
    /\ OneOpenAttempt
    /\ AttemptsNeedHead
=============================================================================
