-------------------------- MODULE AuthorityProofs ---------------------------
(***************************************************************************)
(* The invariants of the durable authority hold for every number of        *)
(* records, keys, fingerprints and attempts, and for every order in which  *)
(* any number of processes run their transactions.                         *)
(***************************************************************************)
EXTENDS Authority, TLAPS

USE ZenonT(40)

\* The empty database satisfies the inductive invariant.
LEMMA InitEstablishesInv == AuthorityInit => AuthorityInv
BY NoneAssumption, SMTT(30)
   DEF AuthorityInit, AuthorityInv, AuthorityTypeOK, IssuedCoversTables,
       GenerationChain, DispositionAgrees, PreparedCoversRows, OutboxComplete,
       OneOpenAttempt, AttemptsNeedHead, Row, NoRow, Head, NoHead, Attempt,
       NoAttempt, NoFinding, Findings, Present, Unmatched, RowStates, HeadStates

\* What a fresh claim finds: every row of the key is confirmed as not
\* applied, has the caller's fingerprint and an older generation.
LEMMA OpenGenerationIsNewest ==
  ASSUME AuthorityInv, NEW k \in Keys, NEW f \in Fingerprints,
         NEW g \in OpenGenerations(k, f)
  PROVE  /\ g \in Nat
         /\ \A s \in RowsOf(k) :
              /\ rows[s].state = "not_applied"
              /\ rows[s].fp = f
              /\ rows[s].gen < g
<1>1. CASE RowsOf(k) = {}
  BY <1>1, SMTT(30) DEF OpenGenerations
<1>2. CASE RowsOf(k) # {}
  <2>1. PICK l \in Latest(k) :
          g = rows[l].gen + 1 /\ rows[l].fp = f /\ rows[l].state = "not_applied"
    BY <1>2 DEF OpenGenerations
  <2>2. l \in RowsOf(k) /\ l \in Records /\ rows[l] \in Row
    BY <2>1 DEF Latest, RowsOf, AuthorityInv, AuthorityTypeOK
  <2>3. rows[l].gen \in Nat /\ rows[l].key = k /\ Present(l)
    BY <2>2 DEF Row, RowsOf
  <2>4. ASSUME NEW s \in RowsOf(k)
        PROVE  rows[s].state = "not_applied" /\ rows[s].fp = f /\ rows[s].gen < g
    <3>1. s \in Records /\ Present(s) /\ rows[s].key = k /\ rows[s] \in Row
      BY DEF RowsOf, AuthorityInv, AuthorityTypeOK
    <3>2. rows[s].gen \in Nat /\ rows[s].gen <= rows[l].gen
      BY <3>1, <2>1 DEF Row, Latest
    <3>3. s # l => rows[s].fp = rows[l].fp /\ rows[s].gen # rows[l].gen
                   /\ (rows[s].gen < rows[l].gen => rows[s].state = "not_applied")
      BY <3>1, <2>2, <2>3, SMTT(30) DEF AuthorityInv, GenerationChain
    <3>4. QED
      BY <3>2, <3>3, <2>1, <2>3, SMTT(30)
  <2>5. QED
    BY <2>1, <2>3, <2>4, SMTT(30)
<1>3. QED
  BY <1>1, <1>2

\* acquire_prepared opens a generation above every row of its key.
LEMMA ClaimPreservesInv ==
  ASSUME AuthorityInv, NEW r \in Records, NEW k \in Keys, NEW f \in Fingerprints,
         Claim(r, k, f)
  PROVE  AuthorityInv'
<1> USE DEF AuthorityInv
<1>1. PICK g \in OpenGenerations(k, f) :
        rows' = [rows EXCEPT ![r] =
                  [state |-> "pending", key |-> k, fp |-> f, gen |-> g, lease |-> "live"]]
  BY DEF Claim
<1>2. /\ g \in Nat
      /\ \A s \in RowsOf(k) :
           rows[s].state = "not_applied" /\ rows[s].fp = f /\ rows[s].gen < g
  BY OpenGenerationIsNewest
<1>3. /\ r \notin issued /\ issued' = issued \cup {r}
      /\ prepared' = prepared \cup {r}
      /\ heads' = heads /\ attempts' = attempts /\ outbox' = outbox
  BY DEF Claim
<1>4. rows[r] = NoRow /\ heads[r] = NoHead
  BY <1>3 DEF IssuedCoversTables
<1>5. /\ rows'[r] = [state |-> "pending", key |-> k, fp |-> f, gen |-> g, lease |-> "live"]
      /\ \A s \in Records : s # r => rows'[s] = rows[s]
  BY <1>1 DEF AuthorityTypeOK
<1>6. AuthorityTypeOK'
  BY <1>1, <1>2, <1>3 DEF AuthorityTypeOK, Row, RowStates
<1>7. IssuedCoversTables'
  BY <1>3, <1>5 DEF IssuedCoversTables
<1>8. GenerationChain'
  <2> SUFFICES ASSUME NEW s \in Records, NEW t \in Records, s # t,
                      Present(s)', Present(t)', rows'[s].key = rows'[t].key
               PROVE  /\ rows'[s].fp = rows'[t].fp
                      /\ rows'[s].gen # rows'[t].gen
                      /\ rows'[s].gen < rows'[t].gen => rows'[s].state = "not_applied"
    BY DEF GenerationChain
  <2>1. CASE s = r
    <3>1. t \in RowsOf(k)
      BY <2>1, <1>5, SMTT(30) DEF RowsOf, Present
    <3>2. rows[t].gen \in Nat
      BY DEF AuthorityTypeOK, Row
    <3>3. QED
      BY <2>1, <3>1, <3>2, <1>2, <1>5, SMTT(30)
  <2>2. CASE t = r
    <3>1. s \in RowsOf(k)
      BY <2>2, <1>5, SMTT(30) DEF RowsOf, Present
    <3>2. rows[s].gen \in Nat
      BY DEF AuthorityTypeOK, Row
    <3>3. QED
      BY <2>2, <3>1, <3>2, <1>2, <1>5, SMTT(30)
  <2>3. CASE s # r /\ t # r
    BY <2>3, <1>5, SMTT(30) DEF GenerationChain, Present
  <2>4. QED
    BY <2>1, <2>2, <2>3
<1>9. DispositionAgrees'
  BY <1>3, <1>4, <1>5, SMTT(30) DEF DispositionAgrees
<1>10. PreparedCoversRows'
  BY <1>3, <1>5, SMTT(30) DEF PreparedCoversRows, Present
<1>11. OutboxComplete' /\ OneOpenAttempt' /\ AttemptsNeedHead'
  BY <1>3 DEF OutboxComplete, OneOpenAttempt, AttemptsNeedHead, Unmatched
<1>12. QED
  BY <1>6, <1>7, <1>8, <1>9, <1>10, <1>11

\* What the records look like after the updates the operations make.
LEMMA RowUpdate ==
  ASSUME NEW x \in Row, NEW s \in RowStates, NEW l \in {"live", "lapsed"}
  PROVE  /\ [x EXCEPT !.state = s, !.lease = "none"] \in Row
         /\ [x EXCEPT !.lease = l] \in Row
BY DEF Row

\* A head that advances is a head.
LEMMA HeadUpdate ==
  ASSUME NEW x \in Head, NEW n \in Nat
  PROVE  [x EXCEPT !.revision = n] \in Head
BY DEF Head

\* The updates of attempt events are attempts.
LEMMA AttemptUpdate ==
  ASSUME NEW x \in Attempt, NEW g \in Findings \cup {NoFinding}
  PROVE  /\ [x EXCEPT !.status = "finished", !.finding = g] \in Attempt
         /\ [x EXCEPT !.status = "finished"] \in Attempt
         /\ [x EXCEPT !.deadline = "lapsed"] \in Attempt
         /\ [NoAttempt EXCEPT !.status = "started"] \in Attempt
BY DEF Attempt, NoAttempt

\* The disposition of every head, case by case.
LEMMA DispositionCases ==
  ASSUME NEW s, NEW result
  PROVE  LET d == IdempotencyDisposition(s, result)
         IN  /\ s = "UNKNOWN" => d = "unknown"
             /\ s = "MANUAL_REVIEW" => d = "manual_review"
             /\ s = "CONFIRMED_NOT_APPLIED" => d = "not_applied"
             /\ s = "CONFIRMED_SUCCEEDED" /\ result = TRUE => d = "completed"
             /\ s = "CONFIRMED_SUCCEEDED" /\ result = FALSE => d = "applied_no_result"
BY DEF IdempotencyDisposition

\* A row that its owner still holds has no head.
LEMMA PendingHasNoHead ==
  ASSUME AuthorityInv, NEW r \in Records, rows[r].state = "pending"
  PROVE  heads[r] = NoHead
<1>1. SUFFICES ASSUME heads[r] # NoHead PROVE FALSE
  OBVIOUS
<1>2. heads[r] \in Head
  BY <1>1 DEF AuthorityInv, AuthorityTypeOK
<1>3. "pending" = IdempotencyDisposition(heads[r].state, heads[r].result)
  BY <1>1 DEF AuthorityInv, DispositionAgrees
<1>4. QED
  BY <1>2, <1>3, DispositionCases DEF Head, HeadStates

\* An execution that is not confirmed as not applied is the newest of its
\* key, so giving its row another state keeps the chain.
LEMMA RewritePreservesChain ==
  ASSUME AuthorityInv, NEW r \in Records, Present(r), rows[r].state # "not_applied",
         rows'[r].key = rows[r].key, rows'[r].fp = rows[r].fp, rows'[r].gen = rows[r].gen,
         \A t \in Records : t # r => rows'[t] = rows[t]
  PROVE  GenerationChain'
<1> SUFFICES ASSUME NEW s \in Records, NEW t \in Records,
                    Present(s)', Present(t)', s # t, rows'[s].key = rows'[t].key
             PROVE  /\ rows'[s].fp = rows'[t].fp
                    /\ rows'[s].gen # rows'[t].gen
                    /\ rows'[s].gen < rows'[t].gen => rows'[s].state = "not_applied"
  BY DEF GenerationChain
<1>1. Present(s) /\ Present(t) /\ rows[s].key = rows[t].key
  BY DEF Present
<1>2. /\ rows[s].fp = rows[t].fp
      /\ rows[s].gen # rows[t].gen
      /\ rows[s].gen < rows[t].gen => rows[s].state = "not_applied"
  BY <1>1 DEF AuthorityInv, GenerationChain
<1>3. QED
  BY <1>2

\* Deleting rows keeps the chain.
LEMMA DeletePreservesChain ==
  ASSUME AuthorityInv, NEW S \in SUBSET Records,
         rows' = [r \in Records |-> IF r \in S THEN NoRow ELSE rows[r]]
  PROVE  GenerationChain'
BY DEF AuthorityInv, AuthorityTypeOK, GenerationChain, Present, NoRow

\* complete
LEMMA CompletePreservesInv ==
  ASSUME AuthorityInv, NEW r \in Records, Complete(r)
  PROVE  AuthorityInv'
<1> USE DEF AuthorityInv
<1>1. /\ rows[r].state = "pending"
      /\ rows' = [rows EXCEPT ![r].state = "completed", ![r].lease = "none"]
      /\ UNCHANGED <<issued, prepared, heads, attempts, outbox>>
  BY DEF Complete, Owned, SetRowState
<1>2. /\ rows'[r].state = "completed" /\ rows'[r].key = rows[r].key
      /\ rows'[r].fp = rows[r].fp /\ rows'[r].gen = rows[r].gen
      /\ \A t \in Records : t # r => rows'[t] = rows[t]
  BY <1>1 DEF AuthorityTypeOK, Row
<1>3. AuthorityTypeOK'
  BY <1>1, RowUpdate DEF AuthorityTypeOK, RowStates
<1>4. r \in issued
  BY <1>1, SMTT(30) DEF IssuedCoversTables, NoRow
<1>5. GenerationChain'
  BY <1>1, <1>2, RewritePreservesChain DEF Present
<1>6. heads[r] = NoHead
  BY <1>1, PendingHasNoHead
<1>7. IssuedCoversTables' /\ DispositionAgrees' /\ PreparedCoversRows'
  BY <1>1, <1>2, <1>4, <1>6
     DEF IssuedCoversTables, DispositionAgrees, PreparedCoversRows, Present
<1>8. OutboxComplete' /\ OneOpenAttempt' /\ AttemptsNeedHead'
  BY <1>1 DEF OutboxComplete, OneOpenAttempt, AttemptsNeedHead, Unmatched
<1>9. QED
  BY <1>3, <1>5, <1>7, <1>8

\* fail
LEMMA FailPreservesInv ==
  ASSUME AuthorityInv, NEW r \in Records, Fail(r)
  PROVE  AuthorityInv'
<1> USE DEF AuthorityInv
<1>1. heads[r] = NoHead
  BY PendingHasNoHead DEF Fail, Owned
<1>2. /\ rows' = [rows EXCEPT ![r] = NoRow]
      /\ prepared' = prepared \ {r}
      /\ UNCHANGED <<issued, heads, attempts, outbox>>
  BY <1>1 DEF Fail
<1>3. AuthorityTypeOK'
  BY <1>2 DEF AuthorityTypeOK, Row, NoRow
<1>4. GenerationChain'
  <2>1. rows' = [t \in Records |-> IF t \in {r} THEN NoRow ELSE rows[t]]
    BY <1>2 DEF AuthorityTypeOK
  <2>2. QED
    BY <2>1, DeletePreservesChain
<1>5. IssuedCoversTables' /\ DispositionAgrees' /\ PreparedCoversRows'
  BY <1>1, <1>2
     DEF IssuedCoversTables, DispositionAgrees, PreparedCoversRows, Present, NoRow, AuthorityTypeOK
<1>6. OutboxComplete' /\ OneOpenAttempt' /\ AttemptsNeedHead'
  BY <1>2 DEF OutboxComplete, OneOpenAttempt, AttemptsNeedHead, Unmatched
<1>7. QED
  BY <1>3, <1>4, <1>5, <1>6

\* renew and the passing of time rewrite only the lease.
LEMMA LeasePreservesInv ==
  ASSUME AuthorityInv, NEW r \in Records, Renew(r) \/ LeaseLapses(r)
  PROVE  AuthorityInv'
<1> USE DEF AuthorityInv
<1>1. PICK l \in {"live", "lapsed"} :
        /\ rows[r].state = "pending"
        /\ rows' = [rows EXCEPT ![r].lease = l]
        /\ UNCHANGED <<issued, prepared, heads, attempts, outbox>>
  BY DEF Renew, LeaseLapses, Owned
<1>2. /\ \A t \in Records : rows'[t].state = rows[t].state /\ rows'[t].key = rows[t].key
                            /\ rows'[t].fp = rows[t].fp /\ rows'[t].gen = rows[t].gen
      /\ \A t \in Records : t # r => rows'[t] = rows[t]
  BY <1>1 DEF AuthorityTypeOK, Row
<1>3. AuthorityTypeOK'
  BY <1>1, RowUpdate DEF AuthorityTypeOK, RowStates
<1>4. GenerationChain' /\ DispositionAgrees' /\ PreparedCoversRows'
  BY <1>1, <1>2, SMTT(30) DEF GenerationChain, DispositionAgrees, PreparedCoversRows, Present
<1>5. IssuedCoversTables'
  BY <1>1, <1>2, SMTT(30) DEF IssuedCoversTables, NoRow
<1>6. OutboxComplete' /\ OneOpenAttempt' /\ AttemptsNeedHead'
  BY <1>1 DEF OutboxComplete, OneOpenAttempt, AttemptsNeedHead, Unmatched
<1>7. QED
  BY <1>3, <1>4, <1>5, <1>6

\* prune_completed
LEMMA PrunePreservesInv ==
  ASSUME AuthorityInv, NEW S \in SUBSET Records, PruneCompleted(S)
  PROVE  AuthorityInv'
<1> USE DEF AuthorityInv
<1>1. /\ \A r \in S : rows[r].state = "completed" /\ heads[r] = NoHead
      /\ rows' = [r \in Records |-> IF r \in S THEN NoRow ELSE rows[r]]
      /\ prepared' = prepared \ S
      /\ UNCHANGED <<issued, heads, attempts, outbox>>
  BY DEF PruneCompleted, Prunable
<1>2. AuthorityTypeOK'
  BY <1>1 DEF AuthorityTypeOK, Row, NoRow
<1>3. GenerationChain'
  BY <1>1, DeletePreservesChain
<1>4. IssuedCoversTables' /\ DispositionAgrees' /\ PreparedCoversRows'
  BY <1>1 DEF IssuedCoversTables, DispositionAgrees, PreparedCoversRows, Present, NoRow
<1>5. OutboxComplete' /\ OneOpenAttempt' /\ AttemptsNeedHead'
  BY <1>1 DEF OutboxComplete, OneOpenAttempt, AttemptsNeedHead, Unmatched
<1>6. QED
  BY <1>2, <1>3, <1>4, <1>5

\* The row, its new head and the first envelope appear together.
LEMMA BecomesUnknownPreservesInv ==
  ASSUME AuthorityInv, NEW r \in Records, rows[r].state = "pending",
         SetRowState(r, "unknown"),
         heads' = [heads EXCEPT ![r] =
                     [state |-> "UNKNOWN", revision |-> 0, result |-> FALSE]],
         outbox' = outbox \cup {<<r, 0>>},
         UNCHANGED <<issued, prepared, attempts>>
  PROVE  AuthorityInv'
<1> USE DEF AuthorityInv
<1>1. heads[r] = NoHead
  BY PendingHasNoHead
<1>2. /\ rows'[r].state = "unknown" /\ rows'[r].key = rows[r].key
      /\ rows'[r].fp = rows[r].fp /\ rows'[r].gen = rows[r].gen
      /\ \A t \in Records : t # r => rows'[t] = rows[t]
  BY DEF AuthorityTypeOK, Row, SetRowState
<1>3. /\ heads'[r] = [state |-> "UNKNOWN", revision |-> 0, result |-> FALSE]
      /\ heads'[r].state = "UNKNOWN" /\ heads'[r] # NoHead
      /\ \A t \in Records : t # r => heads'[t] = heads[t]
  BY DEF AuthorityTypeOK, NoHead
<1>4. AuthorityTypeOK'
  <2>1. rows' \in [Records -> Row]
    BY RowUpdate DEF AuthorityTypeOK, RowStates, SetRowState
  <2>2. heads' \in [Records -> Head \cup {NoHead}]
    BY DEF AuthorityTypeOK, Head, HeadStates
  <2>3. QED
    BY <2>1, <2>2, SMTT(30) DEF AuthorityTypeOK
<1>5. GenerationChain'
  BY <1>2, RewritePreservesChain DEF Present
<1>6. r \in issued
  BY SMTT(30) DEF IssuedCoversTables, NoRow
<1>7. IssuedCoversTables' /\ PreparedCoversRows'
  BY <1>2, <1>3, <1>6, SMTT(30) DEF IssuedCoversTables, PreparedCoversRows, Present
<1>8. DispositionAgrees'
  <2>1. ASSUME NEW t \in Records
        PROVE  IF heads'[t] = NoHead
               THEN rows'[t].state \in {"absent", "pending", "completed"}
               ELSE rows'[t].state =
                      IdempotencyDisposition(heads'[t].state, heads'[t].result)
    <3>1. CASE t = r
      <4>1. IdempotencyDisposition(heads'[r].state, heads'[r].result) = "unknown"
        BY <1>3, DispositionCases
      <4>2. QED
        BY <3>1, <4>1, <1>2, <1>3
    <3>2. CASE t # r
      BY <3>2, <1>2, <1>3 DEF DispositionAgrees
    <3>3. QED
      BY <3>1, <3>2
  <2>2. QED
    BY <2>1 DEF DispositionAgrees
<1>9. OutboxComplete'
  BY <1>1, <1>3, SMTT(30) DEF OutboxComplete, AuthorityTypeOK
<1>10. OneOpenAttempt' /\ AttemptsNeedHead'
  BY <1>3 DEF OneOpenAttempt, AttemptsNeedHead, Unmatched
<1>11. QED
  BY <1>4, <1>5, <1>7, <1>8, <1>9, <1>10

\* _acquire that finds a lapsed lease.
LEMMA ExpireLeasePreservesInv ==
  ASSUME AuthorityInv, NEW r \in Records, NEW k \in Keys, NEW f \in Fingerprints,
         ExpireLease(r, k, f)
  PROVE  AuthorityInv'
<1>1. rows[r].state = "pending"
  BY DEF ExpireLease
<1>2. r \in prepared /\ heads[r] = NoHead
  BY <1>1, PendingHasNoHead DEF AuthorityInv, PreparedCoversRows, Present
<1>3. QED
  BY <1>1, <1>2, BecomesUnknownPreservesInv DEF ExpireLease, MaterializeHead

\* record_unknown
LEMMA RecordUnknownPreservesInv ==
  ASSUME AuthorityInv, NEW r \in Records, RecordUnknown(r)
  PROVE  AuthorityInv'
BY BecomesUnknownPreservesInv DEF RecordUnknown, Owned

\* A head that advances to revision n with all the envelopes up to n keeps
\* the outbox complete.
LEMMA AdvancePreservesOutbox ==
  ASSUME AuthorityInv, NEW r \in Records, NEW n \in Nat,
         heads[r] # NoHead, heads'[r] # NoHead, heads'[r].revision = n,
         heads[r].revision <= n,
         \A t \in Records : t # r => heads'[t] = heads[t],
         outbox' = outbox \cup {<<r, m>> : m \in (heads[r].revision + 1)..n}
  PROVE  OutboxComplete' /\ outbox' \subseteq Records \X Nat
<1>1. heads[r].revision \in Nat
  BY DEF AuthorityInv, AuthorityTypeOK, Head
<1>2. outbox' \subseteq Records \X Nat
  BY <1>1, SMTT(30) DEF AuthorityInv, AuthorityTypeOK
<1>3. ASSUME NEW e \in outbox'
      PROVE  heads'[e[1]] # NoHead /\ e[2] <= heads'[e[1]].revision
  <2>1. CASE e \in outbox
    <3>1. heads[e[1]] # NoHead /\ e[2] <= heads[e[1]].revision /\ e[1] \in Records /\ e[2] \in Nat
      BY <2>1 DEF AuthorityInv, OutboxComplete, AuthorityTypeOK
    <3>2. QED
      BY <3>1, <1>1, SMTT(30)
  <2>2. CASE e \notin outbox
    BY <2>2, <1>1, SMTT(30)
  <2>3. QED
    BY <2>1, <2>2
<1>4. ASSUME NEW t \in Records, heads'[t] # NoHead, NEW m \in 0..heads'[t].revision
      PROVE  <<t, m>> \in outbox'
  <2>1. CASE t # r
    BY <2>1, <1>4 DEF AuthorityInv, OutboxComplete
  <2>2. CASE t = r /\ m <= heads[r].revision
    BY <2>2, <1>1, SMTT(30) DEF AuthorityInv, OutboxComplete
  <2>3. CASE t = r /\ m > heads[r].revision
    BY <2>3, <1>1, SMTT(30)
  <2>4. QED
    BY <1>1, <2>1, <2>2, <2>3, SMTT(30)
<1>5. QED
  BY <1>2, <1>3, <1>4 DEF OutboxComplete

\* Recording an attempt event changes the attempt, the revision and the
\* outbox; at most one attempt stays open if the caller ensures it.
LEMMA AppendAttemptPreservesInv ==
  ASSUME AuthorityInv, NEW r \in Records, NEW a \in Attempts, NEW rev,
         NEW record \in Attempt, heads[r] # NoHead, AppendAttempt(r, a, rev, record),
         record.status = "started" => Unmatched(r) = {}
  PROVE  AuthorityInv'
<1> USE DEF AuthorityInv
<1>1. rev = heads[r].revision /\ rev \in Nat /\ heads[r] \in Head
  BY DEF AppendAttempt, AuthorityTypeOK, Head
<1>2. /\ attempts'[r][a] = record
      /\ \A b \in Attempts : b # a => attempts'[r][b] = attempts[r][b]
      /\ \A t \in Records : t # r => attempts'[t] = attempts[t]
      /\ attempts' \in [Records -> [Attempts -> Attempt]]
  BY DEF AppendAttempt, AuthorityTypeOK
<1>3. /\ heads'[r] \in Head /\ heads'[r].revision = rev + 1
      /\ heads'[r].state = heads[r].state /\ heads'[r].result = heads[r].result
      /\ \A t \in Records : t # r => heads'[t] = heads[t]
      /\ heads' \in [Records -> Head \cup {NoHead}]
  <2> DEFINE h == [heads[r] EXCEPT !.revision = rev + 1]
  <2>1. heads' = [heads EXCEPT ![r] = h]
    BY DEF AppendAttempt
  <2>2. h \in Head
    <3>1. heads[r] \in Head /\ rev + 1 \in Nat
      BY <1>1, SMTT(30)
    <3>2. QED
      BY <3>1, HeadUpdate
  <2>3. h.revision = rev + 1 /\ h.state = heads[r].state /\ h.result = heads[r].result
    BY <1>1 DEF Head
  <2> HIDE DEF h
  <2>4. QED
    BY <2>1, <2>2, <2>3 DEF AuthorityTypeOK
<1>4. heads'[r] # NoHead
  BY <1>3, SMTT(30) DEF Head, HeadStates, NoHead
<1>5. outbox' = outbox \cup {<<r, m>> : m \in (heads[r].revision + 1)..(rev + 1)}
  BY <1>1, SMTT(30) DEF AppendAttempt
<1>6. OutboxComplete' /\ outbox' \subseteq Records \X Nat
  BY <1>1, <1>3, <1>4, <1>5, AdvancePreservesOutbox, SMTT(30)
<1>7. AuthorityTypeOK'
  BY <1>2, <1>3, <1>6 DEF AuthorityTypeOK, AppendAttempt
<1>8. GenerationChain' /\ PreparedCoversRows'
  BY DEF AppendAttempt, GenerationChain, PreparedCoversRows, Present
<1>9. r \in issued
  BY DEF IssuedCoversTables
<1>10. IssuedCoversTables'
  BY <1>3, <1>9 DEF IssuedCoversTables, AppendAttempt
<1>11. DispositionAgrees'
  <2>1. \A t \in Records : (heads'[t] = NoHead) = (heads[t] = NoHead)
                           /\ heads'[t].state = heads[t].state
                           /\ heads'[t].result = heads[t].result
                           /\ rows'[t] = rows[t]
    BY <1>3, <1>4 DEF AppendAttempt
  <2>2. QED
    BY <2>1 DEF DispositionAgrees
<1>12. OneOpenAttempt'
  BY <1>2, SMTT(30) DEF OneOpenAttempt, Unmatched
<1>13. AttemptsNeedHead'
  BY <1>2, <1>3, <1>4, SMTT(30) DEF AttemptsNeedHead
<1>14. QED
  BY <1>6, <1>7, <1>8, <1>10, <1>11, <1>12, <1>13

\* start_attempt
LEMMA StartAttemptPreservesInv ==
  ASSUME AuthorityInv, NEW r \in Records, NEW a \in Attempts, NEW rev,
         StartAttempt(r, a, rev)
  PROVE  AuthorityInv'
<1>1. heads[r] # NoHead
  BY SMTT(30) DEF StartAttempt, NoHead
<1>2. [NoAttempt EXCEPT !.status = "started"] \in Attempt
  BY DEF Attempt, NoAttempt
<1>3. QED
  BY <1>1, <1>2, AppendAttemptPreservesInv DEF StartAttempt

\* finish_attempt
LEMMA FinishAttemptPreservesInv ==
  ASSUME AuthorityInv, NEW r \in Records, NEW a \in Attempts, NEW rev,
         NEW finding \in Findings \cup {NoFinding}, FinishAttempt(r, a, rev, finding)
  PROVE  AuthorityInv'
<1> DEFINE record == [attempts[r][a] EXCEPT !.status = "finished", !.finding = finding]
<1>1. attempts[r][a] \in Attempt
  BY DEF AuthorityInv, AuthorityTypeOK
<1>2. record \in Attempt
  BY <1>1, AttemptUpdate
<1>3. record.status # "started"
  BY <1>1 DEF Attempt
<1>4. heads[r] # NoHead /\ AppendAttempt(r, a, rev, record)
  BY DEF FinishAttempt
<1> HIDE DEF record
<1>5. QED
  BY <1>2, <1>3, <1>4, AppendAttemptPreservesInv

\* A lapsing deadline changes no event.
LEMMA DeadlinePreservesInv ==
  ASSUME AuthorityInv, NEW r \in Records, NEW a \in Attempts, DeadlineLapses(r, a)
  PROVE  AuthorityInv'
<1> USE DEF AuthorityInv
<1>1. /\ attempts' = [attempts EXCEPT ![r] =
           [attempts[r] EXCEPT ![a] = [attempts[r][a] EXCEPT !.deadline = "lapsed"]]]
      /\ UNCHANGED <<issued, rows, prepared, heads, outbox>>
  BY DEF DeadlineLapses
<1>2. attempts[r][a] \in Attempt /\ attempts[r] \in [Attempts -> Attempt]
  BY DEF AuthorityTypeOK
<1>3. [attempts[r][a] EXCEPT !.deadline = "lapsed"] \in Attempt
  BY <1>2, AttemptUpdate
<1>4. attempts' \in [Records -> [Attempts -> Attempt]]
  BY <1>1, <1>2, <1>3 DEF AuthorityTypeOK
<1>5. /\ \A t \in Records : t # r => attempts'[t] = attempts[t]
      /\ \A b \in Attempts : attempts'[r][b].status = attempts[r][b].status
  BY <1>1, <1>2 DEF AuthorityTypeOK, Attempt
<1>6. OneOpenAttempt'
  BY <1>5, SMTT(30) DEF OneOpenAttempt, Unmatched
<1>7. heads[r] # NoHead
  BY SMTT(30) DEF AttemptsNeedHead, DeadlineLapses, NoAttempt
<1>8. AttemptsNeedHead'
  BY <1>1, <1>5, <1>7, SMTT(30) DEF AttemptsNeedHead
<1>9. AuthorityTypeOK' /\ IssuedCoversTables' /\ GenerationChain' /\ PreparedCoversRows'
      /\ OutboxComplete'
  BY <1>1, <1>4, SMTT(30) DEF AuthorityTypeOK, IssuedCoversTables, GenerationChain,
                    PreparedCoversRows, OutboxComplete, Present
<1>10. DispositionAgrees'
  BY <1>1 DEF DispositionAgrees
<1>11. QED
  BY <1>6, <1>8, <1>9, <1>10

\* The fields of a finding.
LEMMA FindingFields ==
  ASSUME NEW finding \in Findings
  PROVE  /\ finding.state \in {"CONFIRMED_SUCCEEDED", "CONFIRMED_NOT_APPLIED", "MANUAL_REVIEW"}
         /\ finding.result \in BOOLEAN
BY DEF Findings, Confirmed

\* A transition gives the row the disposition of the new head.
LEMMA TransitionPreservesInv ==
  ASSUME AuthorityInv, NEW r \in Records, NEW last \in Nat, NEW finding \in Findings,
         heads[r] # NoHead, heads[r].revision <= last, AppendTransition(r, last, finding),
         outbox' = outbox \cup {<<r, m>> : m \in (heads[r].revision + 1)..(last + 1)},
         UNCHANGED <<issued, prepared>>,
         attempts' \in [Records -> [Attempts -> Attempt]],
         \A t \in Records : t # r => attempts'[t] = attempts[t],
         \A a \in Attempts :
           attempts'[r][a].status = "started" => attempts[r][a].status = "started"
  PROVE  AuthorityInv'
<1> USE DEF AuthorityInv
<1> DEFINE d == IdempotencyDisposition(finding.state, finding.result)
<1> DEFINE h == [state |-> finding.state, revision |-> last + 1, result |-> finding.result]
<1>1. /\ rows[r].state \in {"unknown", "manual_review"}
      /\ SetRowState(r, d)
      /\ heads' = [heads EXCEPT ![r] = h]
  BY DEF AppendTransition
<1>2. d \in RowStates
  BY FindingFields, DispositionCases DEF RowStates
<1>3. h \in Head /\ h # NoHead /\ h.revision = last + 1
  BY FindingFields, SMTT(30) DEF Head, HeadStates, NoHead
<1>4. d = IdempotencyDisposition(h.state, h.result)
  OBVIOUS
<1> HIDE DEF d, h
<1>5. /\ rows'[r].state = d /\ rows'[r].key = rows[r].key
      /\ rows'[r].fp = rows[r].fp /\ rows'[r].gen = rows[r].gen
      /\ \A t \in Records : t # r => rows'[t] = rows[t]
  BY <1>1, SMTT(30) DEF AuthorityTypeOK, Row, SetRowState
<1>6. /\ heads'[r] = h
      /\ \A t \in Records : t # r => heads'[t] = heads[t]
      /\ heads' \in [Records -> Head \cup {NoHead}]
  BY <1>1, <1>3 DEF AuthorityTypeOK
<1>7. rows' \in [Records -> Row]
  BY <1>1, <1>2, RowUpdate DEF AuthorityTypeOK, SetRowState
<1>8. OutboxComplete' /\ outbox' \subseteq Records \X Nat
  <2>1. heads[r].revision \in Nat
    BY DEF AuthorityTypeOK, Head
  <2>2. last + 1 \in Nat /\ heads[r].revision <= last + 1
    BY <2>1, SMTT(30)
  <2>3. QED
    BY <1>3, <1>6, <2>2, AdvancePreservesOutbox
<1>9. AuthorityTypeOK'
  BY <1>6, <1>7, <1>8 DEF AuthorityTypeOK
<1>10. GenerationChain'
  BY <1>1, <1>5, RewritePreservesChain DEF Present
<1>11. r \in issued
  BY DEF IssuedCoversTables
<1>12. IssuedCoversTables'
  BY <1>5, <1>6, <1>11 DEF IssuedCoversTables
<1>13. PreparedCoversRows'
  BY <1>1, <1>2, <1>5 DEF PreparedCoversRows, Present, RowStates
<1>14. DispositionAgrees'
  <2>1. ASSUME NEW t \in Records
        PROVE  IF heads'[t] = NoHead
               THEN rows'[t].state \in {"absent", "pending", "completed"}
               ELSE rows'[t].state =
                      IdempotencyDisposition(heads'[t].state, heads'[t].result)
    <3>1. CASE t = r
      BY <3>1, <1>3, <1>4, <1>5, <1>6
    <3>2. CASE t # r
      BY <3>2, <1>5, <1>6 DEF DispositionAgrees
    <3>3. QED
      BY <3>1, <3>2
  <2>2. QED
    BY <2>1 DEF DispositionAgrees
<1>15. OneOpenAttempt'
  BY SMTT(30) DEF OneOpenAttempt, Unmatched
<1>16. AttemptsNeedHead'
  BY <1>3, <1>6, SMTT(30) DEF AttemptsNeedHead
<1>17. QED
  BY <1>8, <1>9, <1>10, <1>12, <1>13, <1>14, <1>15, <1>16

\* compare_and_append_transition with a provider's finding.
LEMMA ProviderTransitionPreservesInv ==
  ASSUME AuthorityInv, NEW r \in Records, NEW a \in Attempts, NEW rev,
         NEW finding \in Findings \cup {NoFinding}, ProviderTransition(r, a, rev, finding)
  PROVE  AuthorityInv'
<1>1. heads[r] # NoHead
  BY SMTT(30) DEF ProviderTransition, NoHead
<1>2. rev = heads[r].revision /\ rev \in Nat
  BY <1>1 DEF ProviderTransition, AuthorityInv, AuthorityTypeOK, Head
<1>3. /\ finding \in Findings
      /\ AppendTransition(r, rev, finding)
      /\ outbox' = outbox \cup {<<r, m>> : m \in (heads[r].revision + 1)..(rev + 1)}
      /\ UNCHANGED <<issued, prepared>> /\ attempts' = attempts
  BY <1>2, SMTT(30) DEF ProviderTransition
<1>4. attempts' \in [Records -> [Attempts -> Attempt]]
  BY <1>3 DEF AuthorityInv, AuthorityTypeOK
<1>5. QED
  BY <1>1, <1>2, <1>3, <1>4, TransitionPreservesInv, SMTT(30)

\* compare_and_append_transition with an operator's resolution.
LEMMA ManualTransitionPreservesInv ==
  ASSUME AuthorityInv, NEW r \in Records, NEW rev, NEW finding \in Findings,
         ManualTransition(r, rev, finding)
  PROVE  AuthorityInv'
<1>1. heads[r] # NoHead
  BY SMTT(30) DEF ManualTransition, NoHead
<1>2. rev = heads[r].revision /\ rev \in Nat
  BY <1>1 DEF ManualTransition, AuthorityInv, AuthorityTypeOK, Head
<1>3. /\ AppendTransition(r, rev, finding)
      /\ outbox' = outbox \cup {<<r, m>> : m \in (heads[r].revision + 1)..(rev + 1)}
      /\ UNCHANGED <<issued, prepared>> /\ attempts' = attempts
  BY <1>2, SMTT(30) DEF ManualTransition
<1>4. attempts' \in [Records -> [Attempts -> Attempt]]
  BY <1>3 DEF AuthorityInv, AuthorityTypeOK
<1>5. QED
  BY <1>1, <1>2, <1>3, <1>4, TransitionPreservesInv, SMTT(30)

\* A set of one element counts one, from the definition of Cardinality.
LEMMA SingletonHasOne ==
  ASSUME NEW a
  PROVE  Cardinality({a}) = 1
<1> DEFINE CS == CHOOSE CS : CS = [T \in SUBSET {a} |->
                                   IF T = {} THEN 0 ELSE 1 + CS[T \ {CHOOSE x : x \in T}]]
           F == [T \in SUBSET {a} |-> IF T = {} THEN 0 ELSE 1]
<1>0. \A T \in SUBSET {a} : T = {} \/ T = {a}
  OBVIOUS
<1>1. \A T \in SUBSET {a} : T # {} => T \ {CHOOSE x : x \in T} = {}
  OBVIOUS
<1>2. F = [T \in SUBSET {a} |-> IF T = {} THEN 0 ELSE 1 + F[T \ {CHOOSE x : x \in T}]]
  BY <1>0, <1>1, SMTT(30)
<1>3. CS = [T \in SUBSET {a} |-> IF T = {} THEN 0 ELSE 1 + CS[T \ {CHOOSE x : x \in T}]]
  BY <1>2
<1>4. CS[{}] = 0 /\ CS[{a}] = 1 + CS[{a} \ {CHOOSE x : x \in {a}}]
  <2> HIDE DEF CS
  <2> QED BY <1>3
<1>5. CS[{a}] = 1
  <2> HIDE DEF CS
  <2> QED BY <1>1, <1>4, SMTT(30)
<1>6. Cardinality({a}) = CS[{a}]
  BY DEF Cardinality
<1> QED BY <1>5, <1>6

\* Recovery finishes the only open attempt and quarantines the execution.
LEMMA RecoverPreservesInv ==
  ASSUME AuthorityInv, NEW r \in Records, RecoverUnfinished(r)
  PROVE  AuthorityInv'
<1> DEFINE q == [state |-> "MANUAL_REVIEW", result |-> FALSE]
<1>1. heads[r] # NoHead /\ heads[r].revision \in Nat
  BY SMTT(30) DEF RecoverUnfinished, AuthorityInv, AuthorityTypeOK, Head, NoHead
<1>2. PICK a \in Attempts : Unmatched(r) = {a}
  BY SMTT(30) DEF RecoverUnfinished, AuthorityInv, OneOpenAttempt, Unmatched
<1>3. Cardinality(Unmatched(r)) = 1
  BY <1>2, SingletonHasOne
<1> DEFINE last == heads[r].revision + 1
<1>4. /\ AppendTransition(r, last, q)
      /\ outbox' = outbox \cup {<<r, m>> : m \in (heads[r].revision + 1)..(last + 1)}
      /\ UNCHANGED <<issued, prepared>>
  BY <1>3 DEF RecoverUnfinished
<1>5. last \in Nat /\ heads[r].revision <= last /\ q \in Findings
  BY <1>1, SMTT(30) DEF Findings
<1> DEFINE row == [b \in Attempts |-> IF b \in Unmatched(r)
                                      THEN [attempts[r][b] EXCEPT !.status = "finished"]
                                      ELSE attempts[r][b]]
<1>6. attempts' = [attempts EXCEPT ![r] = row]
  BY DEF RecoverUnfinished
<1>7. row \in [Attempts -> Attempt]
  <2>1. ASSUME NEW b \in Attempts
        PROVE  /\ attempts[r][b] \in Attempt
               /\ [attempts[r][b] EXCEPT !.status = "finished"] \in Attempt
    <3>1. attempts[r][b] \in Attempt
      BY DEF AuthorityInv, AuthorityTypeOK
    <3>2. QED
      BY <3>1, AttemptUpdate
  <2>2. QED
    BY <2>1
<1>8. \A b \in Attempts : row[b].status # "started"
  BY SMTT(30) DEF AuthorityInv, AuthorityTypeOK, Attempt, Unmatched
<1> HIDE DEF row, last, q
<1>9. attempts' \in [Records -> [Attempts -> Attempt]] /\ attempts'[r] = row
      /\ \A t \in Records : t # r => attempts'[t] = attempts[t]
  BY <1>6, <1>7 DEF AuthorityInv, AuthorityTypeOK
<1>10. QED
  BY <1>1, <1>4, <1>5, <1>8, <1>9, TransitionPreservesInv

-----------------------------------------------------------------------------
\* Every transaction preserves the inductive invariant.
LEMMA StepPreservesInv ==
  ASSUME AuthorityInv, [AuthorityNext]_dbVars
  PROVE  AuthorityInv'
<1>1. ASSUME NEW r \in Records, NEW k \in Keys, NEW f \in Fingerprints,
             Claim(r, k, f) \/ ExpireLease(r, k, f)
      PROVE  AuthorityInv'
  BY <1>1, ClaimPreservesInv, ExpireLeasePreservesInv
<1>2. ASSUME NEW r \in Records, Complete(r) \/ Fail(r) \/ Renew(r) \/ LeaseLapses(r)
      PROVE  AuthorityInv'
  BY <1>2, CompletePreservesInv, FailPreservesInv, LeasePreservesInv
<1>3. ASSUME NEW S \in SUBSET Records, PruneCompleted(S)
      PROVE  AuthorityInv'
  BY <1>3, PrunePreservesInv
<1>4. ASSUME NEW r \in Records, RecordUnknown(r) \/ RecoverUnfinished(r)
      PROVE  AuthorityInv'
  BY <1>4, RecordUnknownPreservesInv, RecoverPreservesInv
<1>5. ASSUME NEW r \in Records, NEW finding \in Findings,
             ManualTransition(r, heads[r].revision, finding)
      PROVE  AuthorityInv'
  BY <1>5, ManualTransitionPreservesInv
<1>6. ASSUME NEW r \in Records, NEW a \in Attempts,
             StartAttempt(r, a, heads[r].revision) \/ DeadlineLapses(r, a)
      PROVE  AuthorityInv'
  BY <1>6, StartAttemptPreservesInv, DeadlinePreservesInv
<1>7. ASSUME NEW r \in Records, NEW a \in Attempts, NEW finding \in Findings \cup {NoFinding},
             \/ FinishAttempt(r, a, heads[r].revision, finding)
             \/ ProviderTransition(r, a, heads[r].revision, finding)
      PROVE  AuthorityInv'
  BY <1>7, FinishAttemptPreservesInv, ProviderTransitionPreservesInv
<1>8. CASE UNCHANGED dbVars
  BY <1>8, SMTT(30) DEF dbVars, AuthorityInv, AuthorityTypeOK, IssuedCoversTables, GenerationChain,
              DispositionAgrees, PreparedCoversRows, OutboxComplete, OneOpenAttempt,
              AttemptsNeedHead, Present, Unmatched
<1>9. CASE StoreNext
  BY <1>9, <1>1, <1>2, <1>3 DEF StoreNext
<1>10. CASE LedgerNext
  BY <1>10, <1>4, <1>5, <1>6, <1>7 DEF LedgerNext
<1>11. QED
  BY <1>8, <1>9, <1>10 DEF AuthorityNext

\* The tables keep their types, executions of one key stay a chain, the
\* store agrees with the ledger, the outbox stays complete and at most one
\* attempt is open, in every history of transactions of registry.py and
\* reconciliation.py.
THEOREM AuthoritySafe == AuthoritySpec => []AuthorityInv
<1>1. AuthorityInit => AuthorityInv
  BY InitEstablishesInv
<1>2. AuthorityInv /\ [AuthorityNext]_dbVars => AuthorityInv'
  BY StepPreservesInv
<1>3. QED
  BY <1>1, <1>2, PTL DEF AuthoritySpec

\* The tables always hold rows of their schema.
THEOREM AuthorityTypeCorrect == AuthoritySpec => []AuthorityTypeOK
<1>1. AuthorityInv => AuthorityTypeOK
  BY DEF AuthorityInv
<1>2. QED
  BY <1>1, AuthoritySafe, PTL

\* At most the newest execution of a key may have been applied.
THEOREM GenerationsFormChain == AuthoritySpec => []GenerationChain
<1>1. AuthorityInv => GenerationChain
  BY DEF AuthorityInv
<1>2. QED
  BY <1>1, AuthoritySafe, PTL

\* The idempotency row and the reconciliation head of an execution agree.
THEOREM StoreAgreesWithLedger == AuthoritySpec => []DispositionAgrees
<1>1. AuthorityInv => DispositionAgrees
  BY DEF AuthorityInv
<1>2. QED
  BY <1>1, AuthoritySafe, PTL

\* Every committed revision has its audit envelope, and only those do.
THEOREM OutboxIsComplete == AuthoritySpec => []OutboxComplete
<1>1. AuthorityInv => OutboxComplete
  BY DEF AuthorityInv
<1>2. QED
  BY <1>1, AuthoritySafe, PTL

\* Every row keeps the recovery descriptor that acquire_prepared committed
\* with it, through fail and prune_completed, and none is left behind by them.
THEOREM DescriptorsAreKept == AuthoritySpec => []PreparedCoversRows
<1>1. AuthorityInv => PreparedCoversRows
  BY DEF AuthorityInv
<1>2. QED
  BY <1>1, AuthoritySafe, PTL

\* At most one reconciliation attempt of an execution is open, whatever the
\* workers that start, finish and recover attempts.
THEOREM AttemptsAreSequential == AuthoritySpec => []OneOpenAttempt
<1>1. AuthorityInv => OneOpenAttempt
  BY DEF AuthorityInv
<1>2. QED
  BY <1>1, AuthoritySafe, PTL

-----------------------------------------------------------------------------
\* No transaction changes the state or the result of a confirmed head: every
\* operation that writes a head needs it absent, UNKNOWN or MANUAL_REVIEW,
\* except the end of an attempt, which writes only its revision.
LEMMA StepKeepsConfirmed ==
  ASSUME AuthorityInv, [AuthorityNext]_dbVars, NEW r \in Records,
         heads[r].state \in Confirmed
  PROVE  heads'[r].state = heads[r].state /\ heads'[r].result = heads[r].result
<1> DEFINE Kept == heads'[r].state = heads[r].state /\ heads'[r].result = heads[r].result
<1>1. heads[r] # NoHead
  BY SMTT(30) DEF NoHead, Confirmed
<1>2. ASSUME NEW t \in Records, t # r, NEW h, heads' = [heads EXCEPT ![t] = h]
      PROVE  Kept
  BY <1>2 DEF AuthorityInv, AuthorityTypeOK
<1>3. ASSUME NEW t \in Records, MaterializeHead(t)
      PROVE  Kept
  BY <1>1, <1>3, <1>2 DEF MaterializeHead
<1>4. CASE StoreNext
  <2>1. CASE heads' = heads
    BY <2>1
  <2>2. CASE \E t \in Records, k \in Keys, f \in Fingerprints : ExpireLease(t, k, f)
    BY <2>2, <1>3 DEF ExpireLease
  <2>3. QED
    BY <1>4, <2>1, <2>2
       DEF StoreNext, Claim, Complete, Fail, Renew, LeaseLapses, PruneCompleted
<1>5. ASSUME NEW t \in Records, RecordUnknown(t)
      PROVE  Kept
  BY <1>1, <1>2, <1>5 DEF RecordUnknown
<1>6. ASSUME NEW t \in Records, NEW rev, NEW finding, AppendTransition(t, rev, finding)
      PROVE  Kept
  <2>1. t # r
    BY <1>6 DEF AppendTransition, LegalTransition, Confirmed
  <2>2. QED
    BY <1>2, <1>6, <2>1 DEF AppendTransition
<1>7. ASSUME NEW t \in Records, NEW a, NEW rev, NEW record, AppendAttempt(t, a, rev, record)
      PROVE  Kept
  <2>1. CASE t # r
    <3>1. heads' = [heads EXCEPT ![t] = [heads[t] EXCEPT !.revision = rev + 1]]
      BY <1>7 DEF AppendAttempt
    <3>2. QED
      BY <1>2, <2>1, <3>1
  <2>2. CASE t = r
    <3> DEFINE h == [heads[r] EXCEPT !.revision = rev + 1]
    <3>1. heads' = [heads EXCEPT ![r] = h]
      BY <1>7, <2>2 DEF AppendAttempt
    <3>2. h.state = heads[r].state /\ h.result = heads[r].result
      BY <1>1 DEF AuthorityInv, AuthorityTypeOK, Head
    <3> HIDE DEF h
    <3>3. heads'[r] = h
      BY <3>1 DEF AuthorityInv, AuthorityTypeOK
    <3>4. QED
      BY <3>2, <3>3
  <2>3. QED
    BY <2>1, <2>2
<1>8. CASE LedgerNext
  <2>1. CASE \E t \in Records, a \in Attempts : DeadlineLapses(t, a)
    BY <2>1 DEF DeadlineLapses
  <2>2. QED
    BY <1>5, <1>6, <1>7, <1>8, <2>1
       DEF LedgerNext, RecoverUnfinished, ManualTransition, ProviderTransition,
           StartAttempt, FinishAttempt
<1>9. QED
  BY <1>4, <1>8 DEF AuthorityNext, dbVars

\* A confirmed resolution is final, whatever runs after it.
THEOREM ResolutionNeverChanges == AuthoritySpec => ResolutionIsFinal
<1>1. AuthorityInv /\ [AuthorityNext]_dbVars =>
        [\A r \in Records :
           heads[r].state \in Confirmed =>
             heads'[r].state = heads[r].state /\ heads'[r].result = heads[r].result]_dbVars
  BY StepKeepsConfirmed
<1>2. QED
  BY <1>1, AuthoritySafe, PTL DEF AuthoritySpec, ResolutionIsFinal

\* Only a claim issues an identifier, and it finds every row of its key
\* confirmed as not applied.
LEMMA StepReusesConfirmedKey ==
  ASSUME AuthorityInv, [AuthorityNext]_dbVars, NEW r \in Records, NEW s \in Records,
         Present(r), s \notin issued, s \in issued', rows'[s].key = rows[r].key
  PROVE  rows[r].state = "not_applied"
<1>1. PICK t \in Records, k \in Keys, f \in Fingerprints : Claim(t, k, f)
  <2>1. issued' # issued
    OBVIOUS
  <2>2. ~ LedgerNext
    <3>1. \A t, a, rev, record : AppendAttempt(t, a, rev, record) => issued' = issued
      BY DEF AppendAttempt
    <3>2. QED
      BY <2>1, <3>1
         DEF LedgerNext, RecordUnknown, RecoverUnfinished, ManualTransition,
             ProviderTransition, StartAttempt, FinishAttempt, DeadlineLapses
  <2>3. StoreNext
    BY <2>1, <2>2 DEF AuthorityNext, dbVars
  <2>4. QED
    BY <2>1, <2>3
       DEF StoreNext, ExpireLease, Complete, Fail, Renew, LeaseLapses, PruneCompleted
<1>2. t = s
  BY <1>1 DEF Claim
<1>3. PICK g \in OpenGenerations(k, f) :
        rows' = [rows EXCEPT ![s] =
                  [state |-> "pending", key |-> k, fp |-> f, gen |-> g, lease |-> "live"]]
  BY <1>1, <1>2 DEF Claim
<1>4. rows'[s].key = k
  BY <1>3 DEF AuthorityInv, AuthorityTypeOK
<1>5. r \in RowsOf(k)
  BY <1>4 DEF RowsOf
<1>6. QED
  BY <1>5, OpenGenerationIsNewest

\* A key is taken again only after every execution recorded for it was
\* confirmed as not applied.
THEOREM ReuseIsConfirmed == AuthoritySpec => ReuseNeedsConfirmation
<1>1. AuthorityInv /\ [AuthorityNext]_dbVars =>
        [\A r, s \in Records :
           Present(r) /\ s \notin issued /\ s \in issued' /\ rows'[s].key = rows[r].key
             => rows[r].state = "not_applied"]_dbVars
  BY StepReusesConfirmedKey
<1>2. QED
  BY <1>1, AuthoritySafe, PTL DEF AuthoritySpec, ReuseNeedsConfirmation
=============================================================================
