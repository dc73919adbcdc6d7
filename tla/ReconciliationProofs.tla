------------------------ MODULE ReconciliationProofs ------------------------
(***************************************************************************)
(* Proofs about ReconciliationWorkers, for any number of callers,          *)
(* processes, executions, attempts and faults: whatever happens to a call  *)
(* and to the operation it leaves behind, every step is a transaction of   *)
(* Authority, two calls do not probe one execution at a time, and an       *)
(* attempt is open only under an UNKNOWN head.  That an operation is       *)
(* refused when it does not apply is never needed: only that what it       *)
(* changes is what its transaction changes.                                *)
(***************************************************************************)
EXTENDS ReconciliationWorkers, AuthorityProofs

USE ZenonT(40)

-----------------------------------------------------------------------------
(* The inductive invariant.                                                *)

Stages == Operations \cup {"idle", "probe"}

Operation ==
    [at : Stages, on : Records \cup {None}, rev : Nat, attempt : Attempts \cup {None},
     finding : Findings \cup {NoFinding}, cancelled : BOOLEAN]

\* What a call, or the thread it left behind, knows: an operation with an
\* attempt has one of its own, and a transition that still applies does so to a
\* head without an open attempt.
SoundOp(o) ==
    /\ o.at # "idle" => o.on \in Records
    /\ o.at \in {"start", "probe", "finish", "verify", "transition"} =>
        o.attempt \in Attempts /\ o.attempt # None
    /\ o.at = "resolve" => o.finding \in Findings
    /\ o.at = "transition" =>
        /\ o.rev <= heads[o.on].revision
        /\ o.rev = heads[o.on].revision => Unmatched(o.on) = {}

OpsAreSound ==
    \A w \in Calls :
        /\ SoundOp(call[w]) /\ SoundOp(orphan[w])
        /\ call[w] = Idle \/ orphan[w] = NoOperation

\* An attempt is in the hands of one call.
HeldOnce ==
    \A v, w \in Calls : v # w =>
        /\ call[v].attempt # None =>
            call[v].attempt # call[w].attempt /\ call[v].attempt # orphan[w].attempt
        /\ orphan[v].attempt # None => orphan[v].attempt # orphan[w].attempt

\* An attempt that was started and that nobody may have closed in time.
Held(r, a) ==
    \/ attempts[r][a].status = "started"
    \/ attempts[r][a].status = "finished" /\ attempts[r][a].deadline = "lapsed"

ProbesHold ==
    \A w \in Calls : call[w].at = "probe" => Held(call[w].on, call[w].attempt)

WorkersTypeOK ==
    call \in [Calls -> Operation] /\ orphan \in [Calls -> Operation]

WorkersInv ==
    /\ AuthorityInv
    /\ WorkersTypeOK
    /\ OpsAreSound
    /\ HeldOnce
    /\ ProbesHold
    /\ OpenMeansUnknown

-----------------------------------------------------------------------------
(* What a transaction does to the attempts and the heads.                  *)

\* A revision is never taken back, and an attempt is opened under a new one.
LedgerAdvances ==
    \A r \in Records :
        /\ heads'[r].revision >= heads[r].revision
        /\ heads'[r].revision = heads[r].revision => Unmatched(r)' \subseteq Unmatched(r)

\* Nobody but the caller that holds one of the attempts in S closes it before
\* its deadline.
HeldIsKept(S) ==
    \A r \in Records, a \in Attempts \ S : Held(r, a) => Held(r, a)'

LedgerKeeps(S) == LedgerAdvances /\ HeldIsKept(S) /\ OpenMeansUnknown'

\* One head changes.
LEMMA HeadsAfter ==
  ASSUME AuthorityTypeOK, NEW r \in Records, NEW h, heads' = [heads EXCEPT ![r] = h]
  PROVE  \A s \in Records : heads'[s] = IF s = r THEN h ELSE heads[s]
BY DEF AuthorityTypeOK

\* The revision of a head is a number.
LEMMA RevisionIsNat ==
  ASSUME AuthorityTypeOK, NEW r \in Records
  PROVE  heads[r].revision \in Nat
BY SMTT(30) DEF AuthorityTypeOK, Head, NoHead

\* A transaction that leaves the attempts alone, and the state of every head
\* that has an open one.
LEMMA HeadChangeKeeps ==
  ASSUME AuthorityTypeOK, OpenMeansUnknown, attempts' = attempts, NEW r \in Records, NEW h,
         heads' = [heads EXCEPT ![r] = h], h.revision \in Nat, h.revision >= heads[r].revision,
         Unmatched(r) = {} \/ h.state = heads[r].state
  PROVE  LedgerKeeps({})
<1>1. \A s \in Records : heads'[s] = IF s = r THEN h ELSE heads[s]
  BY HeadsAfter
<1>2. \A s \in Records : Unmatched(s)' = Unmatched(s)
  BY DEF Unmatched
<1>3. \A s \in Records : heads[s].revision \in Nat
  BY RevisionIsNat
<1>4. LedgerAdvances
  BY <1>1, <1>2, <1>3, SMTT(30) DEF LedgerAdvances
<1>5. HeldIsKept({})
  BY DEF HeldIsKept, Held
<1>6. OpenMeansUnknown'
  BY <1>1, <1>2, SMTT(30) DEF OpenMeansUnknown
<1>7. QED
  BY <1>4, <1>5, <1>6 DEF LedgerKeeps

\* A transaction that does not touch the ledger.
LEMMA NoChangeKeeps ==
  ASSUME AuthorityTypeOK, OpenMeansUnknown, attempts' = attempts, heads' = heads
  PROVE  LedgerKeeps({})
<1>1. \A s \in Records : Unmatched(s)' = Unmatched(s) /\ heads[s].revision \in Nat
  BY RevisionIsNat DEF Unmatched
<1>2. LedgerAdvances
  BY <1>1, SMTT(30) DEF LedgerAdvances
<1>3. HeldIsKept({})
  BY DEF HeldIsKept, Held
<1>4. OpenMeansUnknown'
  BY <1>1 DEF OpenMeansUnknown
<1>5. QED
  BY <1>2, <1>3, <1>4 DEF LedgerKeeps

\* start_attempt opens an attempt under a new revision of an UNKNOWN head.
LEMMA StartKeeps ==
  ASSUME AuthorityInv, OpenMeansUnknown, NEW r \in Records, NEW a \in Attempts, NEW rev \in Nat,
         StartAttempt(r, a, rev)
  PROVE  LedgerKeeps({}) /\ Held(r, a)'
<1> DEFINE rec == [NoAttempt EXCEPT !.status = "started"]
<1>1. /\ AuthorityTypeOK /\ heads[r].revision = rev /\ heads[r].state = "UNKNOWN"
      /\ attempts' = [attempts EXCEPT ![r][a] = rec] /\ attempts[r][a].status = "none"
      /\ heads' = [heads EXCEPT ![r].revision = rev + 1]
  BY DEF StartAttempt, AppendAttempt, AuthorityInv
<1>2. rec.status = "started"
  BY DEF NoAttempt
<1> HIDE DEF rec
<1>3. \A s \in Records, b \in Attempts :
        attempts'[s][b] = IF s = r /\ b = a THEN rec ELSE attempts[s][b]
  BY <1>1 DEF AuthorityTypeOK
<1>4. /\ heads'[r].revision = rev + 1 /\ heads'[r].state = heads[r].state
      /\ \A s \in Records : s # r => heads'[s] = heads[s]
  <2>1. heads[r] \in Head
    BY <1>1, SMTT(30) DEF AuthorityTypeOK, NoHead
  <2>2. heads' = [heads EXCEPT ![r] = [heads[r] EXCEPT !.revision = rev + 1]]
    BY <1>1
  <2>3. /\ heads'[r] = [heads[r] EXCEPT !.revision = rev + 1]
        /\ \A s \in Records : s # r => heads'[s] = heads[s]
    BY <1>1, <2>2 DEF AuthorityTypeOK
  <2>4. heads'[r].revision = rev + 1 /\ heads'[r].state = heads[r].state
    BY <2>1, <2>3 DEF Head
  <2>5. QED
    BY <2>3, <2>4
<1>5. \A s \in Records : s # r => Unmatched(s)' = Unmatched(s)
  BY <1>3 DEF Unmatched
<1>6. LedgerAdvances
  BY <1>1, <1>4, <1>5, RevisionIsNat, SMTT(30) DEF LedgerAdvances
<1>7. HeldIsKept({})
  BY <1>1, <1>3, SMTT(30) DEF HeldIsKept, Held
<1>8. OpenMeansUnknown'
  BY <1>1, <1>4, <1>5 DEF OpenMeansUnknown
<1>9. QED
  BY <1>2, <1>3, <1>6, <1>7, <1>8 DEF LedgerKeeps, Held

\* finish_attempt closes the only open attempt under a new revision.
LEMMA FinishKeeps ==
  ASSUME AuthorityInv, OpenMeansUnknown, NEW r \in Records, NEW a \in Attempts, NEW rev \in Nat,
         NEW finding, FinishAttempt(r, a, rev, finding)
  PROVE  LedgerKeeps({a}) /\ heads'[r].revision = rev + 1 /\ Unmatched(r)' = {}
<1> DEFINE rec == [attempts[r][a] EXCEPT !.status = "finished", !.finding = finding]
<1>1. /\ AuthorityTypeOK /\ heads[r].revision = rev /\ heads[r] # NoHead
      /\ attempts' = [attempts EXCEPT ![r][a] = rec] /\ attempts[r][a].status = "started"
      /\ heads' = [heads EXCEPT ![r].revision = rev + 1]
  BY DEF FinishAttempt, AppendAttempt, AuthorityInv
<1>2. rec.status = "finished"
  BY <1>1, SMTT(30) DEF AuthorityTypeOK, Attempt
<1> HIDE DEF rec
<1>3. \A s \in Records, b \in Attempts :
        attempts'[s][b] = IF s = r /\ b = a THEN rec ELSE attempts[s][b]
  BY <1>1 DEF AuthorityTypeOK
<1>4. /\ heads'[r].revision = rev + 1 /\ heads'[r].state = heads[r].state
      /\ \A s \in Records : s # r => heads'[s] = heads[s]
  <2>1. heads[r] \in Head
    BY <1>1 DEF AuthorityTypeOK
  <2>2. heads' = [heads EXCEPT ![r] = [heads[r] EXCEPT !.revision = rev + 1]]
    BY <1>1
  <2>3. /\ heads'[r] = [heads[r] EXCEPT !.revision = rev + 1]
        /\ \A s \in Records : s # r => heads'[s] = heads[s]
    BY <1>1, <2>2 DEF AuthorityTypeOK
  <2>4. heads'[r].revision = rev + 1 /\ heads'[r].state = heads[r].state
    BY <2>1, <2>3 DEF Head
  <2>5. QED
    BY <2>3, <2>4
<1>5. \A s \in Records : s # r => Unmatched(s)' = Unmatched(s)
  BY <1>3 DEF Unmatched
<1>6. Unmatched(r)' = {}
  BY <1>1, <1>2, <1>3, SMTT(30) DEF Unmatched, AuthorityInv, OneOpenAttempt
<1>7. LedgerAdvances
  BY <1>1, <1>4, <1>5, RevisionIsNat, SMTT(30) DEF LedgerAdvances
<1>8. HeldIsKept({a})
  BY <1>3 DEF HeldIsKept, Held
<1>9. OpenMeansUnknown'
  <2> SUFFICES ASSUME NEW s \in Records, Unmatched(s)' # {} PROVE heads'[s].state = "UNKNOWN"
    BY DEF OpenMeansUnknown
  <2>1. s # r
    BY <1>6
  <2>2. QED
    BY <1>4, <1>5, <2>1 DEF OpenMeansUnknown
<1>10. QED
  BY <1>4, <1>6, <1>7, <1>8, <1>9 DEF LedgerKeeps

\* recover_unfinished_attempts closes what has lapsed.
LEMMA RecoverKeeps ==
  ASSUME AuthorityInv, OpenMeansUnknown, NEW r \in Records, RecoverUnfinished(r)
  PROVE  LedgerKeeps({})
<1> DEFINE row == [b \in Attempts |-> IF b \in Unmatched(r)
                                      THEN [attempts[r][b] EXCEPT !.status = "finished"]
                                      ELSE attempts[r][b]]
           last == heads[r].revision + Cardinality(Unmatched(r))
           h == [state |-> "MANUAL_REVIEW", revision |-> last + 1, result |-> FALSE]
<1>1. /\ AuthorityTypeOK /\ attempts' = [attempts EXCEPT ![r] = row]
      /\ \A b \in Unmatched(r) : attempts[r][b].deadline = "lapsed"
      /\ heads' = [heads EXCEPT ![r] = h]
  BY DEF RecoverUnfinished, AppendTransition, AuthorityInv
<1>2. PICK a \in Attempts : Unmatched(r) = {a}
  BY SMTT(30) DEF RecoverUnfinished, AuthorityInv, OneOpenAttempt, Unmatched
<1>3. Cardinality(Unmatched(r)) = 1
  BY <1>2, SingletonHasOne
<1>4. h.revision = heads[r].revision + 2
  BY <1>1, <1>3, RevisionIsNat, SMTT(30)
<1>5. \A b \in Attempts :
        /\ row[b].status # "started"
        /\ attempts[r][b].status = "started" => row[b].status = "finished" /\ row[b].deadline = "lapsed"
        /\ attempts[r][b].status # "started" => row[b] = attempts[r][b]
  BY <1>1, SMTT(30) DEF AuthorityTypeOK, Attempt, Unmatched
<1> HIDE DEF row, h
<1>6. /\ heads'[r] = h /\ attempts'[r] = row
      /\ \A s \in Records : s # r => heads'[s] = heads[s] /\ attempts'[s] = attempts[s]
  BY <1>1 DEF AuthorityTypeOK
<1>7. /\ \A s \in Records : s # r => Unmatched(s)' = Unmatched(s)
      /\ Unmatched(r)' = {}
  <2>1. \A s \in Records : s # r => Unmatched(s)' = Unmatched(s)
    BY <1>6 DEF Unmatched
  <2>2. Unmatched(r)' = {b \in Attempts : row[b].status = "started"}
    BY <1>6 DEF Unmatched
  <2>3. QED
    BY <1>5, <2>1, <2>2
<1>8. LedgerAdvances
  BY <1>1, <1>4, <1>6, <1>7, RevisionIsNat, SMTT(30) DEF LedgerAdvances
<1>9. HeldIsKept({})
  <2> SUFFICES ASSUME NEW s \in Records, NEW b \in Attempts, Held(s, b) PROVE Held(s, b)'
    BY DEF HeldIsKept
  <2>1. CASE s = r
    <3>1. attempts'[s][b] = row[b]
      BY <1>6, <2>1
    <3>2. row[b].status = "finished" /\ row[b].deadline = "lapsed"
      BY <1>5, <2>1 DEF Held
    <3>3. QED
      BY <3>1, <3>2 DEF Held
  <2>2. CASE s # r
    BY <1>6, <2>2 DEF Held
  <2>3. QED
    BY <2>1, <2>2
<1>10. OpenMeansUnknown'
  BY <1>6, <1>7 DEF OpenMeansUnknown
<1>11. QED
  BY <1>8, <1>9, <1>10 DEF LedgerKeeps

\* A transition is applied to a head without an open attempt.
LEMMA TransitionKeeps ==
  ASSUME AuthorityInv, OpenMeansUnknown, NEW r \in Records, NEW rev \in Nat, NEW finding,
         heads[r].revision = rev, AppendTransition(r, rev, finding), attempts' = attempts,
         Unmatched(r) = {}
  PROVE  LedgerKeeps({})
<1> DEFINE h == [state |-> finding.state, revision |-> rev + 1, result |-> finding.result]
<1>1. heads' = [heads EXCEPT ![r] = h] /\ h.revision = rev + 1 /\ AuthorityTypeOK
  BY DEF AppendTransition, AuthorityInv
<1> HIDE DEF h
<1>2. h.revision \in Nat /\ h.revision >= heads[r].revision
  BY <1>1, SMTT(30)
<1>3. QED
  BY <1>1, <1>2, HeadChangeKeeps

\* An execution is claimed, or its outcome becomes unknown.
LEMMA UnresolvedKeeps ==
  ASSUME AuthorityInv, OpenMeansUnknown, Unresolved
  PROVE  LedgerKeeps({}) /\ AuthorityNext
<1>1. AuthorityTypeOK
  BY DEF AuthorityInv
<1>2. PICK r \in Records : RecordUnknown(r) \/ \E k \in Keys, f \in Fingerprints : Claim(r, k, f)
  BY DEF Unresolved
<1>3. CASE \E k \in Keys, f \in Fingerprints : Claim(r, k, f)
  <2>1. attempts' = attempts /\ heads' = heads
    BY <1>3 DEF Claim
  <2>2. QED
    BY <1>1, <1>3, <2>1, NoChangeKeeps DEF AuthorityNext, StoreNext
<1>4. CASE RecordUnknown(r)
  <2> DEFINE h == [state |-> "UNKNOWN", revision |-> 0, result |-> FALSE]
  <2>1. heads[r] = NoHead /\ attempts' = attempts /\ heads' = [heads EXCEPT ![r] = h]
    BY <1>4 DEF RecordUnknown
  <2>2. Unmatched(r) = {}
    BY <2>1, SMTT(30) DEF AuthorityInv, AttemptsNeedHead, Unmatched, NoAttempt
  <2>3. h.revision \in Nat /\ h.revision >= heads[r].revision
    BY <2>1, SMTT(30) DEF NoHead
  <2> HIDE DEF h
  <2>4. LedgerKeeps({})
    BY <1>1, <2>1, <2>2, <2>3, HeadChangeKeeps
  <2>5. QED
    BY <1>4, <2>4 DEF AuthorityNext, LedgerNext
<1>5. QED
  BY <1>2, <1>3, <1>4

\* A deadline passes.
LEMMA LapseKeeps ==
  ASSUME AuthorityInv, OpenMeansUnknown, LeaseOfAttemptLapses
  PROVE  LedgerKeeps({}) /\ AuthorityNext
<1>1. PICK r \in Records, a \in Attempts : DeadlineLapses(r, a)
  BY DEF LeaseOfAttemptLapses
<1> DEFINE rec == [attempts[r][a] EXCEPT !.deadline = "lapsed"]
<1>2. /\ AuthorityTypeOK /\ heads' = heads /\ attempts[r][a].status = "started"
      /\ attempts' = [attempts EXCEPT ![r][a] = rec]
  BY <1>1 DEF DeadlineLapses, AuthorityInv
<1>3. rec.status = "started"
  BY <1>2, SMTT(30) DEF AuthorityTypeOK, Attempt
<1> HIDE DEF rec
<1>4. \A s \in Records, b \in Attempts :
        attempts'[s][b] = IF s = r /\ b = a THEN rec ELSE attempts[s][b]
  BY <1>2 DEF AuthorityTypeOK
<1>5. \A s \in Records : Unmatched(s)' = Unmatched(s) /\ heads[s].revision \in Nat
  BY <1>2, <1>3, <1>4, RevisionIsNat, SMTT(30) DEF Unmatched
<1>6. LedgerAdvances
  BY <1>2, <1>5, SMTT(30) DEF LedgerAdvances
<1>7. HeldIsKept({})
  BY <1>3, <1>4 DEF HeldIsKept, Held
<1>8. OpenMeansUnknown'
  BY <1>2, <1>5 DEF OpenMeansUnknown
<1>9. QED
  BY <1>1, <1>6, <1>7, <1>8 DEF LedgerKeeps, AuthorityNext, LedgerNext

-----------------------------------------------------------------------------
(* The transactions of the workers.                                        *)

\* What a committed operation changes is what one transaction of the authority
\* changes, and only its own attempt is closed before its deadline.
LEMMA CommitKeeps ==
  ASSUME AuthorityInv, OpenMeansUnknown, NEW o \in Operation, SoundOp(o), Commits(o)
  PROVE  /\ AuthorityNext /\ LedgerKeeps(IF o.at = "finish" THEN {o.attempt} ELSE {})
         /\ o.at = "start" => Held(o.on, o.attempt)'
         /\ o.at = "finish" => heads'[o.on].revision = o.rev + 1 /\ Unmatched(o.on)' = {}
<1>1. o.rev \in Nat /\ o.finding \in Findings \cup {NoFinding} /\ AuthorityTypeOK
  BY DEF Operation, AuthorityInv
<1>2. CASE o.at = "recover"
  <2>1. RecoverUnfinished(o.on) /\ o.on \in Records
    BY <1>2 DEF Commits, SoundOp
  <2>2. LedgerKeeps({})
    BY <2>1, RecoverKeeps
  <2>3. AuthorityNext
    BY <2>1 DEF AuthorityNext, LedgerNext
  <2>4. QED
    BY <1>2, <2>2, <2>3
<1>3. CASE o.at = "start"
  <2>1. StartAttempt(o.on, o.attempt, o.rev) /\ o.on \in Records /\ o.attempt \in Attempts
    BY <1>3 DEF Commits, SoundOp
  <2>2. LedgerKeeps({}) /\ Held(o.on, o.attempt)'
    BY <1>1, <2>1, StartKeeps
  <2>3. o.rev = heads[o.on].revision
    BY <2>1 DEF StartAttempt, AppendAttempt
  <2>4. AuthorityNext
    BY <2>1, <2>3 DEF AuthorityNext, LedgerNext
  <2>5. QED
    BY <1>3, <2>2, <2>4
<1>4. CASE o.at = "finish"
  <2>1. /\ FinishAttempt(o.on, o.attempt, o.rev, o.finding)
        /\ o.on \in Records /\ o.attempt \in Attempts
    BY <1>4 DEF Commits, SoundOp
  <2>2. LedgerKeeps({o.attempt}) /\ heads'[o.on].revision = o.rev + 1 /\ Unmatched(o.on)' = {}
    BY <1>1, <2>1, FinishKeeps
  <2>3. o.rev = heads[o.on].revision
    BY <2>1 DEF FinishAttempt, AppendAttempt
  <2>4. AuthorityNext
    BY <1>1, <2>1, <2>3 DEF AuthorityNext, LedgerNext
  <2>5. QED
    BY <1>4, <2>2, <2>4
<1>5. CASE o.at = "transition"
  <2>1. /\ ProviderTransition(o.on, o.attempt, o.rev, o.finding)
        /\ o.on \in Records /\ o.attempt \in Attempts
    BY <1>5 DEF Commits, SoundOp
  <2>2. /\ o.rev = heads[o.on].revision /\ attempts' = attempts
        /\ AppendTransition(o.on, o.rev, o.finding)
    BY <2>1 DEF ProviderTransition
  <2>3. Unmatched(o.on) = {}
    BY <1>5, <2>2 DEF SoundOp
  <2>4. LedgerKeeps({})
    BY <1>1, <2>1, <2>2, <2>3, TransitionKeeps
  <2>5. AuthorityNext
    BY <1>1, <2>1, <2>2 DEF AuthorityNext, LedgerNext
  <2>6. QED
    BY <1>5, <2>4, <2>5
<1>6. CASE o.at = "resolve"
  <2>1. /\ ManualTransition(o.on, o.rev, o.finding)
        /\ o.on \in Records /\ o.finding \in Findings
    BY <1>6 DEF Commits, SoundOp
  <2>2. /\ o.rev = heads[o.on].revision /\ attempts' = attempts
        /\ AppendTransition(o.on, o.rev, o.finding) /\ heads[o.on].state = "MANUAL_REVIEW"
    BY <2>1 DEF ManualTransition
  <2>3. Unmatched(o.on) = {}
    BY <2>1, <2>2 DEF OpenMeansUnknown
  <2>4. LedgerKeeps({})
    BY <1>1, <2>1, <2>2, <2>3, TransitionKeeps
  <2>5. AuthorityNext
    BY <2>1, <2>2 DEF AuthorityNext, LedgerNext
  <2>6. QED
    BY <1>6, <2>4, <2>5
<1>7. QED
  BY <1>2, <1>3, <1>4, <1>5, <1>6 DEF Commits

\* An operation of any call, committed or refused.
LEMMA TransactionKeeps ==
  ASSUME AuthorityInv, OpenMeansUnknown, NEW o \in Operation, SoundOp(o), Transaction(o)
  PROVE  /\ [AuthorityNext]_dbVars /\ LedgerKeeps(IF o.at = "finish" THEN {o.attempt} ELSE {})
         /\ Applies(o) /\ o.at = "start" => Held(o.on, o.attempt)'
         /\ Applies(o) /\ o.at = "finish" =>
                heads'[o.on].revision = o.rev + 1 /\ Unmatched(o.on)' = {}
<1>1. CASE Applies(o)
  <2>1. Commits(o)
    BY <1>1 DEF Transaction
  <2>2. QED
    BY <1>1, <2>1, CommitKeeps
<1>2. CASE ~Applies(o)
  <2>1. UNCHANGED dbVars
    BY <1>2 DEF Transaction
  <2>2. LedgerKeeps({})
    BY <2>1, NoChangeKeeps DEF dbVars, AuthorityInv
  <2>3. LedgerKeeps(IF o.at = "finish" THEN {o.attempt} ELSE {})
    BY <2>2 DEF LedgerKeeps, HeldIsKept
  <2>4. QED
    BY <1>2, <2>1, <2>3
<1>3. QED
  BY <1>1, <1>2

-----------------------------------------------------------------------------
(* The calls.                                                              *)

\* What a call knows stays sound while the ledger advances.
LEMMA SoundOpKept ==
  ASSUME AuthorityTypeOK, AuthorityTypeOK', LedgerAdvances, NEW o \in Operation, SoundOp(o)
  PROVE  SoundOp(o)'
<1>1. o.at = "transition" =>
        /\ o.on \in Records /\ o.rev \in Nat
        /\ o.rev <= heads[o.on].revision
        /\ o.rev = heads[o.on].revision => Unmatched(o.on) = {}
  BY DEF SoundOp, Operation
<1>2. \A r \in Records : heads[r].revision \in Nat /\ heads'[r].revision \in Nat
  BY SMTT(30) DEF AuthorityTypeOK, Head, NoHead
<1>3. o.at = "transition" =>
        /\ o.rev <= heads'[o.on].revision
        /\ o.rev = heads'[o.on].revision => Unmatched(o.on)' = {}
  <2> SUFFICES ASSUME o.at = "transition"
               PROVE  /\ o.rev <= heads'[o.on].revision
                      /\ o.rev = heads'[o.on].revision => Unmatched(o.on)' = {}
    OBVIOUS
  <2>1. heads'[o.on].revision >= heads[o.on].revision
    BY <1>1 DEF LedgerAdvances
  <2>2. o.rev <= heads'[o.on].revision
    BY <1>1, <1>2, <2>1, SMTT(30)
  <2>3. ASSUME o.rev = heads'[o.on].revision PROVE Unmatched(o.on)' = {}
    <3>1. o.rev = heads[o.on].revision /\ heads'[o.on].revision = heads[o.on].revision
      BY <1>1, <1>2, <2>1, <2>3, SMTT(30)
    <3>2. Unmatched(o.on)' \subseteq Unmatched(o.on) /\ Unmatched(o.on) = {}
      BY <1>1, <3>1 DEF LedgerAdvances
    <3>3. QED
      BY <3>2
  <2>4. QED
    BY <2>2, <2>3
<1>4. QED
  BY <1>3 DEF SoundOp

\* A caller's call and the operation it has left behind become c and q, while a
\* transaction, if there is one, closes no attempt of another call.
Moves(S, w, c, q) ==
    /\ LedgerKeeps(S)
    /\ call' = [call EXCEPT ![w] = c] /\ orphan' = [orphan EXCEPT ![w] = q]
    /\ SoundOp(c)' /\ SoundOp(q)'
    /\ c = Idle \/ q = NoOperation
    /\ \A v \in Calls : v # w =>
            /\ call[v].attempt \notin S
            /\ c.attempt # None => c.attempt # call[v].attempt /\ c.attempt # orphan[v].attempt
            /\ q.attempt # None => q.attempt # call[v].attempt /\ q.attempt # orphan[v].attempt
    /\ c.at = "probe" => Held(c.on, c.attempt)'

\* Such a step keeps the invariant.
LEMMA CallMoves ==
  ASSUME WorkersInv, AuthorityInv', NEW S, NEW w \in Calls,
         NEW c \in Operation, NEW q \in Operation, Moves(S, w, c, q)
  PROVE  WorkersInv'
<1>1. /\ AuthorityTypeOK /\ AuthorityTypeOK' /\ LedgerAdvances /\ HeldIsKept(S) /\ OpenMeansUnknown'
      /\ WorkersTypeOK /\ OpsAreSound /\ HeldOnce /\ ProbesHold
  BY DEF WorkersInv, AuthorityInv, LedgerKeeps, Moves
<1>h. /\ call' = [call EXCEPT ![w] = c] /\ orphan' = [orphan EXCEPT ![w] = q]
      /\ SoundOp(c)' /\ SoundOp(q)'
      /\ c = Idle \/ q = NoOperation
      /\ \A v \in Calls : v # w =>
              /\ call[v].attempt \notin S
              /\ c.attempt # None => c.attempt # call[v].attempt /\ c.attempt # orphan[v].attempt
              /\ q.attempt # None => q.attempt # call[v].attempt /\ q.attempt # orphan[v].attempt
      /\ c.at = "probe" => Held(c.on, c.attempt)'
  BY DEF Moves
<1>2. /\ call'[w] = c /\ orphan'[w] = q
      /\ \A v \in Calls : v # w => call'[v] = call[v] /\ orphan'[v] = orphan[v]
  BY <1>1, <1>h DEF WorkersTypeOK
<1>3. WorkersTypeOK'
  BY <1>1, <1>h DEF WorkersTypeOK
<1>4. \A v \in Calls : /\ call[v] \in Operation /\ orphan[v] \in Operation
                       /\ SoundOp(call[v]) /\ SoundOp(orphan[v])
  BY <1>1 DEF WorkersTypeOK, OpsAreSound
<1>5. \A o \in Operation : SoundOp(o) => SoundOp(o)'
  BY <1>1, SoundOpKept
<1>6. OpsAreSound'
  <2> SUFFICES ASSUME NEW v \in Calls
               PROVE  /\ SoundOp(call[v])' /\ SoundOp(orphan[v])'
                      /\ (call[v] = Idle)' \/ (orphan[v] = NoOperation)'
    BY DEF OpsAreSound
  <2>1. CASE v = w
    BY <1>h, <1>2, <2>1 DEF SoundOp, Idle, NoOperation
  <2>2. CASE v # w
    <3>1. call'[v] = call[v] /\ orphan'[v] = orphan[v]
      BY <1>2, <2>2
    <3>2. \A o \in {call[v], orphan[v]} : SoundOp(o)'
      BY <1>4, <1>5
    <3>3. SoundOp(call[v])' /\ SoundOp(orphan[v])'
      BY <3>1, <3>2 DEF SoundOp
    <3>4. QED
      BY <1>1, <3>1, <3>3 DEF OpsAreSound, Idle, NoOperation
  <2>3. QED
    BY <2>1, <2>2
<1>7. HeldOnce'
  BY <1>1, <1>h, <1>2, SMTT(30) DEF HeldOnce
<1>8. ProbesHold'
  <2> SUFFICES ASSUME NEW v \in Calls, call'[v].at = "probe"
               PROVE  Held(call[v].on, call[v].attempt)'
    BY DEF ProbesHold
  <2>1. CASE v = w
    BY <1>h, <1>2, <2>1 DEF Held
  <2>2. CASE v # w
    <3>1. call'[v] = call[v] /\ call[v].attempt \notin S
      BY <1>h, <1>2, <2>2
    <3>2. call[v].on \in Records /\ call[v].attempt \in Attempts \ S
      BY <1>4, <3>1 DEF SoundOp
    <3>3. Held(call[v].on, call[v].attempt)
      BY <1>1, <3>1 DEF ProbesHold
    <3>4. PICK r \in Records, a \in Attempts \ S : r = call[v].on /\ a = call[v].attempt
      BY <3>2
    <3>5. Held(r, a)'
      BY <1>1, <3>3, <3>4 DEF HeldIsKept
    <3>6. QED
      BY <3>1, <3>4, <3>5 DEF Held
  <2>3. QED
    BY <2>1, <2>2
<1>9. QED
  BY <1>1, <1>3, <1>6, <1>7, <1>8 DEF WorkersInv

\* Calls and operations end, or nothing happens to them.
LEMMA CallsEnd ==
  ASSUME WorkersInv, AuthorityInv', LedgerKeeps({}), WorkersTypeOK',
         \A v \in Calls : call'[v] \in {call[v], Idle} /\ orphan'[v] \in {orphan[v], NoOperation}
  PROVE  WorkersInv'
<1>1. /\ AuthorityTypeOK /\ AuthorityTypeOK' /\ LedgerAdvances /\ HeldIsKept({}) /\ OpenMeansUnknown'
      /\ WorkersTypeOK /\ OpsAreSound /\ HeldOnce /\ ProbesHold
  BY DEF WorkersInv, AuthorityInv, LedgerKeeps
<1>2. Idle.at = "idle" /\ Idle.attempt = None /\ NoOperation = Idle
  BY DEF Idle, NoOperation
<1>3. \A v \in Calls : /\ call[v] \in Operation /\ orphan[v] \in Operation
                       /\ SoundOp(call[v]) /\ SoundOp(orphan[v])
  BY <1>1 DEF WorkersTypeOK, OpsAreSound
<1>4. \A o \in Operation : SoundOp(o) => SoundOp(o)'
  BY <1>1, SoundOpKept
<1>5. OpsAreSound'
  <2> SUFFICES ASSUME NEW v \in Calls
               PROVE  /\ SoundOp(call[v])' /\ SoundOp(orphan[v])'
                      /\ (call[v] = Idle)' \/ (orphan[v] = NoOperation)'
    BY DEF OpsAreSound
  <2>1. \A o \in {call[v], orphan[v]} : SoundOp(o)'
    BY <1>3, <1>4
  <2>2. \A o : o.at = "idle" => SoundOp(o)'
    BY DEF SoundOp
  <2>3. SoundOp(call[v])' /\ SoundOp(orphan[v])'
    <3>1. \A o \in {call'[v], orphan'[v]} : SoundOp(o)'
      BY <1>2, <2>1, <2>2
    <3>2. QED
      BY <3>1 DEF SoundOp
  <2>4. QED
    BY <1>1, <1>2, <2>3 DEF OpsAreSound, Idle, NoOperation
<1>6. HeldOnce'
  BY <1>1, <1>2, SMTT(30) DEF HeldOnce
<1>7. ProbesHold'
  <2> SUFFICES ASSUME NEW v \in Calls, call'[v].at = "probe"
               PROVE  Held(call[v].on, call[v].attempt)'
    BY DEF ProbesHold
  <2>1. call'[v] = call[v]
    BY <1>2
  <2>2. call[v].on \in Records /\ call[v].attempt \in Attempts \ {}
    BY <1>3, <2>1 DEF SoundOp
  <2>3. Held(call[v].on, call[v].attempt)
    BY <1>1, <2>1 DEF ProbesHold
  <2>4. PICK r \in Records, a \in Attempts \ {} : r = call[v].on /\ a = call[v].attempt
    BY <2>2
  <2>5. Held(r, a)'
    BY <1>1, <2>3, <2>4 DEF HeldIsKept
  <2>6. QED
    BY <2>1, <2>4, <2>5 DEF Held
<1>8. QED
  BY <1>1, <1>5, <1>6, <1>7 DEF WorkersInv

\* A call goes on with the attempt it has, or without one.
LEMMA OwnMove ==
  ASSUME WorkersInv, [AuthorityNext]_dbVars, NEW w \in Calls, call[w] # Idle, NEW S, LedgerKeeps(S),
         S = {} \/ (S = {call[w].attempt} /\ call[w].attempt # None),
         NEW c \in Operation, call' = [call EXCEPT ![w] = c], orphan' = orphan,
         SoundOp(c)', c.attempt \in {None, call[w].attempt},
         c.at = "probe" => Held(c.on, c.attempt)'
  PROVE  WorkersInv'
<1>1. AuthorityInv'
  BY StepPreservesInv DEF WorkersInv
<1>2. orphan[w] = NoOperation /\ orphan \in [Calls -> Operation]
  BY DEF WorkersInv, OpsAreSound, WorkersTypeOK
<1>3. PICK n \in Operation : n = NoOperation /\ n.at = "idle" /\ n.attempt = None
  BY <1>2, SMTT(30) DEF NoOperation, Idle
<1>4. SoundOp(n)' /\ orphan' = [orphan EXCEPT ![w] = n]
  BY <1>2, <1>3 DEF SoundOp
<1>5. \A v \in Calls : v # w =>
        /\ call[v].attempt \notin S
        /\ c.attempt # None => c.attempt # call[v].attempt /\ c.attempt # orphan[v].attempt
        /\ n.attempt # None => n.attempt # call[v].attempt /\ n.attempt # orphan[v].attempt
  BY <1>3, SMTT(30) DEF WorkersInv, HeldOnce
<1>6. QED
  <2>1. Moves(S, w, c, n)
    BY <1>3, <1>4, <1>5 DEF Moves
  <2>2. QED
    BY <1>1, <2>1, CallMoves

\* Only what a transition knows depends on the ledger.
LEMMA StaticOp ==
  ASSUME NEW c, SoundOp(c), c.at # "transition"
  PROVE  SoundOp(c)'
BY DEF SoundOp

\* What the steps below use of a call that is under way.
LEMMA CallFacts ==
  ASSUME WorkersInv, NEW w \in Calls
  PROVE  /\ AuthorityInv /\ AuthorityTypeOK /\ OpenMeansUnknown
         /\ call[w] \in Operation /\ SoundOp(call[w]) /\ (call[w].at # "idle" => call[w] # Idle)
         /\ orphan[w] \in Operation /\ SoundOp(orphan[w])
         /\ call[w] = Idle \/ orphan[w] = NoOperation
         /\ Idle \in Operation /\ SoundOp(Idle) /\ Idle.at = "idle" /\ Idle.attempt = None
         /\ NoOperation = Idle
<1>1. /\ AuthorityInv /\ AuthorityTypeOK /\ OpenMeansUnknown
      /\ call[w] \in Operation /\ SoundOp(call[w])
      /\ orphan[w] \in Operation /\ SoundOp(orphan[w])
      /\ call[w] = Idle \/ orphan[w] = NoOperation
  BY DEF WorkersInv, AuthorityInv, WorkersTypeOK, OpsAreSound
<1>2. Idle.at = "idle" /\ Idle.attempt = None /\ NoOperation = Idle
  BY DEF Idle, NoOperation
<1>3. Idle \in Operation
  BY <1>1 DEF NoOperation
<1>4. SoundOp(Idle)
  BY <1>2 DEF SoundOp
<1>5. QED
  BY <1>1, <1>2, <1>3, <1>4

\* A step of a call that does not use the ledger, or only reads it.
LEMMA ReadingMove ==
  ASSUME WorkersInv, UNCHANGED <<dbVars, orphan>>, NEW w \in Calls, call[w] # Idle,
         NEW c \in Operation, call' = [call EXCEPT ![w] = c], SoundOp(c), c.at # "transition",
         c.attempt \in {None, call[w].attempt}, c.at # "probe"
  PROVE  WorkersInv'
<1>1. LedgerKeeps({})
  BY NoChangeKeeps DEF dbVars, WorkersInv, AuthorityInv
<1>2. SoundOp(c)'
  BY StaticOp
<1>3. QED
  BY <1>1, <1>2, OwnMove

\* The two looks at the head, and the recovery of unfinished attempts.
LEMMA ReadHeadKeepsInv ==
  ASSUME WorkersInv, NEW w \in Calls, ReadHead(w)
  PROVE  WorkersInv'
<1> DEFINE o == call[w]
           c == [o EXCEPT !.at = "recover"]
<1>1. o.at = "current" /\ UNCHANGED <<dbVars, orphan>>
  BY DEF ReadHead
<1>2. call' = [call EXCEPT ![w] = c] \/ call' = [call EXCEPT ![w] = Idle]
  BY DEF ReadHead, Enter, Goto
<1>3. c \in Operation /\ SoundOp(c) /\ c.at = "recover" /\ c.attempt = o.attempt
  <2>1. o \in Operation /\ SoundOp(o)
    BY CallFacts
  <2>2. QED
    BY <1>1, <2>1 DEF Operation, Operations, Stages, SoundOp
<1> HIDE DEF c
<1>4. QED
  BY <1>1, <1>2, <1>3, CallFacts, ReadingMove

\* Recovery ends the call or leads it to its second look.
LEMMA RecoverKeepsInv ==
  ASSUME WorkersInv, NEW w \in Calls, RecoverUnfinishedAttempts(w)
  PROVE  WorkersInv' /\ [AuthorityNext]_dbVars
<1> DEFINE o == call[w]
<1>1. o.at = "recover" /\ Transaction(o) /\ orphan' = orphan
  BY DEF RecoverUnfinishedAttempts
<1>2. o \in Operation /\ SoundOp(o) /\ o # Idle
  BY <1>1, CallFacts
<1>3. PICK c \in {[o EXCEPT !.at = "current again"], Idle} : call' = [call EXCEPT ![w] = c]
  BY DEF RecoverUnfinishedAttempts, Enter, Goto
<1>4. c \in Operation /\ SoundOp(c) /\ c.at \in {"current again", "idle"} /\ c.attempt \in {None, o.attempt}
  <2>1. CASE c = Idle
    BY <2>1, CallFacts
  <2>2. CASE c = [o EXCEPT !.at = "current again"]
    BY <1>1, <1>2, <2>2 DEF Operation, Operations, Stages, SoundOp
  <2>3. QED
    BY <2>1, <2>2
<1>5. [AuthorityNext]_dbVars /\ LedgerKeeps({})
  BY <1>1, <1>2, CallFacts, TransactionKeeps
<1>6. SoundOp(c)'
  BY <1>4, StaticOp
<1>7. QED
  BY <1>1, <1>2, <1>3, <1>4, <1>5, <1>6, OwnMove

\* The attempt of a call is fresh: no other call and no operation left behind
\* has it.
LEMMA ReadHeadAgainKeepsInv ==
  ASSUME WorkersInv, NEW w \in Calls, ReadHeadAgain(w)
  PROVE  WorkersInv'
<1> DEFINE o == call[w]
<1>1. o.at = "current again" /\ UNCHANGED <<dbVars, orphan>>
  BY DEF ReadHeadAgain
<1>2. CASE call' = [call EXCEPT ![w] = Idle]
  BY <1>1, <1>2, CallFacts, ReadingMove
<1>3. CASE call' # [call EXCEPT ![w] = Idle]
  <2>1. PICK a \in FreshAttempts(o.on) :
          call' = [call EXCEPT ![w] = [o EXCEPT !.at = "start", !.rev = heads[o.on].revision,
                                                !.attempt = a]]
    BY <1>3 DEF ReadHeadAgain, Enter, Goto
  <2>2. /\ o \in Operation /\ o.on \in Records /\ o # Idle /\ orphan[w] = NoOperation
        /\ AuthorityTypeOK /\ orphan[w].attempt = None
    BY <1>1, CallFacts DEF SoundOp
  <2>n. PICK n \in Operation : n = NoOperation /\ n.at = "idle" /\ n.attempt = None
    BY CallFacts
  <2>3. a \in Attempts /\ \A v \in Calls : call[v].attempt # a /\ orphan[v].attempt # a
    BY DEF FreshAttempts
  <2>4. a # None
    BY <2>2, <2>3
  <2>5. heads[o.on].revision \in Nat
    BY <2>2, RevisionIsNat
  <2>6. PICK c \in Operation : /\ call' = [call EXCEPT ![w] = c]
                              /\ c.at = "start" /\ c.on = o.on /\ c.attempt = a
    <3>1. [o EXCEPT !.at = "start", !.rev = heads[o.on].revision, !.attempt = a] \in Operation
      BY <2>2, <2>3, <2>5 DEF Operation, Operations, Stages
    <3>2. QED
      BY <2>1, <2>2, <3>1 DEF Operation
  <2>7. SoundOp(c)' /\ SoundOp(n)'
    BY <2>2, <2>n, <2>3, <2>4, <2>6 DEF SoundOp
  <2>8. orphan' = [orphan EXCEPT ![w] = n]
    BY <1>1, <2>2, <2>n DEF WorkersInv, WorkersTypeOK
  <2>9. LedgerKeeps({}) /\ AuthorityInv'
    BY <1>1, CallFacts, NoChangeKeeps, StepPreservesInv DEF dbVars
  <2>10. \A v \in Calls : v # w =>
            /\ call[v].attempt \notin {}
            /\ c.attempt # None => c.attempt # call[v].attempt /\ c.attempt # orphan[v].attempt
            /\ n.attempt # None => n.attempt # call[v].attempt /\ n.attempt # orphan[v].attempt
    BY <2>n, <2>3, <2>6
  <2>11. c = Idle \/ n = NoOperation
    BY <2>n
  <2>12. c.at # "probe"
    BY <2>6
  <2>13. QED
    <3>1. Moves({}, w, c, n)
      BY <2>6, <2>7, <2>8, <2>9, <2>10, <2>11, <2>12 DEF Moves
    <3>2. QED
      BY <2>9, <3>1, CallMoves
<1>4. QED
  BY <1>2, <1>3

\* start_attempt commits and the call probes, or the call is over.
LEMMA StartKeepsInv ==
  ASSUME WorkersInv, NEW w \in Calls, StartsAttempt(w)
  PROVE  WorkersInv' /\ [AuthorityNext]_dbVars
<1>0. PICK o : o = call[w]
  OBVIOUS
<1>1. o.at = "start" /\ Transaction(o) /\ orphan' = orphan /\ call[w] = o
  BY <1>0 DEF StartsAttempt
<1>2. o \in Operation /\ SoundOp(o) /\ o # Idle
  BY <1>1, CallFacts
<1>3. PICK c \in {[o EXCEPT !.at = "probe", !.rev = o.rev + 1], Idle} :
        call' = [call EXCEPT ![w] = c] /\ (Applies(o) \/ c = Idle)
  BY <1>1 DEF StartsAttempt, Goto
<1>4. [AuthorityNext]_dbVars /\ LedgerKeeps({}) /\ (Applies(o) => Held(o.on, o.attempt)')
  BY <1>1, <1>2, CallFacts, TransactionKeeps
<1>5. CASE c = Idle
  <2>1. c \in Operation /\ SoundOp(c)' /\ c.attempt = None /\ c.at = "idle"
    BY <1>5, CallFacts, SMTT(30) DEF SoundOp
  <2>2. QED
    BY <1>1, <1>2, <1>3, <1>4, <2>1, OwnMove
<1>6. CASE c # Idle
  <2>1. o.rev + 1 \in Nat
    BY <1>2, SMTT(30) DEF Operation
  <2>2. c \in Operation /\ c.at = "probe" /\ c.on = o.on /\ c.attempt = o.attempt
    <3>1. c = [o EXCEPT !.at = "probe", !.rev = o.rev + 1] /\ "probe" \in Stages
      BY <1>3, <1>6 DEF Stages
    <3>2. QED
      BY <1>2, <2>1, <3>1 DEF Operation
  <2>3. SoundOp(c)'
    BY <1>1, <1>2, <2>2, SMTT(30) DEF SoundOp
  <2>4. PICK r \in Records, a \in Attempts : r = o.on /\ a = o.attempt
    BY <1>1, <1>2, SMTT(30) DEF SoundOp
  <2>5. Held(r, a)'
    BY <1>3, <1>4, <1>6, <2>4, SMTT(30)
  <2>6. Held(c.on, c.attempt)'
    BY <2>2, <2>4, <2>5, SMTT(30)
  <2>7. QED
    BY <1>1, <1>2, <1>3, <1>4, <2>2, <2>3, <2>6, OwnMove
<1>7. QED
  BY <1>5, <1>6

\* The provider answers, or not; a cancelled probe is finished all the same.
LEMMA AnswerKeepsInv ==
  ASSUME WorkersInv, NEW w \in Calls, ProviderAnswers(w)
  PROVE  WorkersInv'
<1> DEFINE o == call[w]
<1>1. o.at = "probe" /\ UNCHANGED <<dbVars, orphan>>
  BY SMTT(30) DEF ProviderAnswers
<1>2. PICK finding \in Findings \cup {NoFinding} :
        \E c \in {[o EXCEPT !.at = "finish", !.finding = finding], Idle} : call' = [call EXCEPT ![w] = c]
  BY DEF ProviderAnswers, EnterFinalizer, Enter, Goto
<1>3. PICK c \in {[o EXCEPT !.at = "finish", !.finding = finding], Idle} : call' = [call EXCEPT ![w] = c]
  BY <1>2
<1>4. o \in Operation /\ SoundOp(o) /\ o # Idle
  BY <1>1, CallFacts, SMTT(30)
<1>5. c \in Operation /\ SoundOp(c) /\ c.at \in {"finish", "idle"} /\ c.attempt \in {None, o.attempt}
  <2>1. CASE c = Idle
    BY <2>1, CallFacts, SMTT(30)
  <2>2. CASE c = [o EXCEPT !.at = "finish", !.finding = finding]
    <3>1. c \in Operation /\ c.at = "finish" /\ c.on = o.on /\ c.attempt = o.attempt
      BY <1>4, <2>2 DEF Operation, Operations, Stages
    <3>2. QED
      BY <1>1, <1>4, <3>1, SMTT(30) DEF SoundOp
  <2>3. QED
    BY <2>1, <2>2, SMTT(30)
<1>6. QED
  BY <1>1, <1>3, <1>4, <1>5, ReadingMove

\* finish_attempt commits and the finding may be applied, or the conflict has to
\* be explained.
LEMMA FinishKeepsInv ==
  ASSUME WorkersInv, NEW w \in Calls, FinishesAttempt(w)
  PROVE  WorkersInv' /\ [AuthorityNext]_dbVars
<1>0. PICK o : o = call[w]
  BY SMTT(30)
<1>1. o.at = "finish" /\ Transaction(o) /\ orphan' = orphan /\ call[w] = o
  BY <1>0, SMTT(30) DEF FinishesAttempt
<1>2. o \in Operation /\ SoundOp(o) /\ o # Idle
  BY <1>1, CallFacts, SMTT(30)
<1>3. o.on \in Records /\ o.attempt \in Attempts /\ o.attempt # None /\ o.rev \in Nat
  BY <1>1, <1>2, SMTT(30) DEF SoundOp, Operation
<1>4. PICK c \in {[o EXCEPT !.at = "transition", !.rev = o.rev + 1], [o EXCEPT !.at = "verify"], Idle} :
        /\ call' = [call EXCEPT ![w] = c]
        /\ Applies(o) \/ c # [o EXCEPT !.at = "transition", !.rev = o.rev + 1] \/ c = Idle
  <2>1. CASE Applies(o)
    BY <1>1, <2>1, SMTT(30) DEF FinishesAttempt, EnterFinalizer, Enter, Goto
  <2>2. CASE ~Applies(o)
    <3>1. \E c \in {[o EXCEPT !.at = "verify"], Idle} : call' = [call EXCEPT ![w] = c]
      BY <1>1, <2>2, SMTT(30) DEF FinishesAttempt, EnterFinalizer, Enter, Goto
    <3>2. [o EXCEPT !.at = "verify"].at # [o EXCEPT !.at = "transition", !.rev = o.rev + 1].at
      BY <1>2, SMTT(30) DEF Operation
    <3>3. QED
      BY <3>1, <3>2
  <2>3. QED
    BY <2>1, <2>2, SMTT(30)
<1>5. /\ [AuthorityNext]_dbVars /\ LedgerKeeps({o.attempt})
      /\ Applies(o) => heads'[o.on].revision = o.rev + 1 /\ Unmatched(o.on)' = {}
  BY <1>1, <1>2, CallFacts, TransactionKeeps
<1>6. c \in Operation /\ c.attempt \in {None, o.attempt} /\ c.at # "probe" /\ SoundOp(c)'
  <2>1. CASE c = Idle
    BY <2>1, CallFacts, SMTT(30) DEF SoundOp
  <2>2. CASE c = [o EXCEPT !.at = "verify"]
    <3>1. c \in Operation /\ c.at = "verify" /\ c.on = o.on /\ c.attempt = o.attempt
      BY <1>2, <2>2 DEF Operation, Operations, Stages
    <3>2. QED
      BY <1>3, <3>1, SMTT(30) DEF SoundOp
  <2>3. CASE c = [o EXCEPT !.at = "transition", !.rev = o.rev + 1] /\ c # Idle
    <3>1. o.rev + 1 \in Nat
      BY <1>3, SMTT(30)
    <3>2. /\ c \in Operation /\ c.at = "transition" /\ c.on = o.on /\ c.attempt = o.attempt
          /\ c.rev = o.rev + 1
      BY <1>2, <2>3, <3>1 DEF Operation, Operations, Stages
    <3>3. heads'[o.on].revision = o.rev + 1 /\ Unmatched(o.on)' = {}
      BY <1>4, <1>5, <2>3, SMTT(30)
    <3>4. PICK r \in Records : r = o.on
      BY <1>3, SMTT(30)
    <3>5. heads'[r].revision = o.rev + 1 /\ Unmatched(r)' = {}
      BY <3>3, <3>4, SMTT(30)
    <3>6. c.rev <= heads'[r].revision /\ Unmatched(c.on)' = {} /\ c.on = r
      BY <3>1, <3>2, <3>4, <3>5, SMTT(30)
    <3>7. SoundOp(c)'
      BY <1>3, <3>2, <3>6, SMTT(30) DEF SoundOp
    <3>8. QED
      BY <3>2, <3>7, SMTT(30)
  <2>4. QED
    BY <2>1, <2>2, <2>3, SMTT(30)
<1>7. QED
  BY <1>1, <1>2, <1>3, <1>4, <1>5, <1>6, OwnMove

\* The last operation of a call, whatever comes of it.
LEMMA LastKeepsInv ==
  ASSUME WorkersInv, NEW w \in Calls, VerifyConflict(w) \/ AppendsTransition(w) \/ ResolvesManually(w)
  PROVE  WorkersInv' /\ [AuthorityNext]_dbVars
<1> DEFINE o == call[w]
<1>1. o \in Operation /\ SoundOp(o) /\ o # Idle
  BY CallFacts, SMTT(30) DEF VerifyConflict, AppendsTransition, ResolvesManually
<1>2. call' = [call EXCEPT ![w] = Idle] /\ orphan' = orphan
  BY SMTT(30) DEF VerifyConflict, AppendsTransition, ResolvesManually, Goto
<1>3. [AuthorityNext]_dbVars /\ LedgerKeeps({})
  <2>1. CASE VerifyConflict(w)
    BY <2>1, CallFacts, NoChangeKeeps DEF VerifyConflict, dbVars
  <2>2. CASE AppendsTransition(w) \/ ResolvesManually(w)
    <3>1. Transaction(o) /\ o.at \in {"transition", "resolve"}
      BY <2>2, SMTT(30) DEF AppendsTransition, ResolvesManually
    <3>2. QED
      BY <1>1, <3>1, CallFacts, TransactionKeeps
  <2>3. QED
    BY <2>1, <2>2, SMTT(30)
<1>4. PICK c \in Operation : c = Idle /\ c.at = "idle" /\ c.attempt = None
  BY CallFacts, SMTT(30)
<1>5. SoundOp(c)'
  BY <1>4, SMTT(30) DEF SoundOp
<1>6. QED
  BY <1>1, <1>2, <1>3, <1>4, <1>5, OwnMove

\* areconcile and aresolve_reconciliation begin.
LEMMA BeginKeepsInv ==
  ASSUME WorkersInv, NEW w \in Calls, NEW r \in Records, AReconcile(w, r) \/ AResolve(w, r)
  PROVE  WorkersInv'
<1>1. UNCHANGED <<dbVars, orphan>> /\ orphan[w] = NoOperation
  BY DEF AReconcile, AResolve
<1>2. PICK c : /\ call' = [call EXCEPT ![w] = c]
               /\ \/ c = [Idle EXCEPT !.at = "current", !.on = r]
                  \/ \E finding \in Findings :
                       c = [Idle EXCEPT !.at = "resolve", !.on = r, !.rev = heads[r].revision,
                                        !.finding = finding]
  BY DEF AReconcile, AResolve, Goto
<1>3. AuthorityInv /\ AuthorityTypeOK /\ OpenMeansUnknown /\ orphan \in [Calls -> Operation]
  BY SMTT(30) DEF WorkersInv, AuthorityInv, WorkersTypeOK
<1>4. heads[r].revision \in Nat
  BY <1>3, RevisionIsNat, SMTT(30)
<1>5. /\ c \in Operation /\ c.at \in {"current", "resolve"} /\ c.on = r /\ c.attempt = None
      /\ c.at = "resolve" => c.finding \in Findings
  <2>1. CASE c = [Idle EXCEPT !.at = "current", !.on = r]
    BY <2>1 DEF Idle, Operation, Operations, Stages
  <2>2. ASSUME NEW finding \in Findings,
               c = [Idle EXCEPT !.at = "resolve", !.on = r, !.rev = heads[r].revision,
                                !.finding = finding]
        PROVE  <1>5!1 /\ <1>5!2
    BY <1>4, <2>2 DEF Idle, Operation, Operations, Stages
  <2>3. QED
    BY <1>2, <2>1, <2>2
<1>6. SoundOp(c)'
  BY <1>5, SMTT(30) DEF SoundOp
<1>7. PICK n \in Operation : n = NoOperation /\ n.at = "idle" /\ n.attempt = None
  BY CallFacts, SMTT(30)
<1>8. SoundOp(n)' /\ orphan' = [orphan EXCEPT ![w] = n]
  BY <1>1, <1>3, <1>7, SMTT(30) DEF SoundOp
<1>9. LedgerKeeps({})
  BY <1>1, <1>3, NoChangeKeeps, SMTT(30) DEF dbVars
<1>10. Moves({}, w, c, n)
  BY <1>2, <1>5, <1>6, <1>7, <1>8, <1>9 DEF Moves
<1>11. AuthorityInv'
  BY <1>1, <1>3, StepPreservesInv, SMTT(30)
<1>12. QED
  BY <1>5, <1>7, <1>10, <1>11, CallMoves, SMTT(30)

\* A call gives up waiting for its operation, which goes on without it.
LEMMA LeftBehindKeepsInv ==
  ASSUME WorkersInv, NEW w \in Calls, call[w] # Idle, UNCHANGED dbVars,
         call' = [call EXCEPT ![w] = Idle], orphan' = [orphan EXCEPT ![w] = call[w]]
  PROVE  WorkersInv'
<1>1. AuthorityInv /\ AuthorityTypeOK /\ OpenMeansUnknown /\ HeldOnce /\ OpsAreSound /\ WorkersTypeOK
  BY SMTT(30) DEF WorkersInv, AuthorityInv
<1>2. PICK q \in Operation : q = call[w] /\ SoundOp(q)
  BY CallFacts, SMTT(30)
<1>3. PICK c \in Operation : c = Idle /\ c.at = "idle" /\ c.attempt = None
  BY CallFacts, SMTT(30)
<1>4. LedgerKeeps({})
  BY <1>1, NoChangeKeeps, SMTT(30) DEF dbVars
<1>5. SoundOp(c)'
  BY <1>3, SMTT(30) DEF SoundOp
<1>a. AuthorityInv' /\ AuthorityTypeOK'
  BY <1>1, StepPreservesInv, SMTT(30) DEF AuthorityInv
<1>6. SoundOp(q)'
  BY <1>1, <1>2, <1>4, <1>a, SoundOpKept, SMTT(30) DEF LedgerKeeps
<1>7. \A v \in Calls : v # w =>
        (q.attempt # None => q.attempt # call[v].attempt /\ q.attempt # orphan[v].attempt)
  BY <1>1, <1>2, SMTT(30) DEF HeldOnce
<1>8. orphan' = [orphan EXCEPT ![w] = q] /\ call' = [call EXCEPT ![w] = c]
  BY <1>2, <1>3, SMTT(30)
<1>9. Moves({}, w, c, q)
  BY <1>3, <1>4, <1>5, <1>6, <1>7, <1>8 DEF Moves
<1>10. QED
  BY <1>9, <1>a, CallMoves, SMTT(30)

\* An operation raises: the call is over and nothing was committed.
LEMMA RaiseKeepsInv ==
  ASSUME WorkersInv, NEW w \in Calls, OperationRaises(w)
  PROVE  WorkersInv'
<1>1. UNCHANGED <<dbVars, orphan>> /\ call[w].at \in Operations
  BY SMTT(30) DEF OperationRaises
<1>2. call[w] # Idle
  BY <1>1, CallFacts DEF Operations
<1>3. PICK c \in Operation : c = Idle /\ SoundOp(c) /\ c.at = "idle" /\ c.attempt = None
  BY CallFacts, SMTT(30)
<1>4. call' = [call EXCEPT ![w] = c]
  BY <1>3, SMTT(30) DEF OperationRaises, Goto
<1>5. QED
  BY <1>1, <1>2, <1>3, <1>4, ReadingMove

\* An operation outlives its timeout.
LEMMA TimeoutKeepsInv ==
  ASSUME WorkersInv, NEW w \in Calls, OperationTimesOut(w)
  PROVE  WorkersInv'
<1>1. call[w].at \in Operations /\ UNCHANGED dbVars
      /\ call' = [call EXCEPT ![w] = Idle] /\ orphan' = [orphan EXCEPT ![w] = call[w]]
  BY SMTT(30) DEF OperationTimesOut, Goto
<1>2. call[w] # Idle
  BY <1>1, CallFacts DEF Operations
<1>3. QED
  BY <1>1, <1>2, LeftBehindKeepsInv

\* The caller's task is cancelled: a probe is finished by the finalizer, which
\* is itself not interrupted; any other operation is left behind.
LEMMA CancelKeepsInv ==
  ASSUME WorkersInv, NEW w \in Calls, CancelCall(w)
  PROVE  WorkersInv'
<1> DEFINE o == call[w]
<1>1. o # Idle /\ UNCHANGED dbVars /\ o \in Operation /\ SoundOp(o)
  BY CallFacts, SMTT(30) DEF CancelCall
<1>2. CASE o.at = "probe"
  <2>1. UNCHANGED <<dbVars, orphan>>
    BY <1>1, <1>2, SMTT(30) DEF CancelCall
  <2>2. PICK c \in {[o EXCEPT !.at = "finish", !.cancelled = TRUE], Idle} :
          call' = [call EXCEPT ![w] = c]
    BY <1>2, SMTT(30) DEF CancelCall, EnterFinalizer, Enter, Goto
  <2>3. c \in Operation /\ SoundOp(c) /\ c.at \in {"finish", "idle"} /\ c.attempt \in {None, o.attempt}
    <3>1. CASE c = Idle
      BY <3>1, CallFacts, SMTT(30)
    <3>2. CASE c = [o EXCEPT !.at = "finish", !.cancelled = TRUE]
      <4>1. c \in Operation /\ c.at = "finish" /\ c.on = o.on /\ c.attempt = o.attempt
        BY <1>1, <3>2 DEF Operation, Operations, Stages
      <4>2. QED
        BY <1>1, <1>2, <4>1, SMTT(30) DEF SoundOp
    <3>3. QED
      BY <3>1, <3>2, SMTT(30)
  <2>4. QED
    BY <1>1, <2>1, <2>2, <2>3, ReadingMove
<1>3. CASE o.at # "probe" /\ Finalizing(w)
  <2>1. UNCHANGED <<dbVars, orphan>> /\ call' = [call EXCEPT ![w] = [o EXCEPT !.cancelled = TRUE]]
    BY <1>1, <1>3, SMTT(30) DEF CancelCall, Goto
  <2>2. PICK c : c = [o EXCEPT !.cancelled = TRUE]
    OBVIOUS
  <2>3. c \in Operation /\ c.at = o.at /\ c.on = o.on /\ c.attempt = o.attempt /\ c.at \in {"finish", "verify"}
    BY <1>1, <1>3, <2>2 DEF Operation, Finalizing
  <2>4. SoundOp(c)
    BY <1>1, <2>3 DEF SoundOp
  <2>5. QED
    BY <1>1, <2>1, <2>2, <2>3, <2>4, ReadingMove
<1>4. CASE o.at # "probe" /\ ~Finalizing(w)
  <2>1. call' = [call EXCEPT ![w] = Idle] /\ orphan' = [orphan EXCEPT ![w] = o]
    BY <1>4, SMTT(30) DEF CancelCall, Goto
  <2>2. QED
    BY <1>1, <2>1, LeftBehindKeepsInv
<1>5. QED
  BY <1>2, <1>3, <1>4, SMTT(30)

\* The operation that was left behind ends.
LEMMA OrphanKeepsInv ==
  ASSUME WorkersInv, NEW w \in Calls, OrphanCommits(w)
  PROVE  WorkersInv' /\ [AuthorityNext]_dbVars
<1>1. PICK o \in Operation : o = orphan[w] /\ SoundOp(o)
  BY CallFacts, SMTT(30)
<1>2. Transaction(o) /\ o # NoOperation /\ call' = call /\ orphan' = [orphan EXCEPT ![w] = NoOperation]
  BY <1>1, SMTT(30) DEF OrphanCommits
<1>3. AuthorityInv /\ OpenMeansUnknown /\ HeldOnce /\ WorkersTypeOK /\ call[w] = Idle
  BY <1>1, <1>2, CallFacts, SMTT(30) DEF WorkersInv
<1>4. PICK S : S = IF o.at = "finish" THEN {o.attempt} ELSE {}
  OBVIOUS
<1>5. [AuthorityNext]_dbVars /\ LedgerKeeps(S)
  BY <1>1, <1>2, <1>3, <1>4, TransactionKeeps
<1>6. AuthorityInv'
  BY <1>3, <1>5, StepPreservesInv, SMTT(30)
<1>7. PICK n \in Operation : n = NoOperation /\ n = Idle /\ n.at = "idle" /\ n.attempt = None
  BY CallFacts, SMTT(30)
<1>8. SoundOp(n)'
  BY <1>7, SMTT(30) DEF SoundOp
<1>9. \A v \in Calls : v # w => call[v].attempt \notin S
  <2>1. o.at = "finish" => o.attempt # None
    BY <1>1, SMTT(30) DEF SoundOp
  <2>2. \A v \in Calls : v # w => (call[v].attempt # None => call[v].attempt # o.attempt)
    BY <1>1, <1>3, SMTT(30) DEF HeldOnce
  <2>3. QED
    BY <1>4, <2>1, <2>2, SMTT(30)
<1>10. call' = [call EXCEPT ![w] = n] /\ orphan' = [orphan EXCEPT ![w] = n]
  BY <1>2, <1>3, <1>7, SMTT(30) DEF WorkersTypeOK
<1>11. Moves(S, w, n, n)
  BY <1>5, <1>7, <1>8, <1>9, <1>10, SMTT(30) DEF Moves
<1>12. QED
  BY <1>5, <1>6, <1>7, <1>11, CallMoves, SMTT(30)

\* A process dies, an execution becomes UNKNOWN, or a deadline passes.
LEMMA EnvironmentKeepsInv ==
  ASSUME WorkersInv, (\E p \in Processes : CrashProcess(p)) \/ Unresolved \/ LeaseOfAttemptLapses
  PROVE  WorkersInv' /\ [AuthorityNext]_dbVars
<1>1. AuthorityInv /\ AuthorityTypeOK /\ OpenMeansUnknown /\ WorkersTypeOK
  BY SMTT(30) DEF WorkersInv, AuthorityInv
<1>2. Idle \in Operation /\ NoOperation = Idle
  <2>1. None \in Records \cup {None} /\ None \in Attempts \cup {None} /\ 0 \in Nat
        /\ NoFinding \in Findings \cup {NoFinding} /\ FALSE \in BOOLEAN /\ "idle" \in Stages
    BY SMTT(30) DEF Stages
  <2>2. QED
    BY <2>1, SMTT(30) DEF Idle, NoOperation, Operation
<1>3. LedgerKeeps({}) /\ [AuthorityNext]_dbVars
  <2>1. CASE \E p \in Processes : CrashProcess(p)
    BY <1>1, <2>1, NoChangeKeeps, SMTT(30) DEF CrashProcess, dbVars
  <2>2. CASE Unresolved
    BY <1>1, <2>2, UnresolvedKeeps, SMTT(30)
  <2>3. CASE LeaseOfAttemptLapses
    BY <1>1, <2>3, LapseKeeps, SMTT(30)
  <2>4. QED
    BY <2>1, <2>2, <2>3, SMTT(30)
<1>4. AuthorityInv'
  BY <1>1, <1>3, StepPreservesInv, SMTT(30)
<1>5. /\ WorkersTypeOK'
      /\ \A v \in Calls : call'[v] \in {call[v], Idle} /\ orphan'[v] \in {orphan[v], NoOperation}
  <2>1. CASE \E p \in Processes : CrashProcess(p)
    BY <1>1, <1>2, <2>1, SMTT(30) DEF CrashProcess, WorkersTypeOK
  <2>2. CASE Unresolved \/ LeaseOfAttemptLapses
    BY <1>1, <2>2, SMTT(30) DEF Unresolved, LeaseOfAttemptLapses, workerVars, WorkersTypeOK
  <2>3. QED
    BY <2>1, <2>2, SMTT(30)
<1>6. QED
  BY <1>3, <1>4, <1>5, CallsEnd, SMTT(30)

-----------------------------------------------------------------------------
(* The theorems.                                                           *)

\* Nothing is under way when the processes start.
LEMMA WorkersInitInv == WorkersInit => WorkersInv
<1> SUFFICES ASSUME WorkersInit PROVE WorkersInv
  BY SMTT(30)
<1>1. AuthorityInv /\ AuthorityInit
  BY InitEstablishesInv, SMTT(30) DEF WorkersInit
<1>2. Idle \in Operation /\ NoOperation = Idle /\ Idle.at = "idle" /\ Idle.attempt = None
  <2>1. None \in Records \cup {None} /\ None \in Attempts \cup {None} /\ 0 \in Nat
        /\ NoFinding \in Findings \cup {NoFinding} /\ FALSE \in BOOLEAN /\ "idle" \in Stages
    BY SMTT(30) DEF Stages
  <2>2. QED
    BY <2>1, SMTT(30) DEF Idle, NoOperation, Operation
<1>3. \A w \in Calls : call[w] = Idle /\ orphan[w] = Idle
  BY <1>2, SMTT(30) DEF WorkersInit
<1>4. WorkersTypeOK
  BY <1>2, SMTT(30) DEF WorkersInit, WorkersTypeOK
<1>5. SoundOp(Idle)
  BY <1>2, SMTT(30) DEF SoundOp
<1>6. OpsAreSound /\ HeldOnce /\ ProbesHold
  BY <1>2, <1>3, <1>5, SMTT(30) DEF OpsAreSound, HeldOnce, ProbesHold
<1>7. OpenMeansUnknown
  <2>1. \A r \in Records, a \in Attempts : attempts[r][a].status = "none"
    BY <1>1, SMTT(30) DEF AuthorityInit, NoAttempt
  <2>2. QED
    BY <2>1, SMTT(30) DEF OpenMeansUnknown, Unmatched
<1>8. QED
  BY <1>1, <1>4, <1>6, <1>7, SMTT(30) DEF WorkersInv

\* Every step of a call, of what it leaves behind or of the world keeps the
\* invariant, and is one transaction of the authority or none.
LEMMA WorkersStep ==
  ASSUME WorkersInv, [WorkersNext]_allVars
  PROVE  WorkersInv' /\ [AuthorityNext]_dbVars
<1>1. ASSUME NEW w \in Calls, Step(w)
      PROVE  WorkersInv' /\ [AuthorityNext]_dbVars
  <2>1. CASE ReadHead(w) \/ ReadHeadAgain(w) \/ ProviderAnswers(w)
    <3>1. UNCHANGED dbVars
      BY <2>1 DEF ReadHead, ReadHeadAgain, ProviderAnswers
    <3>2. QED
      BY <2>1, <3>1, ReadHeadKeepsInv, ReadHeadAgainKeepsInv, AnswerKeepsInv, SMTT(30)
  <2>2. CASE RecoverUnfinishedAttempts(w)
    BY <2>2, RecoverKeepsInv, SMTT(30)
  <2>3. CASE StartsAttempt(w)
    BY <2>3, StartKeepsInv, SMTT(30)
  <2>4. CASE FinishesAttempt(w)
    BY <2>4, FinishKeepsInv, SMTT(30)
  <2>5. CASE VerifyConflict(w) \/ AppendsTransition(w) \/ ResolvesManually(w)
    BY <2>5, LastKeepsInv, SMTT(30)
  <2>6. QED
    BY <1>1, <2>1, <2>2, <2>3, <2>4, <2>5, SMTT(30) DEF Step
<1>2. ASSUME NEW w \in Calls, NEW r \in Records, AReconcile(w, r) \/ AResolve(w, r)
      PROVE  WorkersInv' /\ [AuthorityNext]_dbVars
  <2>1. UNCHANGED dbVars
    BY <1>2 DEF AReconcile, AResolve
  <2>2. QED
    BY <1>2, <2>1, BeginKeepsInv, SMTT(30)
<1>3. ASSUME NEW w \in Calls, OperationTimesOut(w) \/ OperationRaises(w) \/ CancelCall(w)
      PROVE  WorkersInv' /\ [AuthorityNext]_dbVars
  <2>1. UNCHANGED dbVars
    BY <1>3, SMTT(30) DEF OperationTimesOut, OperationRaises, CancelCall
  <2>2. QED
    BY <1>3, <2>1, TimeoutKeepsInv, RaiseKeepsInv, CancelKeepsInv, SMTT(30)
<1>4. ASSUME NEW w \in Calls, OrphanCommits(w)
      PROVE  WorkersInv' /\ [AuthorityNext]_dbVars
  BY <1>4, OrphanKeepsInv, SMTT(30)
<1>5. CASE (\E p \in Processes : CrashProcess(p)) \/ Unresolved \/ LeaseOfAttemptLapses
  BY <1>5, EnvironmentKeepsInv, SMTT(30)
<1>6. CASE UNCHANGED allVars
  <2>1. UNCHANGED dbVars /\ call' = call /\ orphan' = orphan
    BY <1>6, SMTT(30) DEF allVars, workerVars
  <2>2. AuthorityInv /\ AuthorityTypeOK /\ OpenMeansUnknown /\ WorkersTypeOK
    BY SMTT(30) DEF WorkersInv, AuthorityInv
  <2>3. LedgerKeeps({}) /\ AuthorityInv'
    BY <2>1, <2>2, NoChangeKeeps, StepPreservesInv, SMTT(30) DEF dbVars
  <2>4. WorkersTypeOK'
    BY <2>1, <2>2, SMTT(30) DEF WorkersTypeOK
  <2>5. QED
    BY <2>1, <2>3, <2>4, CallsEnd, SMTT(30)
<1>7. QED
  BY <1>1, <1>2, <1>3, <1>4, <1>5, <1>6, SMTT(30) DEF WorkersNext

\* The invariant holds in every state that calls, faults and crashes can reach.
THEOREM WorkersInvHolds == WorkersSpec => []WorkersInv
<1>1. WorkersInit => WorkersInv
  BY WorkersInitInv, SMTT(30)
<1>2. WorkersInv /\ [WorkersNext]_allVars => WorkersInv'
  BY WorkersStep, SMTT(30)
<1>3. QED
  BY <1>1, <1>2, PTL DEF WorkersSpec

\* areconcile and aresolve_reconciliation, with their timeouts, their
\* cancellations, the threads they leave behind and the crashes of their
\* processes, change the store only by the transactions of Authority: whatever
\* AuthorityProofs proves of the store holds under them.
THEOREM WorkersImplementAuthority == WorkersSpec => AuthoritySpec
<1>1. WorkersInit => AuthorityInit
  BY SMTT(30) DEF WorkersInit
<1>2. WorkersInv /\ [WorkersNext]_allVars => [AuthorityNext]_dbVars
  BY WorkersStep, SMTT(30)
<1>3. QED
  BY <1>1, <1>2, WorkersInvHolds, PTL DEF WorkersSpec, AuthoritySpec

\* Two calls probe the provider for one execution at the same time only when the
\* deadline of one of them has passed: start_attempt refuses a second open
\* attempt, and recover_unfinished_attempts closes one only after its deadline.
THEOREM ProbesNeverOverlap == WorkersSpec => []ProbesAreExclusive
<1>1. ASSUME WorkersInv PROVE ProbesAreExclusive
  <2>1. ASSUME NEW v \in Calls, NEW w \in Calls, v # w, call[v].at = "probe", call[w].at = "probe",
               call[v].on = call[w].on
        PROVE  \E u \in {v, w} : attempts[call[u].on][call[u].attempt].deadline = "lapsed"
    <3>1. PICK r \in Records, a \in Attempts, b \in Attempts :
            /\ call[v].on = r /\ call[w].on = r /\ call[v].attempt = a /\ call[w].attempt = b
            /\ a # None
      BY <1>1, <2>1, SMTT(30) DEF WorkersInv, OpsAreSound, SoundOp
    <3>2. a # b
      BY <1>1, <2>1, <3>1, SMTT(30) DEF WorkersInv, HeldOnce
    <3>3. Held(r, a) /\ Held(r, b)
      BY <1>1, <2>1, <3>1, SMTT(30) DEF WorkersInv, ProbesHold
    <3>4. ~(attempts[r][a].status = "started" /\ attempts[r][b].status = "started")
      BY <1>1, <3>2, SMTT(30) DEF WorkersInv, AuthorityInv, OneOpenAttempt, Unmatched
    <3>5. attempts[r][a].deadline = "lapsed" \/ attempts[r][b].deadline = "lapsed"
      BY <3>3, <3>4, SMTT(30) DEF Held
    <3>6. QED
      BY <3>1, <3>5, SMTT(30)
  <2>2. QED
    BY <2>1, SMTT(30) DEF ProbesAreExclusive
<1>2. QED
  BY <1>1, WorkersInvHolds, PTL

\* An execution has an open attempt only while its head says UNKNOWN: no outcome
\* is recorded, by a call or by a thread left behind, under an attempt that could
\* still report another one.
THEOREM OpenAttemptsAreUnknown == WorkersSpec => []OpenMeansUnknown
<1>1. WorkersInv => OpenMeansUnknown
  BY SMTT(30) DEF WorkersInv
<1>2. QED
  BY <1>1, WorkersInvHolds, PTL
=============================================================================
