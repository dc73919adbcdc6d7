------------------------ MODULE ReconciliationWorkers ------------------------
(* Calls of Runtime.areconcile and aresolve_reconciliation in several         *)
(* processes against the ledger of one database.  Every ledger operation is    *)
(* one transaction of Authority, carried out by a worker thread: the call that *)
(* awaits it may time out, be cancelled or die, and the transaction may still  *)
(* be committed.  Between two operations a call knows no more than the         *)
(* revision it last saw.                                                       *)
EXTENDS Authority

CONSTANTS
    Calls,          \* callers, each with one call at a time
    Processes,
    Placements,     \* the ways to run the callers in processes
    MaxFaults       \* bound on timeouts, errors, cancellations and crashes

ASSUME CallConstants ==
    /\ Placements \subseteq [Calls -> Processes]
    /\ MaxFaults \in Nat

VARIABLES
    place,      \* the process of each caller, fixed
    call,       \* the calls
    orphan,     \* the operation a call no longer waits for
    poison,     \* _reconciliation_poison, by process
    faults

workerVars == <<place, call, orphan, poison, faults>>

\* A call is at "probe" while it awaits its provider; at every other stage it
\* has passed the poison check and awaits the ledger operation of that name.
Operations == {"current", "recover", "current again", "start", "finish", "verify",
               "transition", "resolve"}

Idle == [at |-> "idle", on |-> None, rev |-> 0, attempt |-> None,
         finding |-> NoFinding, cancelled |-> FALSE]

NoOperation == Idle

WorkersInit ==
    /\ AuthorityInit
    /\ place \in Placements
    /\ call = [w \in Calls |-> Idle]
    /\ orphan = [w \in Calls |-> NoOperation]
    /\ poison = [p \in Processes |-> FALSE]
    /\ faults = 0

-----------------------------------------------------------------------------
(* Faults, and the ledger's channel in a process.                                       *)

Fault == faults < MaxFaults /\ faults' = faults + 1

\* Closed for good after a timeout, and while the operation of a cancelled call
\* is still running.
Open(p) ==
    /\ ~poison[p]
    /\ \A w \in Calls : place[w] = p => orphan[w] = NoOperation

Goto(w, c) == call' = [call EXCEPT ![w] = c]

\* The next operation of a call, refused if the channel is closed.
Enter(w, c) == Goto(w, IF Open(place[w]) THEN c ELSE Idle)

\* The operations of a finalizer: if the channel is closed the finalizer fails,
\* and its failure poisons the ledger.
EnterFinalizer(w, c) ==
    /\ Enter(w, c)
    /\ poison' = [poison EXCEPT ![place[w]] = @ \/ ~Open(place[w])]

-----------------------------------------------------------------------------
(* The transactions.                                                           *)

Commits(o) ==
    \/ o.at = "recover" /\ RecoverUnfinished(o.on)
    \/ o.at = "start" /\ StartAttempt(o.on, o.attempt, o.rev)
    \/ o.at = "finish" /\ FinishAttempt(o.on, o.attempt, o.rev, o.finding)
    \/ o.at = "transition" /\ ProviderTransition(o.on, o.attempt, o.rev, o.finding)
    \/ o.at = "resolve" /\ ManualTransition(o.on, o.rev, o.finding)

\* Whether the operation changes the ledger; otherwise it raises or only reads.
Applies(o) == ENABLED Commits(o)

Transaction(o) == IF Applies(o) THEN Commits(o) ELSE UNCHANGED dbVars

-----------------------------------------------------------------------------
(* areconcile.                                                                 *)

AReconcile(w, r) ==
    /\ call[w] = Idle /\ orphan[w] = NoOperation
    /\ heads[r] # NoHead
    /\ Open(place[w])
    /\ Goto(w, [Idle EXCEPT !.at = "current", !.on = r])
    /\ UNCHANGED <<dbVars, place, orphan, poison, faults>>

\* The first look, after which the outbox is drained, which may fail.
ReadHead(w) ==
    /\ call[w].at = "current"
    /\ \/ /\ heads[call[w].on].state = "UNKNOWN"
          /\ Enter(w, [call[w] EXCEPT !.at = "recover"])
          /\ UNCHANGED faults
       \/ /\ heads[call[w].on].state # "UNKNOWN"
          /\ Goto(w, Idle)
          /\ UNCHANGED faults
       \/ Fault /\ Goto(w, Idle)
    /\ UNCHANGED <<dbVars, place, orphan, poison>>

\* Mutant: an unfinished attempt is respected for ever.
RecoverNothing(w) ==
    /\ call[w].at = "recover"
    /\ IF Unmatched(call[w].on) # {}
       THEN Goto(w, Idle)
       ELSE Enter(w, [call[w] EXCEPT !.at = "current again"])
    /\ UNCHANGED <<dbVars, place, orphan, poison, faults>>

\* Expired attempts are closed and the action quarantined; a valid one of
\* another call is left alone.  Both end this call.
RecoverUnfinishedAttempts(w) ==
    /\ call[w].at = "recover"
    /\ Transaction(call[w])
    /\ IF Unmatched(call[w].on) # {}
       THEN Goto(w, Idle)
       ELSE Enter(w, [call[w] EXCEPT !.at = "current again"])
    /\ UNCHANGED <<place, orphan, poison, faults>>

\* Attempt ids are generated, so never used twice.
FreshAttempts(r) ==
    {a \in Attempts :
        /\ attempts[r][a] = NoAttempt
        /\ \A w \in Calls : call[w].attempt # a /\ orphan[w].attempt # a}

\* The second look: the head may have changed since the first.
ReadHeadAgain(w) ==
    /\ call[w].at = "current again"
    /\ LET h == heads[call[w].on]
       IN  IF h.state # "UNKNOWN" \/ FreshAttempts(call[w].on) = {}
           THEN Goto(w, Idle)
           ELSE \E a \in FreshAttempts(call[w].on) :
                    Enter(w, [call[w] EXCEPT !.at = "start", !.rev = h.revision, !.attempt = a])
    /\ UNCHANGED <<dbVars, place, orphan, poison, faults>>

StartsAttempt(w) ==
    /\ call[w].at = "start"
    /\ Transaction(call[w])
    /\ Goto(w, IF Applies(call[w]) THEN [call[w] EXCEPT !.at = "probe", !.rev = @ + 1] ELSE Idle)
    /\ UNCHANGED <<place, orphan, poison, faults>>

\* The provider's finding; without one (no provider, timeout, error) the attempt
\* is finished all the same.
ProviderAnswers(w) ==
    /\ call[w].at = "probe"
    /\ \E finding \in Findings \cup {NoFinding} :
          EnterFinalizer(w, [call[w] EXCEPT !.at = "finish", !.finding = finding])
    /\ UNCHANGED <<dbVars, place, orphan, faults>>

\* finish_attempt by the shielded finalizer; a conflict has to be explained.
FinishesAttempt(w) ==
    /\ call[w].at = "finish"
    /\ Transaction(call[w])
    /\ IF ~Applies(call[w])
       THEN EnterFinalizer(w, [call[w] EXCEPT !.at = "verify"])
       ELSE /\ IF call[w].cancelled \/ call[w].finding = NoFinding
               THEN Goto(w, Idle)
               ELSE Enter(w, [call[w] EXCEPT !.at = "transition", !.rev = @ + 1])
            /\ UNCHANGED poison
    /\ UNCHANGED <<place, orphan, faults>>

\* A conflict without a writer that moved the head on is a broken ledger.
VerifyConflict(w) ==
    /\ call[w].at = "verify"
    /\ LET h == heads[call[w].on]
       IN  poison' = [poison EXCEPT ![place[w]] =
                         @ \/ (h.state = "UNKNOWN" /\ h.revision <= call[w].rev)]
    /\ Goto(w, Idle)
    /\ UNCHANGED <<dbVars, place, orphan, faults>>

\* Mutant: the transition is appended to whatever revision the head has now.
AppendToLatest(w) ==
    /\ call[w].at = "transition"
    /\ Transaction([call[w] EXCEPT !.rev = heads[call[w].on].revision])
    /\ Goto(w, Idle)
    /\ UNCHANGED <<place, orphan, poison, faults>>

\* The finding is applied at the revision of the call's own finish, or not at all.
AppendsTransition(w) ==
    /\ call[w].at = "transition"
    /\ Transaction(call[w])
    /\ Goto(w, Idle)
    /\ UNCHANGED <<place, orphan, poison, faults>>

-----------------------------------------------------------------------------
(* aresolve_reconciliation: an operator decides on the head they have seen.    *)

AResolve(w, r) ==
    /\ call[w] = Idle /\ orphan[w] = NoOperation
    /\ heads[r].state = "MANUAL_REVIEW"
    /\ Open(place[w])
    /\ \E finding \in {f \in Findings : f.state \in Confirmed} :
          Goto(w, [Idle EXCEPT !.at = "resolve", !.on = r, !.rev = heads[r].revision,
                               !.finding = finding])
    /\ UNCHANGED <<dbVars, place, orphan, poison, faults>>

ResolvesManually(w) ==
    /\ call[w].at = "resolve"
    /\ Transaction(call[w])
    /\ Goto(w, Idle)
    /\ UNCHANGED <<place, orphan, poison, faults>>

-----------------------------------------------------------------------------
(* Faults.                                                                     *)

Finalizing(w) == call[w].at \in {"finish", "verify"}

\* The ledger is disabled for the process, and the operation runs on.
OperationTimesOut(w) ==
    /\ call[w].at \in Operations
    /\ Fault
    /\ orphan' = [orphan EXCEPT ![w] = call[w]]
    /\ poison' = [poison EXCEPT ![place[w]] = TRUE]
    /\ Goto(w, Idle)
    /\ UNCHANGED <<dbVars, place>>

\* The operation fails without effect; in a finalizer this poisons the ledger.
OperationRaises(w) ==
    /\ call[w].at \in Operations
    /\ Fault
    /\ poison' = [poison EXCEPT ![place[w]] = @ \/ Finalizing(w)]
    /\ Goto(w, Idle)
    /\ UNCHANGED <<dbVars, place, orphan>>

\* A started attempt is finished although its caller has gone; any other
\* operation is left to its thread, and the channel closed until it is done.
CancelCall(w) ==
    /\ call[w] # Idle /\ ~call[w].cancelled
    /\ Fault
    /\ IF call[w].at = "probe"
       THEN EnterFinalizer(w, [call[w] EXCEPT !.at = "finish", !.cancelled = TRUE])
                /\ UNCHANGED orphan
       ELSE IF Finalizing(w)
       THEN Goto(w, [call[w] EXCEPT !.cancelled = TRUE]) /\ UNCHANGED <<orphan, poison>>
       ELSE /\ orphan' = [orphan EXCEPT ![w] = call[w]]
            /\ Goto(w, Idle)
            /\ UNCHANGED poison
    /\ UNCHANGED <<dbVars, place>>

OrphanCommits(w) ==
    /\ orphan[w] # NoOperation
    /\ Transaction(orphan[w])
    /\ orphan' = [orphan EXCEPT ![w] = NoOperation]
    /\ UNCHANGED <<place, call, poison, faults>>

\* The process dies and is started again.
CrashProcess(p) ==
    /\ Fault
    /\ call' = [w \in Calls |-> IF place[w] = p THEN Idle ELSE call[w]]
    /\ orphan' = [w \in Calls |-> IF place[w] = p THEN NoOperation ELSE orphan[w]]
    /\ poison' = [poison EXCEPT ![p] = FALSE]
    /\ UNCHANGED <<dbVars, place>>

\* An execution ends with an unknown outcome.
Unresolved ==
    /\ \E r \in Records :
          \/ \E k \in Keys, f \in Fingerprints : Claim(r, k, f)
          \/ RecordUnknown(r)
    /\ UNCHANGED workerVars

LeaseOfAttemptLapses ==
    /\ \E r \in Records, a \in Attempts : DeadlineLapses(r, a)
    /\ UNCHANGED workerVars

-----------------------------------------------------------------------------

Step(w) ==
    \/ ReadHead(w) \/ RecoverUnfinishedAttempts(w) \/ ReadHeadAgain(w)
    \/ StartsAttempt(w) \/ ProviderAnswers(w) \/ FinishesAttempt(w) \/ VerifyConflict(w)
    \/ AppendsTransition(w) \/ ResolvesManually(w)

WorkersNext ==
    \/ \E w \in Calls :
          \/ Step(w)
          \/ \E r \in Records : AReconcile(w, r) \/ AResolve(w, r)
          \/ OperationTimesOut(w) \/ OperationRaises(w) \/ CancelCall(w) \/ OrphanCommits(w)
    \/ \E p \in Processes : CrashProcess(p)
    \/ Unresolved \/ LeaseOfAttemptLapses

allVars == <<dbVars, workerVars>>

WorkersSpec == WorkersInit /\ [][WorkersNext]_allVars

\* Calls go on within their stage timeouts, threads finish their operation,
\* clocks advance, and somebody keeps asking for reconciliation.
WorkersFairness ==
    /\ \A w \in Calls :
          /\ WF_allVars(Step(w))
          /\ WF_allVars(OrphanCommits(w))
          /\ \A r \in Records : SF_allVars(AReconcile(w, r))
    /\ WF_allVars(LeaseOfAttemptLapses)

-----------------------------------------------------------------------------

\* "A second runtime must not probe while that attempt deadline is valid": two
\* calls await a provider for one execution only if the deadline of one of
\* their attempts has passed.
ProbesAreExclusive ==
    \A v, w \in Calls :
        /\ v # w /\ call[v].at = "probe" /\ call[w].at = "probe" /\ call[v].on = call[w].on
        => \E u \in {v, w} : attempts[call[u].on][call[u].attempt].deadline = "lapsed"

\* What recover_unfinished_attempts asserts: an attempt is open only under an
\* UNKNOWN head.  The ledger alone does not ensure it; it takes calls that
\* apply a finding at the revision of their own finish.
OpenMeansUnknown ==
    \A r \in Records : Unmatched(r) # {} => heads[r].state = "UNKNOWN"

\* No attempt stays open: whoever started it finishes it, or, once its deadline
\* has passed, somebody else closes it, as long as one of the calls' processes
\* can still use the ledger.  (Again and again none is open: a started attempt
\* is never started again.)
AttemptsAreClosed ==
    []<>(\A r \in Records, a \in Attempts :
            attempts[r][a].status = "started" => \A w \in Calls : poison[place[w]])
=============================================================================
