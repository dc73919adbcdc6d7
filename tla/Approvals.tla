------------------------------ MODULE Approvals ------------------------------
(* Human approval of a tool call: the SQLite approval store, the              *)
(* DecisionMiddleware in front of it and the places where the runtime commits *)
(* or releases what the middleware reserved.                                  *)
(*                                                                            *)
(* Every store operation is one BEGIN IMMEDIATE transaction, performed on a    *)
(* worker thread while the execution awaits it.  The execution may stop       *)
(* waiting (stage timeout, cancellation, process death); the transaction then  *)
(* happens later without anybody to hear of it, or never.                     *)
EXTENDS FiniteSets

CONSTANTS
    Requests,       \* request ids
    Executions,     \* executions, each with a trace id of its own
    Contents,       \* what a request binds: tool, arguments, policy, subject...
    RequestOf,      \* the request id an execution was given
    ContentOf,      \* what its own ApprovalRequest says
    Provided,       \* executions whose middleware has a decision provider
    None

ASSUME ApprovalConstants ==
    /\ RequestOf \in [Executions -> Requests]
    /\ ContentOf \in [Executions -> Contents]
    /\ Provided \subseteq Executions
    /\ None \notin Contents \cup Executions
    /\ None \notin {"allow", "deny", "pending", "decide", "reserve", "commit", "release"}

VARIABLES
    row,        \* the table approvals
    stage,      \* where each execution stands
    proposal,   \* the provider's decision on its way to the store
    orphan,     \* the store call an execution no longer waits for
    kept,       \* DecisionMiddleware._reservations, by execution
    started     \* executions whose tool body has begun

approvalVars == <<row, stage, proposal, orphan, kept, started>>

\* An ALLOW is only honoured with an approver; the approver's name is not kept.
Decision == [outcome : {"allow", "deny"}, approver : BOOLEAN]
NoDecision == [outcome |-> None, approver |-> FALSE]

\* A decision never outlives its request, so it is the first to expire.
Ages == {"fresh", "decision expired", "request expired"}

Row == [status : {"absent", "pending", "decided", "consumed"},
        content : Contents \cup {None},
        decision : Decision \cup {NoDecision},
        token : Executions \cup {None},
        lapsed : BOOLEAN,
        age : Ages,
        consumer : Executions \cup {None}]

NoRow == [status |-> "absent", content |-> None, decision |-> NoDecision,
          token |-> None, lapsed |-> FALSE, age |-> "fresh", consumer |-> None]

Waiting == {"pending", "decide", "reserve", "commit", "release"}
Ended == {"denied", "failed closed", "stopped", "finished"}
Stages == Waiting \cup Ended \cup {"ask", "granted", "committed", "running"}

ApprovalInit ==
    /\ row = [q \in Requests |-> NoRow]
    /\ stage = [e \in Executions |-> "pending"]
    /\ proposal = [e \in Executions |-> NoDecision]
    /\ orphan = [e \in Executions |-> None]
    /\ kept = [e \in Executions |-> FALSE]
    /\ started = {}

-----------------------------------------------------------------------------
(* The store's transactions, as what each leaves in the row.                   *)

Mine(e) == row[RequestOf[e]]

ValidateRequest(e) == Mine(e).content = ContentOf[e]

\* pending: the first request of an id is recorded, a later one is compared.
Pended(e) ==
    IF Mine(e).status = "absent"
    THEN [Mine(e) EXCEPT !.status = "pending", !.content = ContentOf[e]]
    ELSE Mine(e)

\* Mutant: a later decision replaces an earlier one.
DecidableAgain(q) ==
    row[q].status \in {"pending", "decided"} /\ row[q].age # "request expired"

\* decide: refused once decided, consumed or expired.
Decidable(q) == row[q].status = "pending" /\ row[q].age # "request expired"
Decided(q, d) == [row[q] EXCEPT !.status = "decided", !.decision = d]

\* A token is a fresh secret; one execution reserves at most once, so the
\* execution stands for it.
LiveReservation(q) == row[q].token # None /\ ~row[q].lapsed

Holds(e) == Mine(e).token = e /\ LiveReservation(RequestOf[e])

Reservable(e) ==
    /\ Mine(e).status = "decided"
    /\ ValidateRequest(e)
    /\ Mine(e).age = "fresh"
    /\ ~LiveReservation(RequestOf[e])

Reserved(e) ==
    IF Reservable(e)
    THEN [Mine(e) EXCEPT !.token = e, !.lapsed = FALSE]
    ELSE Mine(e)

Committable(e) ==
    /\ Mine(e).status = "decided"
    /\ ValidateRequest(e)
    /\ Holds(e)

ClearReservation(q) == [row[q] EXCEPT !.token = None, !.lapsed = FALSE]

\* Mutant: the commit leaves the reservation in the row.
CommittedStillReserved(e) ==
    IF Committable(e)
    THEN [Mine(e) EXCEPT !.status = "consumed", !.consumer = e]
    ELSE Mine(e)

\* A commit that comes after its lease clears the reservation and denies.
Committed(e) ==
    IF Committable(e)
    THEN [ClearReservation(RequestOf[e]) EXCEPT !.status = "consumed", !.consumer = e]
    ELSE IF Mine(e).status = "decided" /\ Mine(e).token = e
         THEN ClearReservation(RequestOf[e])
         ELSE Mine(e)

Released(e) ==
    IF Mine(e).status # "consumed" /\ Mine(e).token = e
    THEN ClearReservation(RequestOf[e])
    ELSE Mine(e)

Put(e, r) == row' = [row EXCEPT ![RequestOf[e]] = r]

-----------------------------------------------------------------------------
(* DecisionMiddleware.process.                                                 *)

MoveTo(e, s) == stage' = [stage EXCEPT ![e] = s]

Pending(e) ==
    /\ stage[e] = "pending"
    /\ Put(e, Pended(e))
    /\ MoveTo(e, IF Mine(e).status # "absent" /\ ~ValidateRequest(e) THEN "denied"
               ELSE IF e \in Provided THEN "ask" ELSE "reserve")
    /\ UNCHANGED <<proposal, orphan, kept, started>>

\* The provider's answer; a timeout, an invalid answer and REQUIRE_HUMAN are
\* turned into a denial.
ProviderDecides(e) ==
    /\ stage[e] = "ask"
    /\ \E d \in Decision : proposal' = [proposal EXCEPT ![e] = d]
    /\ MoveTo(e, "decide")
    /\ UNCHANGED <<row, orphan, kept, started>>

\* The recorded decision itself may be recorded again.  A decision bound to this
\* attempt's request may outlive the recorded one, which bind_to refuses; every
\* refusal is an exception that denies the call.
RecordDecision(e) ==
    /\ stage[e] = "decide"
    /\ UNCHANGED <<proposal, orphan, kept, started>>
    /\ \/ /\ Decidable(RequestOf[e])
          /\ Put(e, Decided(RequestOf[e], proposal[e]))
          /\ MoveTo(e, "reserve")
       \/ /\ Mine(e).status = "decided" /\ Mine(e).age # "request expired"
          /\ Mine(e).decision = proposal[e]
          /\ MoveTo(e, "reserve") /\ UNCHANGED row
       \/ MoveTo(e, "denied") /\ UNCHANGED row

\* reserve, then the checks that follow it: this attempt's own request may
\* have expired, and only an ALLOW with an approver is a grant.  A refused
\* reservation has nothing to release; a token for any other decision is
\* released at once.
Grants(e) == Mine(e).decision.outcome = "allow" /\ Mine(e).decision.approver

Reserve(e) ==
    /\ stage[e] = "reserve"
    /\ Put(e, Reserved(e))
    /\ kept' = [kept EXCEPT ![e] = Reservable(e)]
    /\ \/ Reservable(e) /\ Grants(e) /\ MoveTo(e, "granted")
       \/ Reservable(e) /\ MoveTo(e, "release")
       \/ ~Reservable(e) /\ MoveTo(e, "denied")
    /\ UNCHANGED <<proposal, orphan, started>>

-----------------------------------------------------------------------------
(* What the runtime does with a granted context.                               *)

\* A later gate, a hook, the idempotency claim, a cancellation before the
\* claim, or the end of a preview: release_approval pops the reservation.
Withdraw(e) ==
    /\ stage[e] = "granted"
    /\ kept' = [kept EXCEPT ![e] = FALSE]
    /\ MoveTo(e, IF kept[e] THEN "release" ELSE "denied")
    /\ UNCHANGED <<row, proposal, orphan, started>>

\* A release that fails is only noted; the reservation is left to its lease.
Release(e) ==
    /\ stage[e] = "release"
    /\ Put(e, Released(e)) \/ UNCHANGED row
    /\ kept' = [kept EXCEPT ![e] = FALSE]
    /\ MoveTo(e, "denied")
    /\ UNCHANGED <<proposal, orphan, started>>

\* commit_approval pops the reservation; without one the call is denied.
Boundary(e) ==
    /\ stage[e] = "granted"
    /\ kept' = [kept EXCEPT ![e] = FALSE]
    /\ MoveTo(e, IF kept[e] THEN "commit" ELSE "denied")
    /\ UNCHANGED <<row, proposal, orphan, started>>

\* A returned denial carries another decision id, so it ends in the same
\* release as an exception; a validation that fails after the row has been
\* consumed denies a call whose approval is spent.
Commit(e) ==
    /\ stage[e] = "commit"
    /\ \/ /\ Committable(e) /\ Mine(e).age = "fresh"
          /\ Put(e, Committed(e))
          /\ MoveTo(e, "committed")
       \/ Put(e, Committed(e)) /\ MoveTo(e, "release")
       \/ UNCHANGED row /\ MoveTo(e, "release")
    /\ UNCHANGED <<proposal, orphan, kept, started>>

\* The last look before the body: an expired decision denies.
StillBinds(e) == Mine(e).age = "fresh"

\* The body starts, or the call joins the result of another execution of its
\* idempotency key, which spends the approval too.
Execute(e) ==
    /\ stage[e] = "committed"
    /\ \/ /\ StillBinds(e)
          /\ MoveTo(e, "running")
          /\ started' = started \cup {e}
       \/ /\ MoveTo(e, IF StillBinds(e) THEN "finished" ELSE "denied")
          /\ UNCHANGED started
    /\ UNCHANGED <<row, proposal, orphan, kept>>

Finish(e) ==
    /\ stage[e] = "running"
    /\ MoveTo(e, "finished")
    /\ UNCHANGED <<row, proposal, orphan, kept, started>>

-----------------------------------------------------------------------------
(* Faults and time.                                                            *)

Leave(e, s) ==
    /\ orphan' = [orphan EXCEPT ![e] = IF stage[e] \in Waiting THEN stage[e] ELSE None]
    /\ kept' = [kept EXCEPT ![e] = FALSE]
    /\ MoveTo(e, s)
    /\ UNCHANGED <<row, proposal, started>>

\* The middleware's stage times out: the runtime denies the call and releases
\* what the middleware remembers, while the store call goes on.
TimeOut(e) ==
    /\ stage[e] \in {"pending", "ask", "decide", "reserve"}
    /\ Leave(e, "failed closed")

\* The execution stops short of the rest of its handler: the caller cancelled,
\* the commit or the release timed out, or the process died.
Abandon(e) ==
    /\ stage[e] \notin Ended
    /\ Leave(e, "stopped")

\* The worker thread carries out the call that was left to it.
LateCall(e) ==
    /\ \/ orphan[e] = "pending" /\ Put(e, Pended(e))
       \/ orphan[e] = "decide" /\ Decidable(RequestOf[e])
                               /\ Put(e, Decided(RequestOf[e], proposal[e]))
       \/ orphan[e] = "reserve" /\ Put(e, Reserved(e))
       \/ orphan[e] = "commit" /\ Put(e, Committed(e))
       \/ orphan[e] = "release" /\ Put(e, Released(e))
    /\ orphan' = [orphan EXCEPT ![e] = None]
    /\ UNCHANGED <<stage, proposal, kept, started>>

\* The call was still queued and is dropped.
DropCall(e) ==
    /\ orphan[e] # None
    /\ orphan' = [orphan EXCEPT ![e] = None]
    /\ UNCHANGED <<row, stage, proposal, kept, started>>

\* A reviewer answers through the store itself.
Review(q) ==
    /\ Decidable(q)
    /\ \E d \in Decision : row' = [row EXCEPT ![q] = Decided(q, d)]
    /\ UNCHANGED <<stage, proposal, orphan, kept, started>>

Age(q) ==
    /\ row[q].status # "absent"
    /\ \E a \in Ages :
          /\ <<row[q].age, a>> \in {<<"fresh", "decision expired">>,
                                    <<"fresh", "request expired">>,
                                    <<"decision expired", "request expired">>}
          /\ row' = [row EXCEPT ![q].age = a]
    /\ UNCHANGED <<stage, proposal, orphan, kept, started>>

LeaseLapses(q) ==
    /\ LiveReservation(q)
    /\ row' = [row EXCEPT ![q].lapsed = TRUE]
    /\ UNCHANGED <<stage, proposal, orphan, kept, started>>

\* The middleware starts its own deadline after the store has started the lease;
\* with both clocks running at one rate it is the later to pass.
PruneReservation(e) ==
    /\ kept[e]
    /\ ~Holds(e)
    /\ kept' = [kept EXCEPT ![e] = FALSE]
    /\ UNCHANGED <<row, stage, proposal, orphan, started>>

ApprovalNext ==
    \/ \E e \in Executions :
          \/ Pending(e) \/ ProviderDecides(e) \/ RecordDecision(e) \/ Reserve(e)
          \/ Withdraw(e) \/ Release(e) \/ Boundary(e) \/ Commit(e)
          \/ Execute(e) \/ Finish(e)
          \/ TimeOut(e) \/ Abandon(e) \/ LateCall(e) \/ DropCall(e)
          \/ PruneReservation(e)
    \/ \E q \in Requests : Review(q) \/ Age(q) \/ LeaseLapses(q)

ApprovalSpec == ApprovalInit /\ [][ApprovalNext]_approvalVars

-----------------------------------------------------------------------------

\* Every variable has its type; a recorded decision is an allow or a deny.
ApprovalTypeOK ==
    /\ row \in [Requests -> Row]
    /\ stage \in [Executions -> Stages]
    /\ proposal \in [Executions -> Decision \cup {NoDecision}]
    /\ orphan \in [Executions -> Waiting \cup {None}]
    /\ kept \in [Executions -> BOOLEAN]
    /\ started \subseteq Executions

\* The body never runs twice on one approval: of all executions that name a
\* request id, whatever their timeouts, cancellations and late store calls, at
\* most one has its tool started.
SingleUse ==
    \A e, f \in started : RequestOf[e] = RequestOf[f] => e = f

\* The tool runs only on what was approved: an allow by a named approver, bound
\* to the very content of this call.
RunsWhatWasApproved ==
    \A e \in started :
        /\ Mine(e).content = ContentOf[e]
        /\ Mine(e).decision.outcome = "allow" /\ Mine(e).decision.approver

\* An execution that has ended may leave its reservation behind: its release
\* failed or was never made, or its reserve was carried out when nobody waited
\* for it any more.  What is left is no more than a lease: the approval is not
\* spent, no tool has run on it, and the middleware remembers no token that
\* could still commit it (decision.py:234-250, runtime.py:4300-4314).
LeftoverIsUnspent ==
    \A e \in Executions : stage[e] \in Ended /\ Mine(e).token = e =>
        /\ Mine(e).status = "decided" /\ ~kept[e]
        /\ \A f \in started : RequestOf[f] # RequestOf[e]

\* A live reservation is only ended by its own holder: nobody overtakes it, and
\* a late commit or release of an earlier holder leaves it alone.
LeaseIsExclusive ==
    [][\A q \in Requests :
          LiveReservation(q) /\ row'[q].token # row[q].token =>
              /\ row'[q].token = None
              /\ \/ stage'[row[q].token] # stage[row[q].token]
                 \/ orphan'[row[q].token] # orphan[row[q].token]]_approvalVars

\* For each request the approvals behave like a single-use grant.
Grant == INSTANCE SingleGrant WITH
    verdict <- [q \in Requests |-> row[q].decision.outcome],
    ran <- [q \in Requests |-> {e \in started : RequestOf[e] = q}]

RefinesSingleGrant == Grant!GrantSpec
=============================================================================
