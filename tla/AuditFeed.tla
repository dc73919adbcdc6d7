----------------------------- MODULE AuditFeed -----------------------------
(***************************************************************************)
(* What the audit outbox of the reconciliation ledger promises to a reader *)
(* of the sink: per execution, the sink holds the committed revisions from *)
(* the first up to some point, in order, each once.                        *)
(***************************************************************************)
EXTENDS Naturals

CONSTANT Executions

VARIABLES
    committed,      \* revisions that the ledger committed, per execution
    reported        \* revisions that the sink holds, per execution

feedVars == <<committed, reported>>

FeedInit ==
    /\ committed = [e \in Executions |-> 0]
    /\ reported = [e \in Executions |-> 0]

(* The ledger commits the next revision together with its envelope.        *)
CommitRevision(e) ==
    /\ committed' = [committed EXCEPT ![e] = @ + 1]
    /\ UNCHANGED reported

(* The sink gets the first revision that it does not hold.                 *)
ReportNext(e) ==
    /\ reported[e] < committed[e]
    /\ reported' = [reported EXCEPT ![e] = @ + 1]
    /\ UNCHANGED committed

FeedNext == \E e \in Executions : CommitRevision(e) \/ ReportNext(e)

FeedSpec == FeedInit /\ [][FeedNext]_feedVars
=============================================================================
