----------------------------- MODULE SingleGrant -----------------------------
(* What the approval subsystem promises about one approval request: a single  *)
(* verdict is ever recorded for it, and at most one execution runs its tool on *)
(* the strength of a recorded "allow".                                         *)
CONSTANTS Requests, Executions, None

VARIABLES verdict, ran

grantVars == <<verdict, ran>>

GrantInit ==
    /\ verdict = [q \in Requests |-> None]
    /\ ran = [q \in Requests |-> {}]

Judge(q, v) ==
    /\ verdict[q] = None
    /\ verdict' = [verdict EXCEPT ![q] = v]
    /\ UNCHANGED ran

Exercise(q, e) ==
    /\ verdict[q] = "allow"
    /\ ran[q] = {}
    /\ ran' = [ran EXCEPT ![q] = {e}]
    /\ UNCHANGED verdict

GrantNext ==
    \E q \in Requests :
        \/ \E v \in {"allow", "deny"} : Judge(q, v)
        \/ \E e \in Executions : Exercise(q, e)

GrantSpec == GrantInit /\ [][GrantNext]_grantVars
=============================================================================
