--------------------------- MODULE RuntimeProofs ----------------------------
(***************************************************************************)
(* What a runtime keeps and what it leaves behind: the process-local store *)
(* with its channel, for any executions, keys and cache bound              *)
(* (LocalStore); a runtime that says it is closed has left nothing running *)
(* (RuntimeLifecycle); the schema transactions of the SQLite authorities   *)
(* lose no row of any database an operator may have (SchemaLifecycle); a   *)
(* saved context snapshot stays readable (SnapshotLog).                    *)
(***************************************************************************)
EXTENDS LocalStore, RuntimeLifecycle, SchemaLifecycle, SnapshotLog, TLAPS

USE ZenonT(40)

-----------------------------------------------------------------------------
(* The process-local store.                                                    *)

Futures == {"none", "pending", "result", "error", "unknown"}
Calls == [op : StoreOperations \cup {"none"}, resume : BOOLEAN]

\* The variables of the store that the invariant speaks of.
StoreTypeOK ==
    /\ owner \in [Keys -> Executions \cup {Nobody}]
    /\ future \in [Executions -> Futures]
    /\ at \in [Executions -> Places]
    /\ detached \in [Executions -> Calls]
    /\ disabled \in BOOLEAN
    /\ draining \in Nat
    /\ head \subseteq Executions

\* Only an execution that is over has left an operation behind or failed; one
\* whose head is about to be created, or was, has a final outcome.
CourseOK(x) ==
    /\ at[x] # <<"over">> => detached[x] = NoCall /\ future[x] # "error"
    /\ at[x] = <<"create">> => future[x] \in {"result", "unknown"}
    /\ x \in head => /\ at[x] = <<"over">> /\ detached[x] = NoCall
                     /\ future[x] \in {"result", "unknown"}

Resuming == {x \in Executions : detached[x].resume}

StoreInv ==
    /\ StoreTypeOK
    /\ InFlightIsKept
    /\ \A x \in Executions : CourseOK(x)
    /\ IsFiniteSet(Resuming)
    /\ ~disabled => draining = Cardinality(Resuming)

\* What the proofs use of finite sets, a hypothesis of the lemmas that count
\* operations; FiniteSetsObeyLaws, below them, discharges it.
FiniteSetLaws ==
    /\ IsFiniteSet({}) /\ Cardinality({}) = 0
    /\ \A S, x : IsFiniteSet(S) =>
          /\ Cardinality(S) \in Nat
          /\ IsFiniteSet(S \cup {x}) /\ IsFiniteSet(S \ {x})
          /\ Cardinality(S \cup {x}) = IF x \in S THEN Cardinality(S) ELSE Cardinality(S) + 1
          /\ Cardinality(S \ {x}) = IF x \in S THEN Cardinality(S) - 1 ELSE Cardinality(S)

\* Eviction spares the entry of a future that is pending.
LEMMA EvictionKeepsPending ==
    ASSUME NEW own \in [Keys -> Executions \cup {Nobody}], NEW fut, NEW S, NEW y \in Executions,
           fut[y] = "pending", own[KeyOf[y]] = y
    PROVE  /\ KeptEntries(own, fut, S) \in [Keys -> Executions \cup {Nobody}]
           /\ KeptEntries(own, fut, S)[KeyOf[y]] = y
<1>1. KeyOf[y] \in Keys
  BY LocalStoreConstants
<1> QED BY <1>1 DEF KeptEntries

\* Eviction leaves a table of owners.
LEMMA EvictionKeepsType ==
    ASSUME NEW own \in [Keys -> Executions \cup {Nobody}], NEW fut, NEW S
    PROVE  KeptEntries(own, fut, S) \in [Keys -> Executions \cup {Nobody}]
BY DEF KeptEntries

\* What an operation of the store does to claims and futures: a pending claim
\* keeps its key, the future of any other execution stays, and a settled one
\* changes only when its execution claims the key anew.
LEMMA StoreStep ==
    ASSUME StoreTypeOK, InFlightIsKept, NEW x \in Executions, NEW step \in StoreOperations,
           Store(x, step)
    PROVE  /\ owner' \in [Keys -> Executions \cup {Nobody}]
           /\ future' \in [Executions -> Futures]
           /\ InFlightIsKept'
           /\ \A y \in Executions : y # x => future'[y] = future[y]
           /\ step # "acquire" /\ Done(x) => future'[x] = future[x]
           /\ step = "mark" /\ ~Done(x) => future'[x] = "unknown"
           /\ step # "fail" /\ future[x] # "error" => future'[x] # "error"
<1>0. /\ owner \in [Keys -> Executions \cup {Nobody}] /\ future \in [Executions -> Futures]
      /\ KeyOf \in [Executions -> Keys] /\ Nobody \notin Executions
  BY LocalStoreConstants DEF StoreTypeOK
<1>1. CASE step = "acquire"
  <2>1. AcquireStore(x)
    BY <1>1 DEF Store
  <2>2. PICK S : LET own == KeptEntries(owner, future, S) IN
                 IF own[KeyOf[x]] = Nobody
                 THEN owner' = [own EXCEPT ![KeyOf[x]] = x] /\ future' = [future EXCEPT ![x] = "pending"]
                 ELSE owner' = own /\ future' = future
    BY <2>1 DEF AcquireStore
  <2> DEFINE own == KeptEntries(owner, future, S)
  <2>3. own \in [Keys -> Executions \cup {Nobody}]
    BY <1>0, EvictionKeepsType
  <2>4. \A y \in Executions : future[y] = "pending" => own[KeyOf[y]] = y
    BY <1>0, EvictionKeepsPending, SMTT(30) DEF InFlightIsKept
  <2>5. IF own[KeyOf[x]] = Nobody
        THEN owner' = [own EXCEPT ![KeyOf[x]] = x] /\ future' = [future EXCEPT ![x] = "pending"]
        ELSE owner' = own /\ future' = future
    BY <2>2
  <2> HIDE DEF own
  <2>6. CASE own[KeyOf[x]] = Nobody
    BY <1>0, <1>1, <2>3, <2>4, <2>5, <2>6, SMTT(30) DEF InFlightIsKept, Futures
  <2>7. CASE own[KeyOf[x]] # Nobody
    BY <1>0, <1>1, <2>3, <2>4, <2>5, <2>7 DEF InFlightIsKept, Futures
  <2> QED BY <2>6, <2>7
<1>2. ASSUME NEW outcome \in {"result", "unknown"}, Settle(x, outcome), step # "acquire",
             step = "mark" => outcome = "unknown"
      PROVE  /\ owner' \in [Keys -> Executions \cup {Nobody}]
             /\ future' \in [Executions -> Futures]
             /\ InFlightIsKept'
             /\ \A y \in Executions : y # x => future'[y] = future[y]
             /\ step # "acquire" /\ Done(x) => future'[x] = future[x]
             /\ step = "mark" /\ ~Done(x) => future'[x] = "unknown"
             /\ step # "fail" /\ future[x] # "error" => future'[x] # "error"
  <2>1. future' = IF Done(x) THEN future ELSE [future EXCEPT ![x] = outcome]
    BY <1>2 DEF Settle
  <2>2. PICK S : owner' = KeptEntries(owner, future', S)
    BY <1>2 DEF Settle, RememberAndEvict
  <2>3. \A y \in Executions : future'[y] = "pending" => future[y] = "pending"
    BY <1>0, <2>1
  <2>4. \A y \in Executions : future'[y] = "pending" => owner'[KeyOf[y]] = y
    BY <1>0, <2>2, <2>3, EvictionKeepsPending, SMTT(30) DEF InFlightIsKept
  <2>5. owner' \in [Keys -> Executions \cup {Nobody}]
    BY <1>0, <2>2, EvictionKeepsType
  <2> QED BY <1>0, <1>2, <2>1, <2>4, <2>5 DEF InFlightIsKept, Futures
<1>3. CASE step = "fail"
  <2>1. FailStore(x)
    BY <1>3 DEF Store
  <2>2. future' = IF Done(x) THEN future ELSE [future EXCEPT ![x] = "error"]
    BY <2>1 DEF FailStore
  <2>3. owner' = IF owner[KeyOf[x]] = x THEN [owner EXCEPT ![KeyOf[x]] = Nobody] ELSE owner
    BY <2>1 DEF FailStore
  <2>4. \A y \in Executions : future'[y] = "pending" => y # x /\ future[y] = "pending"
    BY <1>0, <2>2 DEF Done
  <2>5. InFlightIsKept'
    BY <1>0, <2>3, <2>4 DEF InFlightIsKept
  <2> QED BY <1>0, <1>3, <2>2, <2>3, <2>5 DEF Futures
<1> QED BY <1>1, <1>2, <1>3 DEF Store, StoreOperations

\* A step of x keeps the invariant if it keeps x in order and the count exact.
LEMMA StepOfExecution ==
    ASSUME StoreInv, NEW x \in Executions,
           StoreTypeOK', InFlightIsKept', CourseOK(x)',
           \A y \in Executions : y # x =>
               /\ future'[y] = future[y] /\ at'[y] = at[y] /\ detached'[y] = detached[y]
               /\ y \in head' => y \in head,
           IsFiniteSet(Resuming'),
           ~disabled' => draining' = Cardinality(Resuming')
    PROVE  StoreInv'
<1>1. ASSUME NEW y \in Executions PROVE CourseOK(y)'
  <2>1. CASE y = x
    BY <2>1
  <2>2. CASE y # x
    <3>1. CourseOK(y)
      BY DEF StoreInv
    <3> QED BY <2>2, <3>1 DEF CourseOK
  <2> QED BY <2>1, <2>2
<1> QED BY <1>1 DEF StoreInv

\* The same for a step that leaves the channel alone.
LEMMA StepBesideChannel ==
    ASSUME StoreInv, NEW x \in Executions,
           owner' \in [Keys -> Executions \cup {Nobody}], future' \in [Executions -> Futures],
           InFlightIsKept', NEW p \in Places, Place(x, p), head' \in {head, head \cup {x}},
           \A y \in Executions : y # x => future'[y] = future[y],
           UNCHANGED <<detached, disabled, draining>>,
           CourseOK(x)'
    PROVE  StoreInv'
<1>1. StoreTypeOK'
  BY DEF StoreInv, StoreTypeOK, Place
<1>2. Resuming' = Resuming
  BY DEF Resuming
<1>3. \A y \in Executions : y # x => at'[y] = at[y] /\ (y \in head' => y \in head)
  BY DEF StoreInv, StoreTypeOK, Place
<1> QED BY <1>1, <1>2, <1>3, StepOfExecution DEF StoreInv

\* Steps that neither touch the store nor leave an operation behind.
LEMMA QuietStep ==
    ASSUME StoreInv, NEW x \in Executions,
           \/ Begin(x) \/ Submit(x) \/ Join(x) \/ ToolSettles(x) \/ BulkheadRefuses(x)
           \/ CreateUnknown(x)
    PROVE  StoreInv'
<1>0. /\ owner \in [Keys -> Executions \cup {Nobody}] /\ future \in [Executions -> Futures]
      /\ InFlightIsKept /\ at \in [Executions -> Places] /\ CourseOK(x)
  BY DEF StoreInv, StoreTypeOK
<1>1. UNCHANGED <<owner, future, detached, disabled, draining>>
  BY DEF Begin, Submit, Join, ToolSettles, BulkheadRefuses, CreateUnknown
<1>2. InFlightIsKept'
  BY <1>0, <1>1 DEF InFlightIsKept
<1>3. CASE CreateUnknown(x)
  <2>1. Place(x, <<"over">>) /\ <<"over">> \in Places /\ at[x] = <<"create">>
        /\ head' \in {head, head \cup {x}}
    BY <1>3 DEF CreateUnknown, Places
  <2>2. at'[x] = <<"over">> /\ <<"over">> # <<"create">>
    BY <1>0, <2>1 DEF Place
  <2>3. detached[x] = NoCall /\ future[x] \in {"result", "unknown"}
    BY <1>0, <2>1, <2>2 DEF CourseOK
  <2>4. CourseOK(x)'
    BY <1>1, <2>2, <2>3 DEF CourseOK, NoCall
  <2> QED BY <1>0, <1>1, <1>2, <2>1, <2>4, StepBesideChannel
<1>4. CASE Begin(x) \/ Submit(x) \/ Join(x) \/ ToolSettles(x) \/ BulkheadRefuses(x)
  <2>1. head' = head /\ at[x] # <<"over">>
    BY <1>4, SMTT(30) DEF Begin, Submit, Join, ToolSettles, BulkheadRefuses
  <2>2. PICK p \in Places : Place(x, p) /\ p # <<"create">>
    <3>1. CASE Begin(x) \/ Join(x)
      BY <3>1 DEF Begin, Join, Places, StoreOperations
    <3>2. CASE Submit(x)
      BY <1>0, <3>2, SMTT(30) DEF Submit, Places, StoreOperations
    <3>3. CASE ToolSettles(x)
      <4>1. PICK s \in Settlements :
                Place(x, IF Open THEN <<"queue", s[1]>>
                         ELSE IF s[2] = "none" THEN <<"over">> ELSE <<"body">>)
        BY <3>3 DEF ToolSettles
      <4>2. s[1] \in StoreOperations
        BY <4>1, SMTT(30) DEF Settlements, StoreOperations
      <4>3. /\ <<"queue", s[1]>> \in Places /\ <<"over">> \in Places /\ <<"body">> \in Places
            /\ <<"queue", s[1]>> # <<"create">> /\ <<"over">> # <<"create">>
            /\ <<"body">> # <<"create">>
        BY <4>2 DEF Places
      <4> QED BY <4>1, <4>3
    <3>4. CASE BulkheadRefuses(x)
      BY <3>4 DEF BulkheadRefuses, Places
    <3> QED BY <1>4, <3>1, <3>2, <3>3, <3>4
  <2>3. at'[x] = p
    BY <1>0, <2>2 DEF Place
  <2>4. CourseOK(x)'
    BY <1>0, <1>1, <2>1, <2>2, <2>3 DEF CourseOK, NoCall
  <2> QED BY <1>0, <1>1, <1>2, <2>1, <2>2, <2>4, StepBesideChannel
<1> QED BY <1>3, <1>4

\* Operations that their execution waits for.
LEMMA AwaitedStep ==
    ASSUME StoreInv, NEW x \in Executions,
           Acquired(x) \/ Settled(x) \/ SettledCancelled(x) \/ MarkedUnknown(x)
    PROVE  StoreInv'
<1>0. /\ StoreTypeOK /\ InFlightIsKept /\ at \in [Executions -> Places] /\ CourseOK(x)
      /\ future \in [Executions -> Futures]
  BY DEF StoreInv, StoreTypeOK
<1>1. UNCHANGED <<detached, disabled, draining, head>>
  BY DEF Acquired, Settled, SettledCancelled, MarkedUnknown
<1>2. PICK step \in StoreOperations : at[x] = <<"await", step>> /\ Store(x, step)
  BY SMTT(30) DEF Acquired, Settled, SettledCancelled, MarkedUnknown, Store, StoreOperations
<1>3. /\ owner' \in [Keys -> Executions \cup {Nobody}]
      /\ future' \in [Executions -> Futures]
      /\ InFlightIsKept'
      /\ \A y \in Executions : y # x => future'[y] = future[y]
      /\ step # "acquire" /\ Done(x) => future'[x] = future[x]
      /\ step = "mark" /\ ~Done(x) => future'[x] = "unknown"
      /\ step # "fail" /\ future[x] # "error" => future'[x] # "error"
  BY <1>0, <1>2, StoreStep
<1>4. detached[x] = NoCall /\ future[x] # "error" /\ x \notin head
  BY <1>0, <1>2, SMTT(30) DEF CourseOK
<1>5. PICK p \in Places : /\ Place(x, p) /\ (p = <<"create">> => step = "mark")
                          /\ (step = "fail" => p = <<"over">>)
  <2>1. CASE Acquired(x)
    BY <1>2, <2>1, SMTT(30) DEF Acquired, Places
  <2>2. CASE Settled(x)
    BY <1>2, <2>2 DEF Settled, Places
  <2>3. CASE SettledCancelled(x)
    BY <1>2, <2>3, SMTT(30) DEF SettledCancelled, Places, StoreOperations
  <2>4. CASE MarkedUnknown(x)
    BY <1>2, <2>4, SMTT(30) DEF MarkedUnknown, Places
  <2> QED BY <2>1, <2>2, <2>3, <2>4
<1>6. at'[x] = p
  BY <1>0, <1>5 DEF Place
<1>7. step = "mark" => future'[x] \in {"result", "unknown"}
  BY <1>0, <1>3, <1>4 DEF Done
<1>8. CourseOK(x)'
  BY <1>1, <1>3, <1>4, <1>5, <1>6, <1>7 DEF CourseOK, NoCall
<1> QED BY <1>1, <1>3, <1>5, <1>8, StepBesideChannel

\* An operation that nobody waits for any longer closes the channel.
LEMMA DetachStep ==
    ASSUME FiniteSetLaws, StoreInv, NEW x \in Executions, StopWaiting(x)
    PROVE  StoreInv'
<1>0. /\ StoreTypeOK /\ InFlightIsKept /\ at \in [Executions -> Places] /\ CourseOK(x)
      /\ detached \in [Executions -> Calls] /\ draining \in Nat /\ disabled \in BOOLEAN
      /\ IsFiniteSet(Resuming) /\ (~disabled => draining = Cardinality(Resuming))
  BY DEF StoreInv, StoreTypeOK
<1>1. PICK poisons \in BOOLEAN : Detach(x, at[x][2], poisons)
  BY DEF StopWaiting
<1>2. /\ UNCHANGED <<owner, future, head>> /\ at' = [at EXCEPT ![x] = <<"over">>]
      /\ at[x] # <<"over">> /\ at[x] # <<"create">> /\ at[x][2] \in StoreOperations
  BY <1>0, SMTT(30) DEF StopWaiting, Place, Places
<1>3. detached' = [detached EXCEPT ![x] = [op |-> at[x][2], resume |-> ~poisons]]
      /\ disabled' = (disabled \/ poisons)
      /\ draining' = IF ~poisons /\ ~disabled THEN draining + 1 ELSE draining
  BY <1>1 DEF Detach
<1>4. <<"over">> \in Places /\ [op |-> at[x][2], resume |-> ~poisons] \in Calls
  BY <1>2 DEF Places, Calls
<1>5. StoreTypeOK'
  BY <1>0, <1>2, <1>3, <1>4, SMTT(30) DEF StoreTypeOK
<1>6. InFlightIsKept'
  BY <1>0, <1>2 DEF InFlightIsKept
<1>7. CourseOK(x)'
  BY <1>0, <1>2 DEF CourseOK
<1>8. x \notin Resuming
  BY <1>0, <1>2, SMTT(30) DEF CourseOK, Resuming, NoCall
<1>9. Resuming' = IF poisons THEN Resuming ELSE Resuming \cup {x}
  BY <1>0, <1>3, <1>8 DEF Resuming
<1>10. IsFiniteSet(Resuming') /\ (~disabled' => draining' = Cardinality(Resuming'))
  <2>1. IsFiniteSet(Resuming \cup {x}) /\ Cardinality(Resuming \cup {x}) = Cardinality(Resuming) + 1
    BY <1>0, <1>8 DEF FiniteSetLaws
  <2> QED BY <1>0, <1>3, <1>9, <2>1
<1>11. \A y \in Executions : y # x =>
           /\ future'[y] = future[y] /\ at'[y] = at[y] /\ detached'[y] = detached[y]
           /\ y \in head' => y \in head
  BY <1>0, <1>2, <1>3
<1> QED BY <1>5, <1>6, <1>7, <1>10, <1>11, StepOfExecution

\* The worker thread carries it out, and the last one opens the channel.
LEMMA LateStep ==
    ASSUME FiniteSetLaws, StoreInv, NEW x \in Executions, LateOperation(x)
    PROVE  StoreInv'
<1>0. /\ StoreTypeOK /\ InFlightIsKept /\ at \in [Executions -> Places] /\ CourseOK(x)
      /\ detached \in [Executions -> Calls] /\ draining \in Nat /\ disabled \in BOOLEAN
      /\ IsFiniteSet(Resuming) /\ (~disabled => draining = Cardinality(Resuming))
  BY DEF StoreInv, StoreTypeOK
<1>1. /\ detached[x].op \in StoreOperations /\ Store(x, detached[x].op)
      /\ UNCHANGED <<at, disabled, head>>
  BY DEF LateOperation
<1>2. /\ owner' \in [Keys -> Executions \cup {Nobody}]
      /\ future' \in [Executions -> Futures]
      /\ InFlightIsKept'
      /\ \A y \in Executions : y # x => future'[y] = future[y]
  BY <1>0, <1>1, StoreStep
<1>3. at[x] = <<"over">> /\ x \notin head
  BY <1>0, <1>1, SMTT(30) DEF CourseOK, NoCall, StoreOperations
<1>4. CourseOK(x)'
  BY <1>1, <1>3, SMTT(30) DEF CourseOK
<1>5. /\ detached' \in [Executions -> Calls]
      /\ \A y \in Executions : y # x => detached'[y] = detached[y]
      /\ \/ detached'[x].resume = detached[x].resume /\ draining' = draining
         \/ detached'[x].resume = FALSE /\ Resume(x)
  <2>1. CASE detached' = [detached EXCEPT ![x].op = "mark"] /\ UNCHANGED draining
    BY <1>0, <2>1 DEF Calls, StoreOperations
  <2>2. CASE detached' = [detached EXCEPT ![x] = NoCall] /\ Resume(x)
    BY <1>0, <2>2 DEF Calls, NoCall
  <2> QED BY <2>1, <2>2 DEF LateOperation
<1>6. /\ draining' \in Nat /\ IsFiniteSet(Resuming')
      /\ ~disabled => draining' = Cardinality(Resuming')
  <2>1. CASE detached'[x].resume = detached[x].resume /\ draining' = draining
    <3>1. Resuming' = Resuming
      BY <1>5, <2>1 DEF Resuming
    <3> QED BY <1>0, <2>1, <3>1
  <2>2. CASE detached'[x].resume = FALSE /\ Resume(x) /\ ~detached[x].resume
    <3>1. Resuming' = Resuming
      BY <1>5, <2>2 DEF Resuming
    <3> QED BY <1>0, <2>2, <3>1 DEF Resume
  <2>3. CASE detached'[x].resume = FALSE /\ Resume(x) /\ detached[x].resume
    <3>1. Resuming' = Resuming \ {x} /\ x \in Resuming
      BY <1>5, <2>3 DEF Resuming
    <3>2. /\ IsFiniteSet(Resuming \ {x})
          /\ Cardinality(Resuming \ {x}) = Cardinality(Resuming) - 1
      BY <1>0, <3>1 DEF FiniteSetLaws
    <3>3. Cardinality(Resuming) \in Nat /\ Cardinality(Resuming \ {x}) \in Nat
      BY <1>0, <3>2 DEF FiniteSetLaws
    <3>4. draining' = IF draining > 0 THEN draining - 1 ELSE draining
      BY <2>3 DEF Resume
    <3> QED BY <1>0, <3>1, <3>2, <3>3, <3>4, SMTT(30)
  <2> QED BY <1>0, <1>5, <2>1, <2>2, <2>3 DEF Calls
<1>7. StoreTypeOK'
  BY <1>0, <1>1, <1>2, <1>5, <1>6 DEF StoreTypeOK
<1> QED BY <1>1, <1>2, <1>4, <1>5, <1>6, <1>7, StepOfExecution

-----------------------------------------------------------------------------
(* The shutdown of a runtime.                                              *)

Waiting == {"claimed", "sync claimed"}
Draining == {"draining", "sync draining"}
Cleaning == {"cleaning", "sync cleaning"}
UnderWay == Waiting \cup Draining \cup Cleaning \cup {"stopping", "joining"}
OnSyncLoop == {"sync claimed", "sync draining", "sync cleaning"}

LifecycleTypeOK ==
    /\ op \in [Ops -> {"new", "checked", "ensured", "posted", "active", "ended", "refused", "cut"}]
    /\ callback \in [Ops -> {"none", "refused", "queued", "running", "done", "cancelled"}]
    /\ tool \in [Ops -> {"none", "running", "done"}]
    /\ stage \in [Ops -> {"none", "pending", "over"}]
    /\ cleanup \in [Ops -> {"none", "refused", "pending", "calling", "over", "stranded"}]
    /\ closing \in BOOLEAN /\ closed \in BOOLEAN /\ down \in BOOLEAN
    /\ closer \in [Closers \cup Threads -> {"new", "raised", "returned"} \cup UnderWay]

\* An operation that was not admitted has started nothing, none is cut off and
\* no cleanup is stranded.
WorkIsAdmitted ==
    \A o \in Ops :
        /\ op[o] \in {"new", "checked", "ensured", "posted", "refused"} =>
            callback[o] = "none" /\ tool[o] = "none" /\ stage[o] = "none" /\ cleanup[o] = "none"
        /\ op[o] \in {"checked", "ensured", "posted"} => o \in SyncOps
        /\ cleanup[o] # "stranded" /\ op[o] # "cut"

\* One close at a time is under way, and closing says that one is.
OneCloseUnderWay ==
    /\ \A k, l \in Closers \cup Threads :
        closer[k] \in UnderWay /\ closer[l] \in UnderWay => k = l
    /\ closing <=> \E k \in Closers \cup Threads : closer[k] \in UnderWay

\* What a close has achieved so far.
CloseIsOrderly ==
    \A k \in Closers \cup Threads :
        /\ closer[k] \in Waiting => ~closed
        /\ closer[k] \in UnderWay \ Waiting => closed
        /\ closer[k] \in UnderWay \ {"joining"} => ~down
        /\ closer[k] \in Cleaning => ~PendingWork
        /\ closer[k] \in {"stopping", "joining"} => ~PendingWork /\ ~PendingCleanup
        /\ closer[k] = "joining" => down /\ \A o \in Ops : callback[o] # "queued"

\* A close is on the runtime's loop only if an invoke() was posted to it.
SyncCloseHasWork ==
    \A k \in Closers \cup Threads : closer[k] \in OnSyncLoop =>
        \E o \in SyncOps : op[o] \in {"posted", "active", "ended", "refused", "cut"}

LifecycleInv ==
    /\ LifecycleTypeOK
    /\ WorkIsAdmitted
    /\ OneCloseUnderWay
    /\ CloseIsOrderly
    /\ SyncCloseHasWork
    /\ down => closed
    /\ CleanShutdown

\* An executor that is down has nothing to do.
LEMMA DownMeansQuiet ==
  ASSUME LifecycleInv, down
  PROVE  ~PendingWork /\ ~PendingCleanup
BY DEF LifecycleInv, OneCloseUnderWay, CloseIsOrderly, CleanShutdown, UnderWay

\* A step of an operation leaves the closing alone and gives a closed runtime
\* nothing to do that it did not have to do before.
LEMMA OperationKeepsInv ==
  ASSUME LifecycleInv, LifecycleTypeOK', WorkIsAdmitted', SyncCloseHasWork',
         UNCHANGED <<closing, closed, down, closer>>,
         closed /\ PendingWork' => PendingWork,
         PendingCleanup' => PendingCleanup \/ PendingWork,
         \A o \in Ops : callback'[o] = "queued" => callback[o] = "queued" \/ PendingWork,
         \A o \in Ops : callback'[o] = "running" =>
                            callback[o] \in {"queued", "running"}
  PROVE  LifecycleInv'
<1>1. LifecycleTypeOK /\ OneCloseUnderWay /\ CloseIsOrderly /\ CleanShutdown /\ (down => closed)
  BY DEF LifecycleInv
<1>2. OneCloseUnderWay'
  BY <1>1 DEF OneCloseUnderWay
<1>3. CloseIsOrderly'
  <2> SUFFICES ASSUME NEW k \in Closers \cup Threads
               PROVE  /\ closer[k] \in Waiting => ~closed
                      /\ closer[k] \in UnderWay \ Waiting => closed
                      /\ closer[k] \in UnderWay \ {"joining"} => ~down
                      /\ closer[k] \in Cleaning => ~PendingWork'
                      /\ closer[k] \in {"stopping", "joining"} => ~PendingWork' /\ ~PendingCleanup'
                      /\ closer[k] = "joining" => down /\ \A o \in Ops : callback'[o] # "queued"
    BY DEF CloseIsOrderly, PendingWork, PendingCleanup
  <2>1. /\ closer[k] \in Waiting => ~closed
        /\ closer[k] \in UnderWay \ Waiting => closed
        /\ closer[k] \in UnderWay \ {"joining"} => ~down
        /\ closer[k] \in Cleaning => ~PendingWork
        /\ closer[k] \in {"stopping", "joining"} => ~PendingWork /\ ~PendingCleanup
        /\ closer[k] = "joining" => down /\ \A o \in Ops : callback[o] # "queued"
    BY <1>1 DEF CloseIsOrderly
  <2>2. closer[k] \in Cleaning \cup {"stopping", "joining"} => closed
    BY <2>1 DEF UnderWay, Waiting, Cleaning
  <2>3. QED
    BY <2>1, <2>2
<1>4. CleanShutdown'
  <2> SUFFICES ASSUME closed, ~closing
               PROVE  /\ down /\ ~PendingWork' /\ ~PendingCleanup'
                      /\ \A o \in Ops : callback'[o] \notin {"queued", "running"}
                                        /\ cleanup'[o] # "stranded"
    BY DEF CleanShutdown, PendingWork, PendingCleanup
  <2>1. /\ down /\ ~PendingWork /\ ~PendingCleanup
        /\ \A o \in Ops : callback[o] \notin {"queued", "running"}
    BY <1>1 DEF CleanShutdown
  <2>2. QED
    BY <2>1 DEF WorkIsAdmitted
<1>5. QED
  BY <1>1, <1>2, <1>3, <1>4 DEF LifecycleInv

\* An operation is looked at, posted, admitted or refused.
LEMMA AdmissionKeepsInv ==
  ASSUME LifecycleInv, NEW o \in Ops, NEW s \in {"refused", "checked", "ensured", "posted", "active"},
         op' = [op EXCEPT ![o] = s], op[o] \in {"new", "checked", "ensured", "posted"},
         s \in {"posted", "active"} => ~closed, op[o] = "posted" => s \in {"refused", "active"},
         s \in {"checked", "ensured", "posted"} => o \in SyncOps,
         UNCHANGED <<callback, tool, stage, cleanup, closing, closed, down, closer>>
  PROVE  LifecycleInv'
<1> /\ LifecycleTypeOK /\ WorkIsAdmitted /\ SyncCloseHasWork
  BY DEF LifecycleInv
<1>1. \A p \in Ops : op'[p] = IF p = o THEN s ELSE op[p]
  BY DEF LifecycleTypeOK
<1>2. LifecycleTypeOK'
  BY DEF LifecycleTypeOK
<1>3. WorkIsAdmitted'
  BY <1>1, SMTT(30) DEF WorkIsAdmitted
<1>4. SyncCloseHasWork'
  BY <1>1 DEF SyncCloseHasWork, Ops
<1>5. closed /\ PendingWork' => PendingWork
  BY <1>1 DEF PendingWork
<1>6. PendingCleanup' => PendingCleanup
  BY DEF PendingCleanup
<1>7. QED
  BY <1>2, <1>3, <1>4, <1>5, <1>6, OperationKeepsInv

\* An operation ends.
LEMMA EndOperationKeepsInv ==
  ASSUME LifecycleInv, NEW o \in Ops, EndOperation(o)
  PROVE  LifecycleInv'
<1> /\ LifecycleTypeOK /\ WorkIsAdmitted /\ SyncCloseHasWork
  BY DEF LifecycleInv
<1>1. /\ \A p \in Ops : op'[p] = IF p = o THEN "ended" ELSE op[p]
      /\ \A p \in Ops : callback'[p] \in {callback[p], "cancelled"}
      /\ \A p \in Ops : p # o => callback'[p] = callback[p]
      /\ UNCHANGED <<tool, stage, cleanup, closing, closed, down, closer>> /\ op[o] = "active"
  BY DEF LifecycleTypeOK, EndOperation
<1>2. LifecycleTypeOK'
  BY DEF LifecycleTypeOK, EndOperation
<1>3. WorkIsAdmitted'
  BY <1>1 DEF WorkIsAdmitted
<1>4. SyncCloseHasWork'
  BY <1>1 DEF SyncCloseHasWork, Ops
<1>5. PendingWork' => PendingWork
  BY <1>1 DEF PendingWork
<1>6. PendingCleanup' => PendingCleanup
  BY <1>1 DEF PendingCleanup
<1>7. QED
  BY <1>1, <1>2, <1>3, <1>4, <1>5, <1>6, OperationKeepsInv

\* A callback, a detached coroutine, a tool or a cleanup is started.
LEMMA StartingKeepsInv ==
  ASSUME LifecycleInv, NEW o \in Ops,
         InvokeSync(o) \/ DetachStage(o) \/ RunSyncTool(o) \/ ScheduleCleanup(o)
  PROVE  LifecycleInv'
<1> /\ LifecycleTypeOK /\ WorkIsAdmitted /\ SyncCloseHasWork
  BY DEF LifecycleInv
<1>1. /\ op[o] = "active" /\ UNCHANGED <<op, closing, closed, down, closer>>
      /\ \A p \in Ops : p # o => /\ callback'[p] = callback[p] /\ tool'[p] = tool[p]
                                 /\ stage'[p] = stage[p] /\ cleanup'[p] = cleanup[p]
      /\ cleanup'[o] \in {cleanup[o], "refused", "pending"}
      /\ callback'[o] \in {callback[o], "refused", "queued"}
  BY DEF LifecycleTypeOK, InvokeSync, DetachStage, RunSyncTool, ScheduleCleanup
<1>2. LifecycleTypeOK'
  BY DEF LifecycleTypeOK, InvokeSync, DetachStage, RunSyncTool, ScheduleCleanup
<1>3. WorkIsAdmitted'
  BY <1>1 DEF WorkIsAdmitted
<1>4. SyncCloseHasWork'
  BY <1>1 DEF SyncCloseHasWork
<1>5. PendingWork
  BY <1>1 DEF PendingWork
<1>6. QED
  BY <1>1, <1>2, <1>3, <1>4, <1>5, OperationKeepsInv

\* What was started goes on or ends.
LEMMA WorkingKeepsInv ==
  ASSUME LifecycleInv, NEW o \in Ops,
         RunCallback(o) \/ StageEnds(o) \/ ToolEnds(o) \/ RunCleanup(o)
  PROVE  LifecycleInv'
<1> /\ LifecycleTypeOK /\ WorkIsAdmitted /\ SyncCloseHasWork
  BY DEF LifecycleInv
<1>1. /\ UNCHANGED <<op, closing, closed, down, closer>>
      /\ \A p \in Ops : p # o => /\ callback'[p] = callback[p] /\ tool'[p] = tool[p]
                                 /\ stage'[p] = stage[p] /\ cleanup'[p] = cleanup[p]
  BY SMTT(30) DEF LifecycleTypeOK, RunCallback, StageEnds, ToolEnds, RunCleanup
<1>2. LifecycleTypeOK'
  BY SMTT(30) DEF LifecycleTypeOK, RunCallback, StageEnds, ToolEnds, RunCleanup
<1>3. /\ \/ callback'[o] = callback[o]
         \/ callback[o] \in {"queued", "running"} /\ callback'[o] \in {"running", "done"}
      /\ tool'[o] = tool[o] \/ tool'[o] = "done"
      /\ stage'[o] = stage[o] \/ stage'[o] = "over"
  <2>1. CASE RunCallback(o)
    BY <2>1 DEF RunCallback, LifecycleTypeOK
  <2>2. CASE StageEnds(o) \/ ToolEnds(o) \/ RunCleanup(o)
    BY <2>2 DEF LifecycleTypeOK, StageEnds, ToolEnds, RunCleanup
  <2>3. QED
    BY <2>1, <2>2
<1>4. \/ cleanup'[o] = cleanup[o]
      \/ cleanup[o] \in {"pending", "calling"} /\ cleanup'[o] \in {"calling", "over"}
  <2>1. CASE RunCleanup(o)
    <3>1. PendingCleanup
      BY <2>1 DEF RunCleanup, PendingCleanup
    <3>2. ~down
      BY <3>1, DownMeansQuiet
    <3>3. QED
      BY <2>1, <3>2 DEF RunCleanup, LifecycleTypeOK
  <2>2. QED
    BY <2>1 DEF RunCallback, StageEnds, ToolEnds
<1>5. WorkIsAdmitted'
  <2>1. /\ tool[o] = "none" => tool'[o] = "none"
        /\ stage[o] = "none" => stage'[o] = "none"
    BY DEF LifecycleTypeOK, RunCallback, StageEnds, ToolEnds, RunCleanup
  <2>2. QED
    BY <1>1, <1>3, <1>4, <2>1, SMTT(30) DEF WorkIsAdmitted
<1>6. SyncCloseHasWork'
  BY <1>1 DEF SyncCloseHasWork
<1>7. PendingWork' => PendingWork
  BY <1>1, <1>3 DEF PendingWork
<1>8. PendingCleanup' => PendingCleanup
  BY <1>1, <1>4 DEF PendingCleanup
<1>9. QED
  BY <1>1, <1>2, <1>3, <1>5, <1>6, <1>7, <1>8, OperationKeepsInv

\* An invoke() finds a close under way at its second look and stops a loop on
\* which something is pending, or the close itself.
WithdrawalRaces ==
    \E o \in Ops :
        /\ WithdrawInvoke(o)
        /\ "sync" \in PendingLoops \/ \E k \in Closers : closer[k] \in OnSyncLoop

\* A withdrawal that stops an idle loop stops nothing else.
LEMMA WithdrawInvokeKeepsInv ==
  ASSUME LifecycleInv, NEW o \in Ops, WithdrawInvoke(o), "sync" \notin PendingLoops,
         \A k \in Closers : closer[k] \notin OnSyncLoop
  PROVE  LifecycleInv'
<1> LifecycleTypeOK
  BY DEF LifecycleInv
<1>1. op[o] = "ensured"
  BY DEF WithdrawInvoke
<1>2. \A p \in SyncOps : /\ p \in Ops /\ op[p] \notin {"posted", "active"} /\ stage[p] # "pending"
                         /\ cleanup[p] \notin {"pending", "calling"}
  BY DEF PendingLoops, Loop, Ops
<1>3. \A k \in Closers : closer[k] \notin {"sync claimed", "sync draining", "sync cleaning"}
  BY DEF OnSyncLoop
<1>4. closing' = closing /\ closed' = closed /\ down' = down
  BY <1>3 DEF WithdrawInvoke, StopSyncLoop, LifecycleTypeOK
<1>5. closer' = closer
  BY <1>3 DEF WithdrawInvoke, StopSyncLoop, LifecycleTypeOK
<1>6. stage' = stage /\ cleanup' = cleanup
  BY <1>2 DEF WithdrawInvoke, StopSyncLoop, LifecycleTypeOK
<1>7. op' = [op EXCEPT ![o] = "refused"] /\ UNCHANGED <<callback, tool>>
  BY <1>2 DEF WithdrawInvoke, LifecycleTypeOK
<1>8. QED
  BY <1>1, <1>4, <1>5, <1>6, <1>7, AdmissionKeepsInv

\* With a single invoke() nothing has been posted to the loop it stops.
LEMMA SingleInvokeDoesNotRace ==
  ASSUME LifecycleInv, \A p, q \in SyncOps : p = q
  PROVE  ~WithdrawalRaces
<1> SUFFICES ASSUME NEW o \in Ops, WithdrawInvoke(o)
             PROVE  "sync" \notin PendingLoops /\ \A k \in Closers : closer[k] \notin OnSyncLoop
  BY DEF WithdrawalRaces
<1> WorkIsAdmitted /\ SyncCloseHasWork
  BY DEF LifecycleInv
<1>1. op[o] = "ensured" /\ o \in SyncOps /\ \A p \in SyncOps : p = o
  BY DEF WithdrawInvoke, WorkIsAdmitted
<1>2. stage[o] = "none" /\ cleanup[o] = "none"
  BY <1>1 DEF WorkIsAdmitted
<1>3. \A p \in Ops : Loop(p) = "sync" => p = o
  BY <1>1 DEF Loop
<1>4. "sync" \notin PendingLoops
  BY <1>1, <1>2, <1>3 DEF PendingLoops
<1>5. QED
  BY <1>1, <1>4 DEF SyncCloseHasWork

\* Whether a close under way is the one that takes a step.
LEMMA CloserIsAlone ==
  ASSUME LifecycleInv, NEW k \in Closers \cup Threads, closer[k] \in UnderWay
  PROVE  closing /\ \A l \in Closers \cup Threads : l # k => closer[l] \notin UnderWay
BY DEF LifecycleInv, OneCloseUnderWay

\* One call of a close takes a step, from s to t, while no other is under way.
LEMMA ClosingKeepsInv ==
  ASSUME LifecycleInv, NEW k \in Closers \cup Threads,
         NEW t \in {"raised", "returned"} \cup UnderWay, closer' = [closer EXCEPT ![k] = t],
         closer[k] \in UnderWay \/ ~closing \/ t \notin UnderWay,
         closer[k] \in UnderWay \cup {"new"},
         t \in UnderWay => closing' = TRUE,
         closer[k] \in UnderWay /\ t \notin UnderWay => closing' = FALSE,
         closer[k] \notin UnderWay /\ t \notin UnderWay => closing' = closing,
         UNCHANGED <<op, tool, stage, cleanup>>, callback' = callback \/ t = "joining",
         callback' \in [Ops -> {"none", "refused", "queued", "running", "done", "cancelled"}],
         \A o \in Ops : callback[o] = "none" => callback'[o] = "none",
         closed' \in BOOLEAN, down' \in BOOLEAN, down' => closed',
         t \notin UnderWay /\ closer[k] \notin UnderWay => UNCHANGED <<closed, down, callback>>,
         t \in Waiting => ~closed', t \in UnderWay \ Waiting => closed',
         t \in UnderWay \ {"joining"} => ~down',
         t \in Cleaning => ~PendingWork,
         t \in {"stopping", "joining"} => ~PendingWork /\ ~PendingCleanup,
         t = "joining" => down' /\ \A o \in Ops : callback'[o] # "queued",
         t \in OnSyncLoop => closer[k] \in OnSyncLoop \/
            \E o \in SyncOps : op[o] \in {"posted", "active", "ended", "refused", "cut"},
         closer[k] \in UnderWay /\ t \notin UnderWay /\ closed' =>
            /\ down' /\ ~PendingWork /\ ~PendingCleanup
            /\ \A o \in Ops : callback'[o] \notin {"queued", "running"}
  PROVE  LifecycleInv'
<1> /\ LifecycleTypeOK /\ WorkIsAdmitted /\ OneCloseUnderWay /\ CloseIsOrderly
    /\ SyncCloseHasWork /\ CleanShutdown /\ (down => closed)
  BY DEF LifecycleInv
<1>1. \A l \in Closers \cup Threads : closer'[l] = IF l = k THEN t ELSE closer[l]
  BY DEF LifecycleTypeOK
<1>2. (PendingWork' <=> PendingWork) /\ (PendingCleanup' <=> PendingCleanup)
  BY DEF PendingWork, PendingCleanup
<1>3. closer[k] \in UnderWay \/ t \in UnderWay =>
        \A l \in Closers \cup Threads : l # k => closer[l] \notin UnderWay
  BY DEF OneCloseUnderWay
<1>4. LifecycleTypeOK'
  <2>1. closing' \in BOOLEAN
    <3>1. CASE closer[k] \in UnderWay \/ t \in UnderWay
      BY <3>1
    <3>2. CASE ~(closer[k] \in UnderWay \/ t \in UnderWay)
      BY <3>2 DEF LifecycleTypeOK
    <3>3. QED
      BY <3>1, <3>2
  <2>2. closer' \in [Closers \cup Threads -> {"new", "raised", "returned"} \cup UnderWay]
    BY DEF LifecycleTypeOK
  <2>3. QED
    BY <2>1, <2>2 DEF LifecycleTypeOK
<1>5. WorkIsAdmitted'
  BY DEF WorkIsAdmitted
<1>6. OneCloseUnderWay'
  <2>1. CASE t \in UnderWay
    <3>1. closing'
      BY <2>1
    <3>2. QED
      BY <1>1, <1>3, <2>1, <3>1, SMTT(30) DEF OneCloseUnderWay
  <2>2. CASE t \notin UnderWay /\ closer[k] \in UnderWay
    <3>1. ~closing'
      BY <2>2
    <3>2. QED
      BY <1>1, <1>3, <2>2, <3>1, SMTT(30) DEF OneCloseUnderWay
  <2>3. CASE t \notin UnderWay /\ closer[k] \notin UnderWay
    <3>1. closing' = closing
      BY <2>3
    <3>2. QED
      BY <1>1, <2>3, <3>1, SMTT(30) DEF OneCloseUnderWay
  <2>4. QED
    BY <2>1, <2>2, <2>3
<1>7. CloseIsOrderly'
  <2> SUFFICES ASSUME NEW l \in Closers \cup Threads
               PROVE  /\ closer'[l] \in Waiting => ~closed'
                      /\ closer'[l] \in UnderWay \ Waiting => closed'
                      /\ closer'[l] \in UnderWay \ {"joining"} => ~down'
                      /\ closer'[l] \in Cleaning => ~PendingWork'
                      /\ closer'[l] \in {"stopping", "joining"} =>
                            ~PendingWork' /\ ~PendingCleanup'
                      /\ closer'[l] = "joining" =>
                            down' /\ \A o \in Ops : callback'[o] # "queued"
    BY DEF CloseIsOrderly
  <2>1. CASE l = k
    BY <1>1, <1>2, <2>1, SMTT(30)
  <2>2. CASE l # k /\ (closer[k] \in UnderWay \/ t \in UnderWay)
    BY <1>1, <1>3, <2>2 DEF UnderWay, Waiting, Cleaning
  <2>3. CASE l # k /\ ~(closer[k] \in UnderWay \/ t \in UnderWay)
    BY <1>1, <1>2, <2>3, SMTT(30) DEF CloseIsOrderly
  <2>4. QED
    BY <2>1, <2>2, <2>3
<1>8. SyncCloseHasWork'
  BY <1>1 DEF SyncCloseHasWork
<1>9. CleanShutdown'
  <2> SUFFICES ASSUME closed', ~closing'
               PROVE  /\ down' /\ ~PendingWork' /\ ~PendingCleanup'
                      /\ \A o \in Ops : callback'[o] \notin {"queued", "running"}
                                        /\ cleanup'[o] # "stranded"
    BY DEF CleanShutdown
  <2>1. \A o \in Ops : cleanup'[o] # "stranded"
    BY DEF WorkIsAdmitted
  <2>2. CASE closer[k] \in UnderWay
    BY <1>2, <2>1, <2>2
  <2>3. CASE closer[k] \notin UnderWay
    BY <1>2, <2>1, <2>3 DEF CleanShutdown
  <2>4. QED
    BY <2>2, <2>3
<1>10. QED
  BY <1>4, <1>5, <1>6, <1>7, <1>8, <1>9 DEF LifecycleInv

\* close() and aclose() are called.
LEMMA CallKeepsInv ==
  ASSUME LifecycleInv,
         (\E k \in Closers : Aclose(k)) \/ (\E k \in Threads : Close(k))
  PROVE  LifecycleInv'
<1> /\ LifecycleTypeOK /\ WorkIsAdmitted /\ OneCloseUnderWay /\ (down => closed)
  BY DEF LifecycleInv
<1>1. /\ closing \in BOOLEAN /\ closed \in BOOLEAN /\ down \in BOOLEAN
      /\ callback \in [Ops -> {"none", "refused", "queued", "running", "done", "cancelled"}]
      /\ closer \in [Closers \cup Threads -> {"new", "raised", "returned"} \cup UnderWay]
  BY DEF LifecycleTypeOK
<1>2. "new" \notin UnderWay /\ "raised" \notin UnderWay /\ "returned" \notin UnderWay
  BY DEF UnderWay, Waiting, Draining, Cleaning
<1>3. ASSUME NEW k \in Closers, Aclose(k) PROVE LifecycleInv'
  <2>1. /\ closer[k] = "new" /\ UNCHANGED <<op, callback, tool, stage, cleanup, closed, down>>
    BY <1>3 DEF Aclose, work
  <2>2. PICK t \in {"returned", "raised", "claimed", "sync claimed"} :
          /\ closer' = [closer EXCEPT ![k] = t]
          /\ t \in Waiting => ~closed /\ ~closing
          /\ t = "sync claimed" => "sync" \in PendingLoops
    BY <1>3 DEF Aclose, Waiting
  <2>3. /\ t \in Waiting => closing' = TRUE
        /\ t \notin Waiting => closing' = closing
    BY <1>1, <1>3, <2>2 DEF Aclose, Waiting
  <2>4. CASE t \notin Waiting
    <3>1. t \in {"raised", "returned"}
      BY <2>2, <2>4 DEF Waiting
    <3>2. QED
      BY <1>1, <1>2, <2>1, <2>2, <2>3, <2>4, <3>1, ClosingKeepsInv
         DEF Cleaning, OnSyncLoop, Waiting
  <2>5. CASE t \in Waiting
    <3>1. /\ t \in UnderWay /\ t \notin Cleaning /\ t \notin {"stopping", "joining"}
      BY <2>5 DEF Waiting, UnderWay, Cleaning
    <3>2. t \in OnSyncLoop =>
            \E o \in SyncOps : op[o] \in {"posted", "active", "ended", "refused", "cut"}
      <4> SUFFICES ASSUME t \in OnSyncLoop
                   PROVE  \E o \in SyncOps : op[o] \in {"posted", "active", "ended", "refused", "cut"}
        OBVIOUS
      <4>1. PICK o \in Ops : /\ Loop(o) = "sync"
                            /\ \/ op[o] \in {"posted", "active"} \/ stage[o] = "pending"
                               \/ cleanup[o] \in {"pending", "calling"}
        BY <2>2, <2>5 DEF OnSyncLoop, Waiting, PendingLoops
      <4>2. o \in SyncOps
        BY <4>1 DEF Loop
      <4>3. op[o] \notin {"new", "checked", "ensured"}
        BY <4>1 DEF WorkIsAdmitted
      <4>4. QED
        BY <4>2, <4>3 DEF LifecycleTypeOK
    <3>3. QED
      BY <1>1, <1>2, <2>1, <2>2, <2>3, <2>5, <3>1, <3>2, ClosingKeepsInv
  <2>6. QED
    BY <2>4, <2>5
<1>4. ASSUME NEW k \in Threads, Close(k) PROVE LifecycleInv'
  <2>1. /\ closer[k] = "new" /\ UNCHANGED <<op, callback, tool, stage, cleanup, down>>
    BY <1>4 DEF Close, work
  <2>2. PICK t \in {"returned", "raised", "stopping"} :
          /\ closer' = [closer EXCEPT ![k] = t]
          /\ t = "stopping" => ~closed /\ ~closing /\ ~PendingWork /\ ~PendingCleanup
    BY <1>4 DEF Close
  <2>3. closer'[k] = t
    BY <1>1, <2>2
  <2>4. /\ t = "stopping" => closing' = TRUE /\ closed' = TRUE
        /\ t # "stopping" => closing' = closing /\ closed' = closed
    BY <1>1, <1>4, <2>3 DEF Close
  <2>5. /\ "stopping" \in UnderWay \ Waiting /\ "stopping" \notin Cleaning
        /\ "stopping" \notin OnSyncLoop /\ "stopping" \notin Waiting
    BY DEF UnderWay, Waiting, Cleaning, OnSyncLoop
  <2>6. CASE t = "stopping"
    BY <1>1, <1>2, <2>1, <2>2, <2>4, <2>5, <2>6, ClosingKeepsInv
  <2>7. CASE t # "stopping"
    <3>1. t \in {"raised", "returned"} /\ closing' = closing /\ closed' = closed
      BY <2>2, <2>4, <2>7
    <3>2. t \notin UnderWay \cup Cleaning \cup OnSyncLoop \cup Waiting \cup {"stopping", "joining"}
      BY <1>2, <3>1 DEF Cleaning, OnSyncLoop, Waiting
    <3>3. QED
      BY <1>1, <1>2, <2>1, <2>2, <3>1, <3>2, ClosingKeepsInv
  <2>8. QED
    BY <2>6, <2>7
<1>5. QED
  BY <1>3, <1>4

\* The steps of a close that is under way.
LEMMA CloseStepKeepsInv ==
  ASSUME LifecycleInv, NEW k \in Closers \cup Threads, CloseStep(k)
  PROVE  LifecycleInv'
<1> /\ LifecycleTypeOK /\ CloseIsOrderly /\ (down => closed)
  BY DEF LifecycleInv
<1>1. /\ closing \in BOOLEAN /\ closed \in BOOLEAN /\ down \in BOOLEAN
      /\ callback \in [Ops -> {"none", "refused", "queued", "running", "done", "cancelled"}]
  BY DEF LifecycleTypeOK
<1>2. closer[k] \in UnderWay /\ closing
  <2>1. closer[k] \in UnderWay
    BY DEF CloseStep, SealClose, Drain, DrainCleanupTasks, ShutdownExecutors, FinishClose, UnderWay,
           Waiting, Draining, Cleaning
  <2>2. QED
    BY <2>1, CloserIsAlone
<1>3. "raised" \notin UnderWay /\ "returned" \notin UnderWay
  BY DEF UnderWay, Waiting, Draining, Cleaning
<1>4. CASE SealClose(k)
  <2>1. /\ closer[k] \in Waiting /\ ~closed /\ ~down
        /\ UNCHANGED <<op, callback, tool, stage, cleanup, down>>
    BY <1>4 DEF SealClose, Waiting, CloseIsOrderly, work
  <2>2. CASE closer' = [closer EXCEPT ![k] = "raised"] /\ closed' = FALSE /\ closing' = FALSE
    <3>1. "raised" \notin Cleaning /\ "raised" \notin OnSyncLoop /\ "raised" \notin Waiting
      BY DEF Cleaning, OnSyncLoop, Waiting
    <3>2. QED
      BY <1>1, <1>2, <1>3, <2>1, <2>2, <3>1, ClosingKeepsInv
  <2>3. ASSUME NEW t \in Draining, closer' = [closer EXCEPT ![k] = t], closed' = TRUE,
               closing' = TRUE, t = "sync draining" => closer[k] = "sync claimed"
        PROVE  LifecycleInv'
    <3>1. /\ t \in UnderWay /\ t \notin Waiting /\ t \notin Cleaning
          /\ t \notin {"stopping", "joining"}
          /\ t \in OnSyncLoop => closer[k] \in OnSyncLoop
      BY <2>3 DEF UnderWay, Waiting, Draining, Cleaning, OnSyncLoop
    <3>2. QED
      BY <1>1, <1>2, <2>1, <2>3, <3>1, ClosingKeepsInv
  <2>4. QED
    BY <1>4, <2>2, <2>3 DEF SealClose, Draining
<1>5. CASE Drain(k)
  <2>1. PICK t \in {"cleaning", "sync cleaning"} :
          /\ closer' = [closer EXCEPT ![k] = t]
          /\ t = "sync cleaning" => closer[k] = "sync draining"
    BY <1>5 DEF Drain
  <2>2. /\ closer[k] \in Draining /\ ~PendingWork
        /\ UNCHANGED <<op, callback, tool, stage, cleanup, closing, closed, down>>
    BY <1>5 DEF Drain, Draining, work
  <2>3. closed /\ ~down
    BY <1>2, <2>2 DEF CloseIsOrderly, UnderWay, Draining, Waiting
  <2>4. /\ t \in UnderWay /\ t \notin Waiting /\ t \notin {"stopping", "joining"}
        /\ t \in OnSyncLoop => closer[k] \in OnSyncLoop
    BY <2>1 DEF UnderWay, Waiting, Draining, Cleaning, OnSyncLoop
  <2>5. QED
    BY <1>1, <1>2, <2>1, <2>2, <2>3, <2>4, ClosingKeepsInv
<1>6. CASE DrainCleanupTasks(k)
  <2>1. /\ closer[k] \in Cleaning /\ ~PendingCleanup /\ closer' = [closer EXCEPT ![k] = "stopping"]
        /\ UNCHANGED <<op, callback, tool, stage, cleanup, closing, closed, down>>
    BY <1>6 DEF DrainCleanupTasks, Cleaning, work
  <2>2. closed /\ ~down /\ ~PendingWork
    BY <1>2, <2>1 DEF CloseIsOrderly, UnderWay, Cleaning, Waiting
  <2>3. /\ "stopping" \in UnderWay /\ "stopping" \notin Waiting /\ "stopping" \notin Cleaning
        /\ "stopping" \notin OnSyncLoop
    BY DEF UnderWay, Waiting, Cleaning, OnSyncLoop
  <2>4. QED
    BY <1>1, <1>2, <2>1, <2>2, <2>3, ClosingKeepsInv
<1>7. CASE ShutdownExecutors(k)
  <2>1. closer[k] = "stopping" /\ closed /\ ~PendingWork /\ ~PendingCleanup
    BY <1>7 DEF ShutdownExecutors, CloseIsOrderly, UnderWay, Waiting
  <2>2. /\ closer' = [closer EXCEPT ![k] = "joining"] /\ down' = TRUE
        /\ callback' = [o \in Ops |-> IF callback[o] = "queued" THEN "cancelled" ELSE callback[o]]
        /\ UNCHANGED <<op, tool, stage, cleanup, closing, closed>>
    BY <1>7, <2>1 DEF ShutdownExecutors
  <2>3. /\ callback' \in [Ops -> {"none", "refused", "queued", "running", "done", "cancelled"}]
        /\ \A o \in Ops : callback'[o] # "queued" /\ (callback[o] = "none" => callback'[o] = "none")
    BY <1>1, <2>2
  <2>4. /\ "joining" \in UnderWay /\ "joining" \notin Waiting /\ "joining" \notin Cleaning
        /\ "joining" \notin OnSyncLoop
    BY DEF UnderWay, Waiting, Cleaning, OnSyncLoop
  <2>5. QED
    BY <1>1, <1>2, <2>1, <2>2, <2>3, <2>4, ClosingKeepsInv
<1>8. CASE FinishClose(k)
  <2>1. /\ closer[k] = "joining" /\ closed /\ down /\ ~PendingWork /\ ~PendingCleanup
        /\ \A o \in Ops : callback[o] \notin {"queued", "running"}
    BY <1>8 DEF FinishClose, CloseIsOrderly, UnderWay, Waiting
  <2>2. /\ closer' = [closer EXCEPT ![k] = "returned"] /\ closing' = FALSE
        /\ UNCHANGED <<op, callback, tool, stage, cleanup, closed, down>>
    BY <1>8 DEF FinishClose, work
  <2>3. "returned" \notin Cleaning /\ "returned" \notin OnSyncLoop /\ "returned" \notin Waiting
    BY DEF Cleaning, OnSyncLoop, Waiting
  <2>4. QED
    BY <1>1, <1>2, <1>3, <2>1, <2>2, <2>3, ClosingKeepsInv
<1>9. QED
  BY <1>4, <1>5, <1>6, <1>7, <1>8 DEF CloseStep

\* A runtime starts open, with nothing to do.
LEMMA LifecycleInitInv == LifecycleInit => LifecycleInv
<1> SUFFICES ASSUME LifecycleInit PROVE LifecycleInv
  OBVIOUS
<1>1. LifecycleTypeOK
  BY DEF LifecycleInit, LifecycleTypeOK
<1>2. WorkIsAdmitted
  BY DEF LifecycleInit, WorkIsAdmitted
<1>3. \A k \in Closers \cup Threads : closer[k] \notin UnderWay \cup OnSyncLoop
  BY DEF LifecycleInit, UnderWay, OnSyncLoop, Waiting, Draining, Cleaning
<1>4. OneCloseUnderWay /\ SyncCloseHasWork /\ CloseIsOrderly
  BY <1>3 DEF LifecycleInit, OneCloseUnderWay, SyncCloseHasWork, CloseIsOrderly, UnderWay
<1>5. CleanShutdown /\ (down => closed)
  BY DEF LifecycleInit, CleanShutdown
<1>6. QED
  BY <1>1, <1>2, <1>4, <1>5 DEF LifecycleInv

\* Every step but such a race keeps the invariant.
LEMMA LifecycleStepKeepsInv ==
  ASSUME LifecycleInv, [LifecycleNext]_lifecycleVars, ~WithdrawalRaces
  PROVE  LifecycleInv'
<1>1. CASE UNCHANGED lifecycleVars
  BY <1>1 DEF lifecycleVars, LifecycleInv, LifecycleTypeOK, WorkIsAdmitted, OneCloseUnderWay,
              CloseIsOrderly, SyncCloseHasWork, CleanShutdown, PendingWork, PendingCleanup
<1>2. ASSUME NEW o \in Ops, CheckInvoke(o) \/ EnsureSyncLoop(o) \/ PostInvoke(o) \/ BeginOperation(o)
      PROVE  LifecycleInv'
  <2>1. PICK s \in {"refused", "checked", "ensured", "posted", "active"} :
          /\ op' = [op EXCEPT ![o] = s]
          /\ s \in {"posted", "active"} => ~closed
          /\ op[o] = "posted" => s \in {"refused", "active"}
          /\ s \in {"checked", "ensured", "posted"} => o \in SyncOps
    BY <1>2
       DEF LifecycleInv, WorkIsAdmitted, CheckInvoke, EnsureSyncLoop, PostInvoke, BeginOperation
  <2>2. /\ op[o] \in {"new", "checked", "ensured", "posted"}
        /\ UNCHANGED <<callback, tool, stage, cleanup, closing, closed, down, closer>>
    BY <1>2 DEF CheckInvoke, EnsureSyncLoop, PostInvoke, BeginOperation
  <2>3. QED
    BY <2>1, <2>2, AdmissionKeepsInv
<1>3. ASSUME NEW o \in Ops, WithdrawInvoke(o) PROVE LifecycleInv'
  BY <1>3, WithdrawInvokeKeepsInv DEF WithdrawalRaces
<1>4. QED
  BY <1>1, <1>2, <1>3, EndOperationKeepsInv, StartingKeepsInv, WorkingKeepsInv, CallKeepsInv,
     CloseStepKeepsInv DEF LifecycleNext, OperationStep

\* A runtime that says it is closed has left nothing behind, however many
\* operations, leftovers and closes there are, unless an invoke() that withdraws
\* stops the loop under another one.
THEOREM ShutdownIsCleanWithoutRace ==
  LifecycleSpec /\ [][~WithdrawalRaces]_lifecycleVars => []CleanShutdown
<1>1. LifecycleInv /\ [LifecycleNext]_lifecycleVars /\ [~WithdrawalRaces]_lifecycleVars
        => LifecycleInv'
  <2>1. LifecycleInv /\ UNCHANGED lifecycleVars => LifecycleInv'
    BY SMTT(30) DEF lifecycleVars, LifecycleInv, LifecycleTypeOK, WorkIsAdmitted, OneCloseUnderWay,
           CloseIsOrderly, SyncCloseHasWork, CleanShutdown, PendingWork, PendingCleanup
  <2>2. QED
    BY <2>1, LifecycleStepKeepsInv
<1>2. LifecycleInv => CleanShutdown
  BY DEF LifecycleInv
<1>3. QED
  BY <1>1, <1>2, LifecycleInitInv, PTL DEF LifecycleSpec

\* With a single invoke() there is no such race, and the shutdown is clean.
THEOREM ShutdownIsClean ==
  ASSUME \A p, q \in SyncOps : p = q
  PROVE  LifecycleSpec => []CleanShutdown
<1>1. LifecycleInv /\ [LifecycleNext]_lifecycleVars => LifecycleInv'
  BY LifecycleStepKeepsInv, SingleInvokeDoesNotRace
<1>2. LifecycleInv => CleanShutdown
  BY DEF LifecycleInv
<1>3. QED
  BY <1>1, <1>2, LifecycleInitInv, PTL DEF LifecycleSpec

\* Nor is an admitted operation cut off in any other way than by that race.
THEOREM OperationsEndNaturallyWithoutRace ==
  LifecycleSpec /\ [][~WithdrawalRaces]_lifecycleVars => []AdmittedEndsNaturally
<1>1. LifecycleInv /\ [LifecycleNext]_lifecycleVars /\ [~WithdrawalRaces]_lifecycleVars
        => LifecycleInv'
  <2>1. LifecycleInv /\ UNCHANGED lifecycleVars => LifecycleInv'
    BY SMTT(30) DEF lifecycleVars, LifecycleInv, LifecycleTypeOK, WorkIsAdmitted, OneCloseUnderWay,
           CloseIsOrderly, SyncCloseHasWork, CleanShutdown, PendingWork, PendingCleanup
  <2>2. QED
    BY <2>1, LifecycleStepKeepsInv
<1>2. LifecycleInv => AdmittedEndsNaturally
  BY DEF LifecycleInv, WorkIsAdmitted, AdmittedEndsNaturally
<1>3. QED
  BY <1>1, <1>2, LifecycleInitInv, PTL DEF LifecycleSpec

-----------------------------------------------------------------------------
(* The schema of the SQLite authorities.                                       *)

\* What a migration may make of a row: a block stays one, a stored result is
\* neither lost nor invented, and only an untouched claim stays active.
RowSurvives(old, new) ==
    /\ old.state # "none" => new.state # "none"
    /\ new.state = "completed" <=> old.state = "completed" /\ (old.result = "json" \/ new = old)
    /\ new.state = "pending" => old = new

\* _normalize_legacy_row keeps every block.
LEMMA NormalizedRowSurvives ==
    ASSUME NEW row \in Row
    PROVE  /\ NormalizeLegacyRow(row) \in Row
           /\ RowSurvives(row, NormalizeLegacyRow(row))
<1> DEFINE blocked(mark) == [state |-> mark, result |-> "none", lease |-> "none", error |-> TRUE]
<1>1. CASE row.state = "pending"
  <2>1. NormalizeLegacyRow(row) \in {row, blocked("unknown")}
    BY <1>1 DEF NormalizeLegacyRow
  <2>2. blocked("unknown") \in Row /\ RowSurvives(row, blocked("unknown"))
    BY <1>1 DEF Row, RowSurvives
  <2>3. RowSurvives(row, row)
    BY DEF RowSurvives
  <2> HIDE DEF blocked
  <2> QED BY <2>1, <2>2, <2>3
<1>2. CASE row.state = "completed"
  <2>1. NormalizeLegacyRow(row) = IF row.result = "json"
                                  THEN [row EXCEPT !.lease = "none", !.error = FALSE]
                                  ELSE blocked("applied_no_result")
    BY <1>2 DEF NormalizeLegacyRow
  <2>2. CASE row.result = "json"
    BY <1>2, <2>1, <2>2 DEF Row, RowSurvives
  <2>3. CASE row.result # "json"
    <3>1. blocked("applied_no_result") \in Row /\ RowSurvives(row, blocked("applied_no_result"))
      BY <1>2, <2>3 DEF Row, RowSurvives
    <3> HIDE DEF blocked
    <3> QED BY <2>1, <2>3, <3>1
  <2> QED BY <2>2, <2>3
<1>3. CASE row.state \notin {"pending", "completed"}
  <2>1. NormalizeLegacyRow(row) = [row EXCEPT !.result = "none", !.lease = "none"]
    BY <1>3 DEF NormalizeLegacyRow
  <2> QED BY <1>3, <2>1 DEF Row, RowSurvives
<1> QED BY <1>1, <1>2, <1>3

\* The ledger's part of a database.
SameLedger(d, x) ==
    /\ x.version = d.version /\ x.tables = d.tables /\ x.guards = d.guards
    /\ x.marker = d.marker /\ x.pending = d.pending
    /\ x.foreignLedger = d.foreignLedger /\ x.orphans = d.orphans
    /\ x.heads = d.heads /\ x.outbox = d.outbox

\* What the store's initializer commits: a store of the current version beside
\* an unchanged ledger, with every block kept; a legacy store only when that is
\* allowed, and beside a ledger only in the ledger's own migration.
LEMMA InitializedStore ==
    ASSUME NEW d \in Database, NEW a \in BOOLEAN, NEW s \in BOOLEAN,
           NEW x \in InitializeSchema(d, a, s)
    PROVE  /\ x \in Database /\ SameLedger(d, x) /\ ~Legacy(x)
           /\ \A k \in RowKeys : RowSurvives(d.rows[k], x.rows[k])
           /\ Legacy(d) => a
           /\ s => d.version = NoTable
<1> DEFINE migrated == IF d.records = "v05" THEN MigrateLegacyRecords(d) ELSE d
           installed == [migrated EXCEPT !.records = "v2", !.versioned = TRUE, !.indexes = Indexes]
<1>1. /\ PreflightSchema(d, a) # "refused" /\ (s => StandaloneMigrationTarget(d))
      /\ x \in {d, installed} /\ (x = d => PreflightSchema(d, a) = "current" \/ x = installed)
  BY DEF InitializeSchema
<1>2. s => d.version = NoTable
  BY <1>1 DEF StandaloneMigrationTarget
<1>3. Legacy(d) => a
  BY <1>1 DEF Legacy, PreflightSchema
<1>4. CASE x = d /\ PreflightSchema(d, a) = "current"
  <2>1. d.records # "none" /\ d.versioned
    BY <1>4 DEF PreflightSchema, Database
  <2>2. \A k \in RowKeys : RowSurvives(d.rows[k], d.rows[k])
    BY DEF RowSurvives
  <2> QED BY <1>2, <1>3, <1>4, <2>1, <2>2 DEF SameLedger, Legacy
<1>5. CASE x = installed
  <2>1. /\ migrated \in Database /\ SameLedger(d, migrated)
        /\ \A k \in RowKeys : RowSurvives(d.rows[k], migrated.rows[k])
    <3>1. CASE d.records = "v05"
      <4>1. \A k \in RowKeys : d.rows[k] \in Row
        BY DEF Database
      <4>2. [k \in RowKeys |-> NormalizeLegacyRow(d.rows[k])] \in [RowKeys -> Row]
        BY <4>1, NormalizedRowSurvives
      <4>3. migrated = [d EXCEPT !.records = "v2", !.indexes = {},
                                 !.rows = [k \in RowKeys |-> NormalizeLegacyRow(d.rows[k])]]
        BY <3>1 DEF MigrateLegacyRecords
      <4>4. migrated \in Database /\ SameLedger(d, migrated)
            /\ migrated.rows = [k \in RowKeys |-> NormalizeLegacyRow(d.rows[k])]
        BY <4>2, <4>3 DEF Database, SameLedger
      <4> HIDE DEF migrated
      <4> QED BY <4>1, <4>4, NormalizedRowSurvives
    <3>2. CASE d.records # "v05"
      BY <3>2 DEF SameLedger, RowSurvives
    <3> QED BY <3>1, <3>2
  <2> HIDE DEF migrated
  <2>2. installed \in Database /\ SameLedger(migrated, installed) /\ installed.rows = migrated.rows
        /\ installed.versioned
    BY <2>1 DEF Database, SameLedger, Indexes
  <2> HIDE DEF installed
  <2> QED BY <1>2, <1>3, <1>5, <2>1, <2>2 DEF SameLedger, Legacy
<1> QED BY <1>1, <1>4, <1>5

\* The ledger's initializer brings the ledger to the current version and does
\* not touch the store.
LEMMA UpgradedLedger ==
    ASSUME NEW d \in Database
    PROVE  /\ Upgraded(d) \in Database /\ Upgraded(d).version = Current
           /\ Upgraded(d).records = d.records /\ Upgraded(d).versioned = d.versioned
           /\ Upgraded(d).rows = d.rows /\ Upgraded(d).indexes = d.indexes
           /\ Upgraded(d).foreignStore = d.foreignStore /\ Upgraded(d).heads = d.heads
<1> DEFINE o == IF d.version < 4 THEN BackfillLegacyAuditOutbox(d)
                ELSE IF d.version = 4
                THEN [a \in Actions |-> NormalizeLegacySnapshotEnqueueTimes(d.outbox[a])]
                ELSE d.outbox
<1>1. d.outbox \in [Actions -> SUBSET Envelope] /\ d.guards \subseteq Guards
  BY DEF Database
<1>2. BackfillLegacyAuditOutbox(d) \in [Actions -> SUBSET Envelope]
  <2>1. [type |-> "migration_snapshot_recorded", created |-> "enqueued", touched |-> FALSE] \in Envelope
    BY DEF Envelope
  <2> QED BY <1>1, <2>1 DEF BackfillLegacyAuditOutbox
<1>3. \A a \in Actions : NormalizeLegacySnapshotEnqueueTimes(d.outbox[a]) \subseteq Envelope
  <2> SUFFICES ASSUME NEW a \in Actions, NEW e \in d.outbox[a]
               PROVE  (IF Unattempted(e) THEN [e EXCEPT !.created = "enqueued"] ELSE e) \in Envelope
    BY DEF NormalizeLegacySnapshotEnqueueTimes
  <2>1. e \in Envelope
    BY <1>1
  <2> QED BY <2>1 DEF Envelope
<1>4. o \in [Actions -> SUBSET Envelope]
  BY <1>1, <1>2, <1>3
<1>5. Upgraded(d) = [d EXCEPT !.tables = CoreTables, !.marker = TRUE, !.pending = TRUE,
                              !.version = Current, !.guards = Guards, !.outbox = o]
  BY DEF Upgraded
<1>6. Current \in -2..6
  BY SMTT(30) DEF Current
<1> HIDE DEF o
<1>7. CoreTables \subseteq CoreTables /\ TRUE \in BOOLEAN
  OBVIOUS
<1>8. Upgraded(d) \in Database
  BY <1>4, <1>5, <1>6, <1>7 DEF Database
<1> QED BY <1>5, <1>8, SMTT(30) DEF Database

\* What a construction may commit, by its kind.
LEMMA CommittedDatabase ==
    ASSUME db \in Database, NEW c \in Constructions, NEW x \in Committable(c)
    PROVE  /\ x \in Database
           /\ \A k \in RowKeys : RowSurvives(db.rows[k], x.rows[k])
           /\ Legacy(db) /\ PreOutbox(db) => ~Legacy(x) /\ ~PreOutbox(x)
           /\ c \in {"store", "ledger"} => ~Legacy(db)
           /\ c \in {"store", "ledger"} /\ PreOutbox(db) => SameLedger(db, x)
<1>r. \A k \in RowKeys : RowSurvives(db.rows[k], db.rows[k])
  BY DEF RowSurvives
<1>v. \A d \in Database : PreOutbox(d) => d.version # NoTable
  BY SMTT(30) DEF PreOutbox, NoTable
<1>1. CASE c = "store"
  <2>1. x \in InitializeSchema(db, FALSE, FALSE)
    BY <1>1 DEF Committable
  <2> QED BY <1>1, <2>1, InitializedStore
<1>2. CASE c = "migrate_store"
  <2>1. x \in InitializeSchema(db, TRUE, TRUE)
    BY <1>2 DEF Committable
  <2> QED BY <1>2, <1>v, <2>1, InitializedStore
<1>3. CASE c = "ledger"
  <2>1. x \in Initialize(db, FALSE)
    BY <1>3 DEF Committable
  <2>2. /\ x = Upgraded(db) /\ PreflightSchema(db, FALSE) # "refused"
        /\ ValidateReconciliationSchema(db, FALSE)
    BY <2>1 DEF Initialize
  <2>3. ~Legacy(db)
    BY <2>2 DEF PreflightSchema, Legacy
  <2>4. ~PreOutbox(db)
    BY <2>2, SMTT(30) DEF ValidateReconciliationSchema, PreOutbox, NoTable
  <2> QED BY <1>3, <1>r, <2>2, <2>3, <2>4, UpgradedLedger
<1>4. CASE c = "migrate_ledger"
  <2>1. x \in ControlledMigration(db)
    BY <1>4 DEF Committable
  <2>2. PICK y \in Initialize(db, TRUE) :
          x \in IF PreflightSchema(db, TRUE) = "absent" THEN {y} ELSE InitializeSchema(y, TRUE, FALSE)
    BY <2>1 DEF ControlledMigration
  <2>3. y = Upgraded(db)
    BY DEF Initialize
  <2>4. /\ y \in Database /\ y.version = Current /\ y.rows = db.rows
        /\ y.records = db.records /\ y.versioned = db.versioned
    BY <2>3, UpgradedLedger
  <2>5. PreflightSchema(db, TRUE) = "absent" => ~Legacy(db)
    BY DEF PreflightSchema, Legacy
  <2>6. CASE x = y /\ PreflightSchema(db, TRUE) = "absent"
    BY <1>4, <1>r, <2>4, <2>5, <2>6
  <2>7. CASE x \in InitializeSchema(y, TRUE, FALSE)
    <3>1. /\ x \in Database /\ SameLedger(y, x) /\ ~Legacy(x)
          /\ \A k \in RowKeys : RowSurvives(y.rows[k], x.rows[k])
      BY <2>4, <2>7, InitializedStore
    <3>2. ~PreOutbox(x)
      BY <2>4, <3>1, SMTT(30) DEF SameLedger, PreOutbox, Current
    <3> QED BY <1>4, <2>4, <3>1, <3>2
  <2> QED BY <2>2, <2>6, <2>7
<1> QED BY <1>1, <1>2, <1>3, <1>4 DEF Constructions

\* A head that a ledger in service creates touches no row and no schema.
LEMMA HeadStep ==
    ASSUME db \in Database, NEW p, NEW a \in Actions, CreatesHead(p, a)
    PROVE  /\ db' \in Database /\ db'.rows = db.rows
           /\ db'.records = db.records /\ db'.versioned = db.versioned
           /\ db'.version = db.version /\ db'.tables = db.tables /\ db'.guards = db.guards
<1> DEFINE e == [type |-> "unknown_recorded", created |-> "enqueued", touched |-> FALSE]
           o == [db.outbox EXCEPT ![a] = db.outbox[a] \union {e}]
<1>1. e \in Envelope /\ db.outbox \in [Actions -> SUBSET Envelope]
  BY DEF Database, Envelope
<1>2. db' = [db EXCEPT !.heads = db.heads \union {a}, !.outbox = o]
  BY DEF CreatesHead, Database
<1> HIDE DEF e
<1>3. o \in [Actions -> SUBSET Envelope]
  BY <1>1
<1> HIDE DEF o
<1> QED BY <1>2, <1>3 DEF Database

\* The type invariant and what a step does to the database: nothing, a restore,
\* a construction of some process, or a new head.
LEMMA SchemaStep ==
    ASSUME SchemaTypeOK, [SchemaNext]_schemaVars
    PROVE  \/ db' = db
           \/ restores' # restores /\ db' \in Database
           \/ \E p \in Processes : /\ phase[p] = "initialize" /\ phase'[p] = "open"
                                   /\ db' \in Committable(kind[p])
           \/ /\ db' \in Database /\ db'.rows = db.rows
              /\ db'.records = db.records /\ db'.versioned = db.versioned
              /\ db'.version = db.version /\ db'.tables = db.tables /\ db'.guards = db.guards
<1>0. /\ db \in Database /\ restores \in Nat
      /\ phase \in [Processes ->
              {"idle", "preflight", "preflight_store", "initialize", "open", "refused"}]
  BY SchemaConstants, SMTT(30) DEF SchemaTypeOK
<1>1. CASE Restore
  BY <1>0, <1>1, SchemaConstants, SMTT(30) DEF Restore
<1>2. ASSUME NEW p \in Processes, InitializeDatabase(p)
      PROVE  \/ db' = db
             \/ phase[p] = "initialize" /\ phase'[p] = "open" /\ db' \in Committable(kind[p])
  BY <1>0, <1>2 DEF InitializeDatabase
<1>3. ASSUME NEW p \in Processes, NEW a \in Actions, CreatesHead(p, a)
      PROVE  /\ db' \in Database /\ db'.rows = db.rows
             /\ db'.records = db.records /\ db'.versioned = db.versioned
             /\ db'.version = db.version /\ db'.tables = db.tables /\ db'.guards = db.guards
  BY <1>0, <1>3, HeadStep
<1>4. ASSUME NEW p \in Processes,
             \/ \E c \in Constructions : Construct(p, c)
             \/ PreflightReconciliation(p) \/ PreflightIdempotency(p) \/ Leave(p)
      PROVE  db' = db
  BY <1>4 DEF Construct, PreflightReconciliation, PreflightIdempotency, Leave
<1>5. CASE UNCHANGED schemaVars
  BY <1>5 DEF schemaVars
<1>6. CASE SchemaNext
  BY <1>1, <1>2, <1>3, <1>4, <1>6 DEF SchemaNext
<1> QED BY <1>5, <1>6

\* The database always has the shape that the checks of both authorities know,
\* and every process is in some phase of some construction.
THEOREM SchemaTypeCorrect == SchemaSpec => []SchemaTypeOK
<1>1. SchemaInit => SchemaTypeOK
  BY SchemaConstants, SMTT(30) DEF SchemaInit, SchemaTypeOK, Constructions
<1>2. SchemaTypeOK /\ [SchemaNext]_schemaVars => SchemaTypeOK'
  <2> SUFFICES ASSUME SchemaTypeOK, [SchemaNext]_schemaVars PROVE SchemaTypeOK'
    OBVIOUS
  <2>1. db' \in Database
    BY SchemaStep, CommittedDatabase DEF SchemaTypeOK
  <2>2. /\ phase' \in [Processes ->
              {"idle", "preflight", "preflight_store", "initialize", "open", "refused"}]
        /\ kind' \in [Processes -> Constructions]
        /\ restores' \in 0..MaxRestores
    <3>1. CASE UNCHANGED schemaVars
      BY <3>1 DEF schemaVars, SchemaTypeOK
    <3>2. CASE Restore
      BY <3>2, SchemaConstants, SMTT(30) DEF Restore, SchemaTypeOK
    <3>3. ASSUME NEW p \in Processes,
                 \/ \E c \in Constructions : Construct(p, c)
                 \/ PreflightReconciliation(p) \/ PreflightIdempotency(p) \/ Leave(p)
                 \/ InitializeDatabase(p) \/ \E a \in Actions : CreatesHead(p, a)
          PROVE  /\ phase' \in [Processes ->
                       {"idle", "preflight", "preflight_store", "initialize", "open", "refused"}]
                 /\ kind' \in [Processes -> Constructions]
                 /\ restores' \in 0..MaxRestores
      <4> DEFINE Phases ==
                   {"idle", "preflight", "preflight_store", "initialize", "open", "refused"}
      <4>1. phase \in [Processes -> Phases] /\ kind \in [Processes -> Constructions]
            /\ restores \in 0..MaxRestores
        BY DEF SchemaTypeOK
      <4>2. phase' = phase \/ \E q \in Phases : phase' = [phase EXCEPT ![p] = q]
        BY <3>3 DEF Construct, PreflightReconciliation, PreflightIdempotency, Leave,
                    InitializeDatabase, CreatesHead
      <4>3. kind' = kind \/ \E c \in Constructions : kind' = [kind EXCEPT ![p] = c]
        BY <3>3 DEF Construct, PreflightReconciliation, PreflightIdempotency, Leave,
                    InitializeDatabase, CreatesHead, Constructions
      <4>4. restores' = restores
        BY <3>3 DEF Construct, PreflightReconciliation, PreflightIdempotency, Leave,
                    InitializeDatabase, CreatesHead
      <4> HIDE DEF Phases
      <4>5. phase' \in [Processes -> Phases]
        BY <4>1, <4>2
      <4>6. kind' \in [Processes -> Constructions]
        BY <4>1, <4>3
      <4> QED BY <4>1, <4>4, <4>5, <4>6 DEF Phases
    <3>4. CASE SchemaNext
      BY <3>2, <3>3, <3>4 DEF SchemaNext
    <3> QED BY <3>1, <3>4
  <2> QED BY <2>1, <2>2 DEF SchemaTypeOK
<1> QED BY <1>1, <1>2, PTL DEF SchemaSpec

\* No construction and no migration frees a key, loses a stored result or makes
\* one up, whatever databases are put in place in between.
THEOREM BlocksAreKept == SchemaSpec => BlocksSurvive
<1>1. ASSUME SchemaTypeOK, [SchemaNext]_schemaVars, restores' = restores, NEW k \in RowKeys
      PROVE  RowSurvives(db.rows[k], db'.rows[k])
  <2>1. \A row : RowSurvives(row, row)
    BY DEF RowSurvives
  <2>2. ASSUME NEW p \in Processes, db' \in Committable(kind[p])
        PROVE  RowSurvives(db.rows[k], db'.rows[k])
    BY <1>1, <2>2, CommittedDatabase DEF SchemaTypeOK
  <2> QED BY <1>1, <2>1, <2>2, SchemaStep
<1>2. SchemaTypeOK /\ [SchemaNext]_schemaVars =>
        [restores' = restores => \A k \in RowKeys :
            LET old == db.rows[k]  new == db'.rows[k]
            IN /\ old.state # "none" => new.state # "none"
               /\ new.state = "completed" <=> old.state = "completed" /\ (old.result = "json" \/ new = old)
               /\ new.state = "pending" => old = new]_schemaVars
  BY <1>1 DEF RowSurvives
<1> QED BY <1>2, SchemaTypeCorrect, PTL DEF SchemaSpec, BlocksSurvive

\* A legacy store and a pre-outbox ledger in one file are upgraded in one step.
THEOREM AuthoritiesMigrateTogether == SchemaSpec => MigratesTogether
<1>1. ASSUME SchemaTypeOK, [SchemaNext]_schemaVars, restores' = restores, Legacy(db), PreOutbox(db)
      PROVE  Legacy(db') <=> PreOutbox(db')
  <2>1. ASSUME NEW p \in Processes, db' \in Committable(kind[p])
        PROVE  ~Legacy(db') /\ ~PreOutbox(db')
    BY <1>1, <2>1, CommittedDatabase DEF SchemaTypeOK
  <2>2. CASE db'.records = db.records /\ db'.versioned = db.versioned /\ db'.version = db.version
    BY <1>1, <2>2 DEF Legacy, PreOutbox
  <2> QED BY <1>1, <2>1, <2>2, SchemaStep
<1>2. SchemaTypeOK /\ [SchemaNext]_schemaVars =>
        [restores' = restores /\ Legacy(db) /\ PreOutbox(db) =>
            (Legacy(db') <=> PreOutbox(db'))]_schemaVars
  BY <1>1
<1> QED BY <1>2, SchemaTypeCorrect, PTL DEF SchemaSpec, MigratesTogether

\* An ordinary constructor never writes to an unversioned store nor to a ledger
\* without an outbox, though it may have checked another database before; it
\* does upgrade a ledger of version 4.
THEOREM OnlyMigrationRewrites == SchemaSpec => MigrationIsExplicit
<1> DEFINE Kept == /\ Legacy(db) => Legacy(db') /\ db'.rows = db.rows
                                     /\ db'.version = db.version /\ db'.tables = db.tables
                   /\ PreOutbox(db) => /\ PreOutbox(db') /\ db'.tables = db.tables
                                        /\ db'.guards = db.guards
<1>1. ASSUME SchemaTypeOK, [SchemaNext]_schemaVars, restores' = restores, ~Migrating
      PROVE  Kept
  <2>1. ASSUME NEW p \in Processes, phase[p] = "initialize", phase'[p] = "open",
               db' \in Committable(kind[p])
        PROVE  Kept
    <3>1. kind[p] \in {"store", "ledger"} /\ kind[p] \in Constructions /\ db \in Database
      BY <1>1, <2>1 DEF Migrating, SchemaTypeOK, Constructions
    <3>2. ~Legacy(db) /\ (PreOutbox(db) => SameLedger(db, db'))
      BY <2>1, <3>1, CommittedDatabase
    <3> QED BY <3>2 DEF SameLedger, PreOutbox
  <2>2. CASE /\ db'.rows = db.rows /\ db'.records = db.records /\ db'.versioned = db.versioned
             /\ db'.version = db.version /\ db'.tables = db.tables /\ db'.guards = db.guards
    BY <2>2 DEF Legacy, PreOutbox
  <2> HIDE DEF Kept
  <2> QED BY <1>1, <2>1, <2>2, SchemaStep
<1>2. SchemaTypeOK /\ [SchemaNext]_schemaVars =>
        [restores' = restores /\ ~Migrating /\ (Legacy(db) \/ PreOutbox(db)) => Kept]_schemaVars
  BY <1>1
<1> QED BY <1>2, SchemaTypeCorrect, PTL DEF SchemaSpec, MigrationIsExplicit

\* What a process that serves from the database relies on.
LedgerIsIntact(d) == d.version = Current /\ AuditOutboxIntegrity(d, TRUE)

SchemaInv ==
    /\ SchemaTypeOK
    /\ WrittenByRelease(db)
    /\ OpenMeansIntact

\* _normalize_legacy_row makes every row readable.
LEMMA NormalizedRowIsReadable ==
    ASSUME NEW row \in Row
    PROVE  ReadableRow(NormalizeLegacyRow(row))
<1> DEFINE blocked(mark) == [state |-> mark, result |-> "none", lease |-> "none", error |-> TRUE]
<1>1. CASE row.state = "pending"
  <2>1. NormalizeLegacyRow(row) = IF row.lease = "aware" /\ row.result = "none" /\ ~row.error
                                  THEN row ELSE blocked("unknown")
    BY <1>1 DEF NormalizeLegacyRow
  <2>2. QED
    BY <1>1, <2>1, SMTT(30) DEF ReadableRow, Row
<1>2. CASE row.state = "completed"
  <2>1. NormalizeLegacyRow(row) = IF row.result = "json"
                                  THEN [row EXCEPT !.lease = "none", !.error = FALSE]
                                  ELSE blocked("applied_no_result")
    BY <1>2 DEF NormalizeLegacyRow
  <2>2. QED
    BY <1>2, <2>1, SMTT(30) DEF ReadableRow, Row
<1>3. CASE row.state \notin {"pending", "completed"}
  <2>1. NormalizeLegacyRow(row) = [row EXCEPT !.result = "none", !.lease = "none"]
    BY <1>3 DEF NormalizeLegacyRow
  <2>2. QED
    BY <1>3, <2>1 DEF ReadableRow, Row
<1>4. QED
  BY <1>1, <1>2, <1>3

\* The store's initializer leaves a complete store with readable rows, and a
\* complete one as it was.
LEMMA InitializedStoreIsIntact ==
    ASSUME NEW d \in Database, NEW a \in BOOLEAN, NEW s \in BOOLEAN, WrittenByRelease(d),
           NEW x \in InitializeSchema(d, a, s)
    PROVE  SchemaIntegrity(x) /\ WrittenByRelease(x)
<1> DEFINE migrated == IF d.records = "v05" THEN MigrateLegacyRecords(d) ELSE d
           installed == [migrated EXCEPT !.records = "v2", !.versioned = TRUE, !.indexes = Indexes]
<1>1. /\ x \in {d, installed} /\ (x = installed => SchemaIntegrity(x) \/ x = d)
      /\ x = d => PreflightSchema(d, a) = "current" \/ (x = installed /\ SchemaIntegrity(x))
  BY DEF InitializeSchema
<1>2. PreflightSchema(d, a) = "current" => SchemaIntegrity(d)
  BY DEF PreflightSchema, Database
<1>3. SchemaIntegrity(x)
  BY <1>1, <1>2
<1>4. SameLedger(d, x)
  BY InitializedStore
<1>5. \A k \in RowKeys : ReadableRow(x.rows[k])
  <2>1. CASE x = d
    BY <1>3, <2>1 DEF WrittenByRelease, SchemaIntegrity
  <2>2. CASE x = installed /\ d.records = "v05"
    <3>1. \A k \in RowKeys : d.rows[k] \in Row
      BY DEF Database
    <3>2. installed.rows = [k \in RowKeys |-> NormalizeLegacyRow(d.rows[k])]
      BY <2>2 DEF MigrateLegacyRecords, Database
    <3> HIDE DEF installed
    <3>3. QED
      BY <2>2, <3>1, <3>2, NormalizedRowIsReadable
  <2>3. CASE x = installed /\ d.records # "v05"
    <3>1. installed.rows = d.rows
      BY <2>3 DEF Database
    <3> HIDE DEF installed
    <3>2. QED
      BY <2>3, <3>1 DEF WrittenByRelease
  <2>4. QED
    BY <1>1, <2>1, <2>2, <2>3
<1>6. QED
  BY <1>3, <1>4, <1>5 DEF WrittenByRelease, SameLedger

\* The ledger's upgrade puts every head in the audit's sight.
LEMMA UpgradeKeepsObligations ==
    ASSUME NEW d \in Database, NEW a \in BOOLEAN, WrittenByRelease(d),
           ValidateReconciliationSchema(d, a)
    PROVE  WrittenByRelease(Upgraded(d))
<1>1. /\ Upgraded(d).records = d.records /\ Upgraded(d).rows = d.rows /\ Upgraded(d).heads = d.heads
      /\ Upgraded(d).version = Current
  BY UpgradedLedger
<1>2. d.version \in -2..6 /\ d.outbox \in [Actions -> SUBSET Envelope] /\ d.heads \subseteq Actions
  BY DEF Database
<1>3. d.version < 6 /\ (d.version >= 4 => "outbox" \in d.tables)
  BY <1>2, SMTT(30)
     DEF ValidateReconciliationSchema, AuditOutboxIntegrity, CoreTables, NoTable, Current
<1>4. d.version >= 4 => \A h \in d.heads : d.outbox[h] # {}
  BY <1>2, <1>3, SMTT(30) DEF WrittenByRelease, Current
<1>5. Upgraded(d).outbox = IF d.version < 4 THEN BackfillLegacyAuditOutbox(d)
                ELSE IF d.version = 4
                THEN [h \in Actions |-> NormalizeLegacySnapshotEnqueueTimes(d.outbox[h])]
                ELSE d.outbox
  BY DEF Upgraded, Database
<1>6. ASSUME NEW h \in d.heads
      PROVE  Upgraded(d).outbox[h] # {}
  <2>1. CASE d.version < 4
    BY <1>2, <1>5, <2>1 DEF BackfillLegacyAuditOutbox
  <2>2. CASE d.version = 4
    <3>1. PICK e \in d.outbox[h] : TRUE
      BY <1>4, <2>2, SMTT(30)
    <3>2. (IF Unattempted(e) THEN [e EXCEPT !.created = "enqueued"] ELSE e)
             \in NormalizeLegacySnapshotEnqueueTimes(d.outbox[h])
      BY DEF NormalizeLegacySnapshotEnqueueTimes
    <3>3. QED
      BY <1>2, <1>5, <2>2, <3>2, SMTT(30)
  <2>3. CASE d.version > 4
    BY <1>2, <1>4, <1>5, <2>3, SMTT(30)
  <2>4. QED
    BY <1>2, <2>1, <2>2, <2>3, SMTT(30)
<1>7. QED
  BY <1>1, <1>6 DEF WrittenByRelease

\* What a construction commits is complete for its own authority, and the other
\* one, if it was in service, is as complete as before.
LEMMA CommittedIsIntact ==
    ASSUME db \in Database, WrittenByRelease(db), NEW c \in Constructions, NEW x \in Committable(c)
    PROVE  /\ WrittenByRelease(x)
           /\ c \in {"store", "migrate_store"} \/ SchemaIntegrity(db) => SchemaIntegrity(x)
           /\ c \in {"ledger", "migrate_ledger"} \/ LedgerIsIntact(db) => LedgerIsIntact(x)
<1>1. CASE c \in {"store", "migrate_store"}
  <2>1. PICK a \in BOOLEAN, s \in BOOLEAN : x \in InitializeSchema(db, a, s)
    BY <1>1 DEF Committable
  <2>2. SameLedger(db, x)
    BY <2>1, InitializedStore
  <2>3. SchemaIntegrity(x) /\ WrittenByRelease(x)
    BY <2>1, InitializedStoreIsIntact
  <2>4. LedgerIsIntact(db) => LedgerIsIntact(x)
    BY <2>2
       DEF LedgerIsIntact, SameLedger, AuditOutboxIntegrity, TableContract, ForeignKeys, TriggerContract
  <2>5. QED
    BY <1>1, <2>3, <2>4
<1>2. ASSUME NEW a \in BOOLEAN, NEW y \in Initialize(db, a)
      PROVE  /\ y = Upgraded(db) /\ y \in Database /\ LedgerIsIntact(y) /\ WrittenByRelease(y)
             /\ SchemaIntegrity(db) => SchemaIntegrity(y)
  <2>1. y = Upgraded(db) /\ ValidateReconciliationSchema(db, a) /\ AuditOutboxIntegrity(y, TRUE)
    BY DEF Initialize
  <2>2. WrittenByRelease(Upgraded(db))
    BY <2>1, UpgradeKeepsObligations
  <2>3. QED
    BY <2>1, <2>2, UpgradedLedger DEF LedgerIsIntact, SchemaIntegrity
<1>3. CASE c = "ledger"
  <2>1. x \in Initialize(db, FALSE)
    BY <1>3 DEF Committable
  <2>2. QED
    BY <1>2, <1>3, <2>1
<1>4. CASE c = "migrate_ledger"
  <2>1. x \in ControlledMigration(db)
    BY <1>4 DEF Committable
  <2>2. PICK y \in Initialize(db, TRUE) :
          x \in IF PreflightSchema(db, TRUE) = "absent" THEN {y} ELSE InitializeSchema(y, TRUE, FALSE)
    BY <2>1 DEF ControlledMigration
  <2>3. /\ y \in Database /\ LedgerIsIntact(y) /\ WrittenByRelease(y)
        /\ SchemaIntegrity(db) => SchemaIntegrity(y)
    BY <1>2
  <2>4. CASE x = y
    BY <1>4, <2>3, <2>4
  <2>5. CASE x \in InitializeSchema(y, TRUE, FALSE)
    <3>1. SameLedger(y, x)
      BY <2>3, <2>5, InitializedStore
    <3>2. SchemaIntegrity(x) /\ WrittenByRelease(x)
      BY <2>3, <2>5, InitializedStoreIsIntact
    <3>3. LedgerIsIntact(x)
      BY <2>3, <3>1
         DEF LedgerIsIntact, SameLedger, AuditOutboxIntegrity, TableContract, ForeignKeys,
                        TriggerContract
    <3>4. QED
      BY <3>2, <3>3
  <2>6. QED
    BY <2>2, <2>4, <2>5
<1>5. QED
  BY <1>1, <1>3, <1>4 DEF Constructions

\* A head created by a ledger in service comes with its outbox row.
LEMMA HeadKeepsInv ==
    ASSUME SchemaInv, NEW p \in Processes, NEW a \in Actions, CreatesHead(p, a)
    PROVE  WrittenByRelease(db') /\ OpenMeansIntact'
<1> DEFINE e == [type |-> "unknown_recorded", created |-> "enqueued", touched |-> FALSE]
           o == [db.outbox EXCEPT ![a] = db.outbox[a] \union {e}]
<1>1. /\ db \in Database /\ db.outbox \in [Actions -> SUBSET Envelope] /\ db.heads \subseteq Actions
      /\ UNCHANGED <<phase, kind>>
  BY DEF SchemaInv, SchemaTypeOK, Database, CreatesHead
<1>2. db' = [db EXCEPT !.heads = db.heads \union {a}, !.outbox = o]
  BY <1>1 DEF CreatesHead, Database
<1>3. \A h \in Actions : o[h] = IF h = a THEN db.outbox[h] \union {e} ELSE db.outbox[h]
  BY <1>1
<1> HIDE DEF e, o
<1>4. /\ db'.heads = db.heads \union {a} /\ db'.outbox = o /\ db'.rows = db.rows
      /\ db'.records = db.records /\ db'.version = db.version /\ db'.tables = db.tables
      /\ db'.versioned = db.versioned /\ db'.indexes = db.indexes /\ db'.foreignStore = db.foreignStore
      /\ db'.marker = db.marker /\ db'.pending = db.pending /\ db'.guards = db.guards
      /\ db'.foreignLedger = db.foreignLedger /\ db'.orphans = db.orphans
  BY <1>1, <1>2 DEF Database
<1>5. ASSUME \A h \in db.heads : db.outbox[h] # {}, NEW h \in db.heads \union {a}
      PROVE  o[h] # {}
  BY <1>1, <1>3, <1>5
<1>6. WrittenByRelease(db')
  BY <1>4, <1>5 DEF WrittenByRelease, SchemaInv
<1>7. OpenMeansIntact'
  BY <1>1, <1>4
     DEF OpenMeansIntact, SchemaInv, SchemaIntegrity, AuditOutboxIntegrity, TableContract,
                    ForeignKeys, TriggerContract
<1>8. QED
  BY <1>6, <1>7

\* The transaction of a construction keeps what the others serve from.
LEMMA InitializeKeepsInv ==
    ASSUME SchemaInv, NEW p \in Processes, InitializeDatabase(p)
    PROVE  WrittenByRelease(db') /\ OpenMeansIntact'
<1>1. /\ db \in Database /\ WrittenByRelease(db) /\ kind[p] \in Constructions /\ kind' = kind
      /\ \A q \in Processes : q # p => phase'[q] = phase[q]
      /\ phase \in [Processes ->
              {"idle", "preflight", "preflight_store", "initialize", "open", "refused"}]
  BY DEF SchemaInv, SchemaTypeOK, InitializeDatabase
<1>2. CASE db' = db /\ phase'[p] # "open"
  BY <1>1, <1>2 DEF OpenMeansIntact, SchemaInv
<1>3. CASE db' \in Committable(kind[p])
  <2>1. /\ WrittenByRelease(db')
        /\ kind[p] \in {"store", "migrate_store"} \/ SchemaIntegrity(db) => SchemaIntegrity(db')
        /\ kind[p] \in {"ledger", "migrate_ledger"} \/ LedgerIsIntact(db) => LedgerIsIntact(db')
    BY <1>1, <1>3, CommittedIsIntact
  <2>2. SchemaIntegrity(db') => \A k \in RowKeys : ReadableRow(db'.rows[k])
    BY <2>1 DEF SchemaIntegrity, WrittenByRelease
  <2>3. ASSUME NEW q \in Processes, phase'[q] = "open"
        PROVE  /\ kind[q] \in {"ledger", "migrate_ledger"} => LedgerIsIntact(db')
               /\ kind[q] \in {"store", "migrate_store"} => SchemaIntegrity(db')
    <3>1. CASE q = p
      BY <2>1, <3>1
    <3>2. CASE q # p
      <4>1. phase[q] = "open"
        BY <1>1, <2>3, <3>2
      <4>2. /\ kind[q] \in {"ledger", "migrate_ledger"} => LedgerIsIntact(db)
            /\ kind[q] \in {"store", "migrate_store"} => SchemaIntegrity(db)
        BY <4>1 DEF SchemaInv, OpenMeansIntact, LedgerIsIntact
      <4>3. QED
        BY <2>1, <4>2
    <3>3. QED
      BY <3>1, <3>2
  <2>4. OpenMeansIntact'
    BY <1>1, <2>2, <2>3 DEF OpenMeansIntact, LedgerIsIntact, SchemaIntegrity, AuditOutboxIntegrity,
                            TableContract, ForeignKeys, TriggerContract
  <2>5. QED
    BY <2>1, <2>4
<1>4. QED
  BY <1>1, <1>2, <1>3 DEF InitializeDatabase

\* Whatever mixture of constructions, migrations, failures and restores, in
\* however many processes, every reader has a complete authority.
THEOREM SchemaInvHolds == SchemaSpec => []SchemaInv
<1>1. SchemaInit /\ SchemaTypeOK => SchemaInv
  BY BackupsOfReleases DEF SchemaInit, SchemaInv, OpenMeansIntact
<1>2. SchemaInv /\ SchemaTypeOK' /\ [SchemaNext]_schemaVars => SchemaInv'
  <2> SUFFICES ASSUME SchemaInv, SchemaTypeOK', [SchemaNext]_schemaVars
               PROVE  WrittenByRelease(db') /\ OpenMeansIntact'
    BY DEF SchemaInv
  <2>1. ASSUME db' = db, kind' = kind, \A q \in Processes : phase'[q] = "open" => phase[q] = "open"
        PROVE  WrittenByRelease(db') /\ OpenMeansIntact'
    BY <2>1 DEF SchemaInv, OpenMeansIntact
  <2>2. CASE Restore
    <3>1. WrittenByRelease(db')
      BY <2>2, SchemaConstants, BackupsOfReleases DEF Restore
    <3>2. QED
      BY <2>2, <3>1 DEF Restore, OpenMeansIntact
  <2>3. ASSUME NEW p \in Processes, InitializeDatabase(p)
        PROVE  WrittenByRelease(db') /\ OpenMeansIntact'
    BY <2>3, InitializeKeepsInv
  <2>4. ASSUME NEW p \in Processes, NEW a \in Actions, CreatesHead(p, a)
        PROVE  WrittenByRelease(db') /\ OpenMeansIntact'
    BY <2>4, HeadKeepsInv
  <2>5. ASSUME NEW p \in Processes, PreflightReconciliation(p) \/ PreflightIdempotency(p)
        PROVE  WrittenByRelease(db') /\ OpenMeansIntact'
    BY <2>1, <2>5 DEF PreflightReconciliation, PreflightIdempotency, SchemaInv, SchemaTypeOK
  <2>6. ASSUME NEW p \in Processes, Leave(p) \/ \E c \in Constructions : Construct(p, c)
        PROVE  WrittenByRelease(db') /\ OpenMeansIntact'
    <3>1. /\ db' = db /\ phase'[p] # "open"
          /\ \A q \in Processes : q # p => phase'[q] = phase[q] /\ kind'[q] = kind[q]
      BY <2>6 DEF Leave, Construct, SchemaInv, SchemaTypeOK
    <3>2. QED
      BY <3>1 DEF SchemaInv, OpenMeansIntact
  <2>7. CASE UNCHANGED schemaVars
    BY <2>1, <2>7 DEF schemaVars
  <2>8. QED
    BY <2>2, <2>3, <2>4, <2>5, <2>6, <2>7 DEF SchemaNext
<1>3. QED
  BY <1>1, <1>2, SchemaTypeCorrect, PTL DEF SchemaSpec

\* A process that has a store or a ledger open serves from a complete one.
THEOREM ServesFromIntactSchema == SchemaSpec => []OpenMeansIntact
<1>1. SchemaInv => OpenMeansIntact
  BY DEF SchemaInv
<1>2. QED
  BY <1>1, SchemaInvHolds, PTL

\* In a database of the current version the audit sees every head.
THEOREM NoObligationIsLost == SchemaSpec => []ObligationsAreVisible
<1>1. SchemaInv => ObligationsAreVisible
  <2>1. Current \in 4..Current
    BY SMTT(30) DEF Current
  <2>2. QED
    BY <2>1 DEF SchemaInv, WrittenByRelease, ObligationsAreVisible
<1>2. QED
  BY <1>1, SchemaInvHolds, PTL

-----------------------------------------------------------------------------
(* Context snapshots.                                                     *)

\* The least-number principle, a hypothesis of the lemmas about the ends of the
\* log; NaturalsAreWellOrdered, below them, discharges it.
NatWellOrdered == \A S \in SUBSET Nat : S # {} => \E m \in S : \A i \in S : m <= i

\* A nonempty bounded set of indices has a largest one.
LEMMA LargestIsMember ==
  ASSUME NatWellOrdered, NEW n \in Nat, NEW S \in SUBSET (0..n), S # {}
  PROVE  Max(S) \in S /\ \A i \in S : i <= Max(S)
<1> DEFINE rest == {n - i : i \in S}
<1>1. rest \in SUBSET Nat /\ rest # {}
  <2>1. \A i \in S : n - i \in Nat
    BY SMTT(30)
  <2> QED BY <2>1
<1>2. PICK d \in rest : \A e \in rest : d <= e
  <2> HIDE DEF rest
  <2> QED BY <1>1 DEF NatWellOrdered
<1>3. PICK m \in S : d = n - m
  OBVIOUS
<1>4. \A i \in S : m >= i
  <2> SUFFICES ASSUME NEW i \in S PROVE m >= i
    OBVIOUS
  <2>1. n - i \in Nat /\ n - m \in Nat /\ n - i \in rest
    BY <1>1
  <2> QED BY <1>2, <1>3, <2>1, SMTT(30)
<1>5. Max(S) \in S /\ \A i \in S : Max(S) >= i
  BY <1>4 DEF Max
<1> QED BY <1>5

\* A nonempty set of indices has a smallest one.
LEMMA SmallestIsMember ==
  ASSUME NatWellOrdered, NEW S \in SUBSET Nat, S # {}
  PROVE  Min(S) \in S /\ \A i \in S : Min(S) <= i
<1>1. PICK m \in S : \A i \in S : m <= i
  BY DEF NatWellOrdered
<1> QED BY <1>1 DEF Min

-----------------------------------------------------------------------------

\* The lines a log may hold.
SnapshotLines == [trace : Traces, sequence : Nat]

\* The number the index holds for a trace is its highest one in the log.
LEMMA LastNumberIsLargest ==
  ASSUME NatWellOrdered,
         NEW lines \in Seq(SnapshotLines), Increasing(lines), NEW t
  PROVE  /\ LastNumber(lines, t) \in Nat \cup {-1}
         /\ \A i \in DOMAIN lines : lines[i].trace = t => lines[i].sequence <= LastNumber(lines, t)
<1> DEFINE mine == {i \in DOMAIN lines : lines[i].trace = t}
<1>1. CASE mine = {}
  BY <1>1 DEF LastNumber
<1>2. CASE mine # {}
  <2>1. Len(lines) \in Nat /\ DOMAIN lines = 1..Len(lines) /\ mine \in SUBSET (0..Len(lines))
    BY SMTT(30)
  <2>2. Max(mine) \in mine /\ \A i \in mine : i <= Max(mine)
    <3> HIDE DEF mine
    <3> QED BY <1>2, <2>1, LargestIsMember
  <2>3. LastNumber(lines, t) = lines[Max(mine)].sequence
    BY <1>2 DEF LastNumber
  <2> DEFINE m == Max(mine)
  <2> HIDE DEF m
  <2>4. m \in DOMAIN lines /\ lines[m].trace = t /\ LastNumber(lines, t) = lines[m].sequence
    BY <2>2, <2>3 DEF m
  <2>5. ASSUME NEW i \in DOMAIN lines, lines[i].trace = t
        PROVE  lines[i].sequence <= lines[m].sequence
    <3>1. i <= m
      BY <2>2, <2>5 DEF m
    <3>2. i = m \/ i < m
      BY <2>1, <2>4, <3>1, SMTT(30)
    <3>3. lines[i] \in SnapshotLines /\ lines[m] \in SnapshotLines
      BY <2>4, SMTT(30)
    <3> QED BY <2>4, <2>5, <3>2, <3>3, SMTT(30) DEF Increasing, SnapshotLines
  <2>6. lines[m].sequence \in Nat
    <3>1. lines[m] \in SnapshotLines
      BY <2>4, SMTT(30)
    <3> QED BY <3>1 DEF SnapshotLines
  <2> QED BY <2>4, <2>5, <2>6
<1> QED BY <1>1, <1>2

\* A line appended with the next number is the last of its trace, and of no other.
LEMMA LastNumberAfterAppend ==
  ASSUME NatWellOrdered,
         NEW lines \in Seq(SnapshotLines), NEW line \in SnapshotLines, NEW t
  PROVE  LastNumber(Append(lines, line), t) = IF line.trace = t THEN line.sequence
                                              ELSE LastNumber(lines, t)
<1> DEFINE mine == {i \in DOMAIN lines : lines[i].trace = t}
           more == Append(lines, line)
           ours == {i \in DOMAIN more : more[i].trace = t}
<1>1. /\ Len(lines) \in Nat /\ DOMAIN lines = 1..Len(lines) /\ mine \in SUBSET (0..Len(lines))
      /\ DOMAIN more = 1..(Len(lines) + 1) /\ ours \in SUBSET (1..(Len(lines) + 1))
      /\ ours \in SUBSET (0..(Len(lines) + 1))
      /\ more[Len(lines) + 1] = line /\ \A i \in DOMAIN lines : more[i] = lines[i]
  BY SMTT(30)
<1>2. CASE line.trace = t
  <2>1. Len(lines) + 1 \in ours
    BY <1>1, <1>2, SMTT(30)
  <2>2. Max(ours) \in ours /\ \A i \in ours : i <= Max(ours)
    <3>1. Len(lines) + 1 \in Nat /\ ours # {}
      BY <1>1, <2>1, SMTT(30)
    <3> HIDE DEF ours, more
    <3> QED BY <1>1, <3>1, LargestIsMember
  <2>3. Max(ours) = Len(lines) + 1
    <3> HIDE DEF ours, more
    <3>1. Max(ours) \in 1..(Len(lines) + 1)
      BY <1>1, <2>2
    <3> QED BY <1>1, <2>1, <2>2, <3>1, SMTT(30)
  <2>4. LastNumber(more, t) = more[Max(ours)].sequence
    BY <2>1 DEF LastNumber
  <2> QED BY <1>1, <1>2, <2>3, <2>4
<1>3. CASE line.trace # t
  <2>1. ours = mine
    BY <1>1, <1>3, SMTT(30)
  <2>2. CASE mine = {}
    BY <1>3, <2>1, <2>2 DEF LastNumber
  <2>3. CASE mine # {}
    <3>1. Max(mine) \in mine
      <4> HIDE DEF mine
      <4> QED BY <1>1, <2>3, LargestIsMember
    <3>2. LastNumber(lines, t) = lines[Max(mine)].sequence
      BY <2>3 DEF LastNumber
    <3>3. LastNumber(more, t) = more[Max(mine)].sequence
      BY <2>1, <2>3 DEF LastNumber
    <3> QED BY <1>1, <1>3, <3>1, <3>2, <3>3
  <2> QED BY <2>2, <2>3
<1> QED BY <1>2, <1>3

-----------------------------------------------------------------------------

\* A line of the log file, whole or garbled.
AnyLine == SnapshotLines \cup {Garbled}

\* What load() computes for each trace.
SequenceNumbers == [Traces -> Nat \cup {-1}]

\* The last numbers in a log file.
LastNumbers(lines) == [t \in Traces |-> LastNumber(lines, t)]

\* Every line of the log file is whole.
Valid == Garbled \notin Range(log)

\* The types of the snapshot log.
SnapshotTypeOK ==
    /\ log \in Seq(AnyLine)
    /\ openLine \in BOOLEAN
    /\ openLine => log # <<>>
    /\ fileSize \in Nat /\ (fileSize = 0 <=> log = <<>>)
    /\ index # NoFile => index \in [size : Nat, sequences : SequenceNumbers]
    /\ snapshot \in [at : {"rest", "append", "index"}, line : AnyLine, sequences : SequenceNumbers]
    /\ snapshot.at # "rest" => snapshot.line \in SnapshotLines
    /\ failures \in Nat

\* A whole log has every returned snapshot, and the numbers of a trace rise in it.
LogIsSound == Valid => Increasing(log) /\ returned \subseteq Range(log)

\* The index file never claims more than the log file holds, and one that covers
\* the whole log holds its last numbers.
IndexIsSound ==
    index # NoFile => /\ index.size <= fileSize
                      /\ Valid /\ index.size = fileSize => index.sequences = LastNumbers(log)

\* A write in progress carries the number after the last one.
WriteIsSound ==
    Valid => /\ snapshot.at = "append" =>
                   /\ snapshot.sequences = LastNumbers(log)
                   /\ snapshot.sequences[snapshot.line.trace] < snapshot.line.sequence
             /\ snapshot.at = "index" =>
                   /\ snapshot.line \in Range(log)
                   /\ [snapshot.sequences EXCEPT ![snapshot.line.trace] = snapshot.line.sequence]
                        = LastNumbers(log)

\* The inductive invariant of the snapshot log.
SnapshotInv == SnapshotTypeOK /\ LogIsSound /\ IndexIsSound /\ WriteIsSound

\* The lines of a whole log are snapshots.
LEMMA CleanLines ==
  ASSUME SnapshotTypeOK, Valid
  PROVE  log \in Seq(SnapshotLines)
<1>1. Len(log) \in Nat /\ DOMAIN log = 1..Len(log) /\ log = [i \in 1..Len(log) |-> log[i]]
  BY SMTT(30) DEF SnapshotTypeOK
<1>2. \A i \in 1..Len(log) : log[i] \in SnapshotLines
  BY <1>1, SMTT(30) DEF SnapshotTypeOK, AnyLine, Valid, Range
<1> QED BY <1>1, <1>2, SMTT(30)

\* What putting a line at the end of the file does.
LEMMA PutLineEffect ==
  ASSUME SnapshotTypeOK, NEW line \in AnyLine, NEW size \in {1, 2}, PutLine(line, size)
  PROVE  /\ log' \in Seq(AnyLine) /\ log' # <<>>
         /\ fileSize' \in Nat /\ fileSize <= fileSize' /\ fileSize' # 0
         /\ Valid' => /\ Valid /\ log' = Append(log, line) /\ line \in SnapshotLines
                      /\ fileSize < fileSize' /\ line \in Range(log')
                      /\ Range(log) \subseteq Range(log')
<1>1. Len(log) \in Nat /\ log \in Seq(AnyLine) /\ Garbled \in AnyLine
  BY SMTT(30) DEF SnapshotTypeOK, AnyLine
<1>4. fileSize \in Nat /\ fileSize' \in Nat /\ fileSize < fileSize'
  BY SMTT(30) DEF SnapshotTypeOK, PutLine
<1>2. CASE openLine
  <2>1. log' = [log EXCEPT ![Len(log)] = Garbled]
    BY <1>2 DEF PutLine
  <2>2. Len(log) >= 1
    BY <1>1, <1>2, SMTT(30) DEF SnapshotTypeOK
  <2>4. log' \in Seq(AnyLine) /\ Len(log') = Len(log) /\ log'[Len(log)] = Garbled
    BY <1>1, <2>1, <2>2, SMTT(30)
  <2>5. ~Valid'
    BY <1>1, <2>2, <2>4, SMTT(30) DEF Valid, Range
  <2> QED BY <1>4, <2>2, <2>4, <2>5, SMTT(30)
<1>3. CASE ~openLine
  <2>1. log' = Append(log, line)
    BY <1>3 DEF PutLine
  <2>2. /\ log' \in Seq(AnyLine) /\ Len(log') = Len(log) + 1 /\ log'[Len(log) + 1] = line
        /\ \A i \in 1..Len(log) : log'[i] = log[i]
    BY <1>1, <2>1, SMTT(30)
  <2>5. line \in Range(log') /\ Range(log) \subseteq Range(log')
    BY <1>1, <2>2, SMTT(30) DEF Range
  <2>6. Valid' => Valid /\ line \in SnapshotLines
    BY <2>5 DEF Valid, AnyLine
  <2> QED BY <1>1, <1>4, <2>1, <2>2, <2>5, <2>6, SMTT(30)
<1> QED BY <1>2, <1>3 DEF SnapshotTypeOK

\* The next snapshot of a trace goes on where the log ends.
LEMMA AppendKeepsOrder ==
  ASSUME NatWellOrdered,
         NEW lines \in Seq(SnapshotLines), NEW line \in SnapshotLines, Increasing(lines),
         LastNumber(lines, line.trace) < line.sequence
  PROVE  Increasing(Append(lines, line))
<1>1. /\ Len(lines) \in Nat /\ DOMAIN lines = 1..Len(lines)
      /\ DOMAIN Append(lines, line) = 1..(Len(lines) + 1)
      /\ Append(lines, line)[Len(lines) + 1] = line
      /\ \A i \in 1..Len(lines) : Append(lines, line)[i] = lines[i] /\ lines[i] \in SnapshotLines
  BY SMTT(30)
<1> DEFINE more == Append(lines, line)
<1> SUFFICES ASSUME NEW i \in 1..(Len(lines) + 1), NEW j \in 1..(Len(lines) + 1),
                    i < j, more[i].trace = more[j].trace
             PROVE  more[i].sequence < more[j].sequence
  BY <1>1 DEF Increasing
<1>2. i \in 1..Len(lines)
  BY <1>1, SMTT(30)
<1>3. CASE j \in 1..Len(lines)
  BY <1>1, <1>2, <1>3 DEF Increasing
<1>4. CASE j = Len(lines) + 1
  <2>1. more[i] = lines[i] /\ more[j] = line /\ lines[i].trace = line.trace
    BY <1>1, <1>2, <1>4
  <2>2. lines[i].sequence <= LastNumber(lines, line.trace)
    BY <1>1, <1>2, <2>1, LastNumberIsLargest
  <2>3. /\ lines[i].sequence \in Nat /\ line.sequence \in Nat
        /\ LastNumber(lines, line.trace) \in Nat \cup {-1}
    BY <1>1, <1>2, LastNumberIsLargest DEF SnapshotLines
  <2> QED BY <2>1, <2>2, <2>3, SMTT(30)
<1> QED BY <1>1, <1>3, <1>4, SMTT(30)

\* Every trace has a last number.
LEMMA LastNumbersType ==
  ASSUME NatWellOrdered,
         NEW lines \in Seq(SnapshotLines), Increasing(lines)
  PROVE  LastNumbers(lines) \in SequenceNumbers
BY LastNumberIsLargest DEF LastNumbers, SequenceNumbers

\* What a load that is not refused gives: numbers, and those of the log when it is whole.
LEMMA LoadedState ==
  ASSUME NatWellOrdered,
         SnapshotInv, LoadSequenceState # Unreadable
  PROVE  /\ LoadSequenceState \in [size : Nat, sequences : SequenceNumbers]
         /\ LoadSequenceState.size <= fileSize
         /\ Valid => LoadSequenceState.sequences = LastNumbers(log)
         /\ LoadSequenceState.size = fileSize
<1>1. fileSize \in Nat /\ (fileSize = 0 <=> log = <<>>)
  BY DEF SnapshotInv, SnapshotTypeOK
<1>2. CASE index = NoFile /\ fileSize = 0
  <2>1. LoadSequenceState = [size |-> 0, sequences |-> NoSequences]
    BY <1>2 DEF LoadSequenceState
  <2>2. NoSequences \in SequenceNumbers
    BY DEF NoSequences, SequenceNumbers
  <2>3. LastNumbers(<<>>) = NoSequences
    BY SMTT(30) DEF LastNumbers, LastNumber, NoSequences
  <2> QED BY <1>1, <1>2, <2>1, <2>2, <2>3, SMTT(30)
<1>3. CASE LoadSequenceState = Rebuild
  <2>1. Valid /\ Increasing(log)
    BY <1>3 DEF Rebuild, Valid
  <2>2. Rebuild = [size |-> fileSize, sequences |-> LastNumbers(log)]
    BY <2>1 DEF Rebuild, LastNumbers, Valid
  <2>3. LastNumbers(log) \in SequenceNumbers
    BY <2>1, CleanLines, LastNumbersType DEF SnapshotInv
  <2> QED BY <1>1, <1>3, <2>2, <2>3, SMTT(30)
<1>4. CASE index # NoFile /\ index.size = fileSize
  <2>1. LoadSequenceState = index
    BY <1>1, <1>4, SMTT(30) DEF LoadSequenceState
  <2> QED BY <1>1, <1>4, <2>1 DEF SnapshotInv, SnapshotTypeOK, IndexIsSound
<1>5. CASE index # NoFile /\ index.size # fileSize
  <2>1. index.size \in Nat /\ index.size <= fileSize
    BY <1>5 DEF SnapshotInv, SnapshotTypeOK, IndexIsSound
  <2>2. LoadSequenceState = Rebuild
    BY <1>1, <1>5, <2>1, SMTT(30) DEF LoadSequenceState
  <2> QED BY <1>3, <2>2
<1>6. CASE index = NoFile /\ fileSize # 0
  BY <1>3, <1>6 DEF LoadSequenceState
<1> QED BY <1>2, <1>4, <1>5, <1>6

\* What SnapshotsSurvive says of the next writer.
LEMMA CleanIsReadable ==
  ASSUME SnapshotInv, Valid
  PROVE  LoadSequenceState # Unreadable
<1>1. fileSize \in Nat
  BY DEF SnapshotInv, SnapshotTypeOK
<1>2. Rebuild.size = fileSize
  BY DEF SnapshotInv, LogIsSound, Valid, Rebuild
<1>3. index # NoFile => index.size \in Nat /\ index.size <= fileSize
  BY DEF SnapshotInv, SnapshotTypeOK, IndexIsSound
<1>4. LoadSequenceState.size \in Nat
  BY <1>1, <1>2, <1>3, SMTT(30) DEF LoadSequenceState
<1> QED BY <1>4, SMTT(30) DEF Unreadable

\* Opening the log: a missing newline is repaired and the index is rebuilt.
LEMMA StartKeepsInv ==
  ASSUME NatWellOrdered,
         SnapshotInv, NEW t \in Traces, NEW number \in Nat, LoadSequenceState # Unreadable,
         LoadSequenceState.sequences[t] < number, snapshot.at = "rest",
         snapshot' = [at |-> "append", sequences |-> LoadSequenceState.sequences,
                      line |-> Snapshot(t, number)],
         index' = IF index = NoFile /\ fileSize = 0 THEN NoFile ELSE LoadSequenceState,
         UNCHANGED <<log, openLine, fileSize, returned, failures>>
  PROVE  SnapshotInv'
<1> DEFINE state == LoadSequenceState
<1> HIDE DEF state
<1>1. /\ state \in [size : Nat, sequences : SequenceNumbers]
      /\ state.size = fileSize /\ (Valid => state.sequences = LastNumbers(log))
  BY LoadedState DEF state
<1>2. fileSize' = fileSize /\ (Valid' <=> Valid) /\ fileSize \in Nat
  BY DEF SnapshotInv, SnapshotTypeOK, Valid
<1>3. Snapshot(t, number) \in SnapshotLines
  BY DEF Snapshot, SnapshotLines
<1>4. SnapshotTypeOK'
  <2>1. index' # NoFile => index' = state
    BY DEF state
  <2> QED BY <1>1, <1>3, <2>1 DEF SnapshotInv, SnapshotTypeOK, AnyLine, state
<1>5. LogIsSound'
  BY <1>2 DEF SnapshotInv, LogIsSound
<1>6. IndexIsSound'
  <2>1. index' # NoFile => index' = state
    BY DEF state
  <2> QED BY <1>1, <1>2, <2>1, SMTT(30) DEF IndexIsSound
<1>7. WriteIsSound'
  <2>1. /\ snapshot'.at = "append" /\ snapshot'.sequences = state.sequences
        /\ snapshot'.line.trace = t /\ snapshot'.line.sequence = number
    BY DEF Snapshot, state
  <2> QED BY <1>1, <1>2, <2>1 DEF WriteIsSound, state
<1> QED BY <1>4, <1>5, <1>6, <1>7 DEF SnapshotInv

\* The first step of append(): the next number is taken.
LEMMA WriteKeepsInv ==
  ASSUME NatWellOrdered,
         SnapshotInv, NEW t \in Traces, WriteContext(t) \/ \E n \in Numbers : Write(t, n)
  PROVE  SnapshotInv'
<1>1. LoadSequenceState # Unreadable
  BY DEF WriteContext, Write, StartSnapshot
<1>2. LoadSequenceState.sequences[t] \in Nat \cup {-1}
  BY <1>1, LoadedState DEF SequenceNumbers
<1>3. CASE WriteContext(t)
  <2>1. LoadSequenceState.sequences[t] + 1 \in Nat
        /\ LoadSequenceState.sequences[t] < LoadSequenceState.sequences[t] + 1
    BY <1>2, SMTT(30)
  <2> QED BY <1>1, <1>3, <2>1, StartKeepsInv DEF WriteContext, StartSnapshot
<1>4. ASSUME NEW n \in Numbers, Write(t, n)
      PROVE  SnapshotInv'
  <2> DEFINE number == IF n <= LoadSequenceState.sequences[t]
                       THEN LoadSequenceState.sequences[t] + 1 ELSE n
  <2>1. n \in Nat
    BY SnapshotConstants
  <2>2. number \in Nat /\ LoadSequenceState.sequences[t] < number
    BY <1>2, <2>1, SMTT(30)
  <2>3. snapshot' = [at |-> "append", sequences |-> LoadSequenceState.sequences,
                     line |-> Snapshot(t, number)]
    BY <1>4 DEF Write, StartSnapshot
  <2> HIDE DEF number
  <2> QED BY <1>1, <1>4, <2>2, <2>3, StartKeepsInv DEF Write, StartSnapshot
<1> QED BY <1>3, <1>4

\* The write of the line, whole or in part.
LEMMA AppendSnapshotKeepsInv ==
  ASSUME NatWellOrdered,
         SnapshotInv, AppendSnapshot
  PROVE  SnapshotInv'
<1>1. /\ snapshot.line \in SnapshotLines /\ snapshot.line \in AnyLine
      /\ snapshot.at = "append" /\ PutLine(snapshot.line, 2) /\ openLine' = FALSE
  BY DEF AppendSnapshot, SnapshotInv, SnapshotTypeOK, AnyLine
<1>2. /\ log' \in Seq(AnyLine) /\ fileSize' \in Nat /\ fileSize <= fileSize'
      /\ log' # <<>> /\ fileSize' # 0
      /\ Valid' => /\ Valid /\ log' = Append(log, snapshot.line)
                   /\ fileSize < fileSize' /\ snapshot.line \in Range(log')
                   /\ Range(log) \subseteq Range(log')
  BY <1>1, PutLineEffect DEF SnapshotInv
<1>3. /\ snapshot' = [snapshot EXCEPT !.at = "index"]
      /\ UNCHANGED <<index, returned, failures>>
  BY DEF AppendSnapshot
<1>4. SnapshotTypeOK'
  BY <1>1, <1>2, <1>3 DEF SnapshotInv, SnapshotTypeOK
<1>5. Valid' => /\ log \in Seq(SnapshotLines) /\ Increasing(log) /\ returned \subseteq Range(log)
                /\ snapshot.sequences = LastNumbers(log)
                /\ snapshot.sequences[snapshot.line.trace] < snapshot.line.sequence
  BY <1>1, <1>2, CleanLines DEF SnapshotInv, LogIsSound, WriteIsSound
<1>6. LogIsSound'
  <2>1. snapshot.line.trace \in Traces
    BY <1>1 DEF SnapshotLines
  <2>2. Valid' => LastNumber(log, snapshot.line.trace) < snapshot.line.sequence
    BY <1>5, <2>1 DEF LastNumbers
  <2>3. Valid' => Increasing(log')
    BY <1>1, <1>2, <1>5, <2>2, AppendKeepsOrder
  <2> QED BY <1>2, <1>3, <1>5, <2>3 DEF LogIsSound
<1>7. IndexIsSound'
  <2>1. fileSize \in Nat
    BY DEF SnapshotInv, SnapshotTypeOK
  <2>2. index # NoFile => index.size \in Nat /\ index.size <= fileSize
    BY DEF SnapshotInv, SnapshotTypeOK, IndexIsSound
  <2> QED BY <1>2, <1>3, <2>1, <2>2, SMTT(30) DEF IndexIsSound
<1>8. WriteIsSound'
  <2>1. Valid' => [snapshot.sequences EXCEPT ![snapshot.line.trace] = snapshot.line.sequence]
                    = LastNumbers(Append(log, snapshot.line))
    <3> SUFFICES ASSUME Valid'
                 PROVE  [snapshot.sequences EXCEPT ![snapshot.line.trace] = snapshot.line.sequence]
                            = LastNumbers(Append(log, snapshot.line))
      OBVIOUS
    <3>1. \A t \in Traces : LastNumber(Append(log, snapshot.line), t)
                              = IF snapshot.line.trace = t THEN snapshot.line.sequence
                                ELSE LastNumber(log, t)
      BY <1>1, <1>5, LastNumberAfterAppend
    <3>2. snapshot.sequences = [t \in Traces |-> LastNumber(log, t)]
      BY <1>5 DEF LastNumbers
    <3> QED BY <3>1, <3>2 DEF LastNumbers
  <2>2. /\ snapshot'.at = "index" /\ snapshot'.line = snapshot.line
        /\ snapshot'.sequences = snapshot.sequences
    BY <1>3 DEF SnapshotInv, SnapshotTypeOK
  <2> QED BY <1>2, <2>1, <2>2 DEF WriteIsSound
<1> QED BY <1>4, <1>6, <1>7, <1>8 DEF SnapshotInv

\* The index follows the write, and append() returns.
LEMMA IndexSnapshotKeepsInv ==
  ASSUME SnapshotInv, IndexSnapshot
  PROVE  SnapshotInv'
<1> DEFINE numbers == [snapshot.sequences EXCEPT ![snapshot.line.trace] = snapshot.line.sequence]
<1>1. /\ snapshot.line \in SnapshotLines /\ numbers \in SequenceNumbers
      /\ Valid => snapshot.line \in Range(log) /\ numbers = LastNumbers(log)
  BY DEF IndexSnapshot, SnapshotInv, SnapshotTypeOK, WriteIsSound, SnapshotLines, SequenceNumbers
<1>2. fileSize' = fileSize /\ (Valid' <=> Valid) /\ fileSize \in Nat
  BY DEF SnapshotInv, SnapshotTypeOK, Valid, IndexSnapshot
<1>3. /\ index' = [size |-> fileSize, sequences |-> numbers]
      /\ returned' = returned \cup {snapshot.line} /\ snapshot' = Resting
      /\ UNCHANGED <<log, openLine, fileSize, failures>>
  BY DEF IndexSnapshot
<1> HIDE DEF numbers
<1>4. Resting \in [at : {"rest"}, line : AnyLine, sequences : SequenceNumbers]
  BY DEF Resting, AnyLine, SequenceNumbers, NoSequences
<1>5. SnapshotTypeOK'
  BY <1>1, <1>2, <1>3, <1>4 DEF SnapshotInv, SnapshotTypeOK
<1>6. LogIsSound'
  BY <1>1, <1>2, <1>3 DEF SnapshotInv, LogIsSound
<1>7. IndexIsSound'
  BY <1>1, <1>2, <1>3, SMTT(30) DEF IndexIsSound
<1>8. WriteIsSound'
  BY <1>3, <1>4 DEF WriteIsSound
<1> QED BY <1>5, <1>6, <1>7, <1>8 DEF SnapshotInv

\* The process stops.
LEMMA StopKeepsInv ==
  ASSUME NatWellOrdered,
         SnapshotInv, StopWriting \/ StopInAppend
  PROVE  SnapshotInv'
<1>1. Resting \in [at : {"rest"}, line : AnyLine, sequences : SequenceNumbers]
  BY DEF Resting, AnyLine, SequenceNumbers, NoSequences
<1>2. /\ snapshot' = Resting /\ failures' = failures + 1 /\ UNCHANGED <<index, returned>>
  BY DEF StopWriting, StopInAppend
<1>3. fileSize \in Nat
  BY DEF SnapshotInv, SnapshotTypeOK
<1>4. /\ log' \in Seq(AnyLine) /\ openLine' \in BOOLEAN /\ (openLine' => log' # <<>>)
      /\ fileSize' \in Nat /\ fileSize <= fileSize' /\ (fileSize' = 0 <=> log' = <<>>)
      /\ Valid' => /\ Valid /\ Increasing(log') /\ Range(log) \subseteq Range(log')
                   /\ fileSize' = fileSize => log' = log
  <2>1. CASE StopWriting
    BY <1>3, <2>1, SMTT(30)
       DEF StopWriting, SnapshotInv, SnapshotTypeOK, Valid, LogIsSound
  <2>2. CASE StopInAppend
    <3>1. PICK line \in {Garbled, snapshot.line} : PutLine(line, 1)
      BY <2>2 DEF StopInAppend
    <3>2. /\ snapshot.line \in SnapshotLines /\ line \in AnyLine
          /\ snapshot.at = "append" /\ openLine' = TRUE
      BY <2>2, <3>1 DEF StopInAppend, SnapshotInv, SnapshotTypeOK, AnyLine
    <3>3. /\ log' \in Seq(AnyLine) /\ log' # <<>> /\ fileSize' # 0
          /\ fileSize' \in Nat /\ fileSize <= fileSize'
          /\ Valid' => /\ Valid /\ log' = Append(log, line) /\ line \in SnapshotLines
                       /\ fileSize < fileSize' /\ Range(log) \subseteq Range(log')
      BY <3>1, <3>2, PutLineEffect DEF SnapshotInv
    <3>4. ASSUME Valid'
          PROVE  Increasing(log')
      <4>1. line = snapshot.line
        BY <3>1, <3>3, <3>4, SMTT(30) DEF SnapshotLines, Garbled
      <4>2. log \in Seq(SnapshotLines) /\ Increasing(log)
        BY <3>3, <3>4, CleanLines DEF SnapshotInv, LogIsSound
      <4>3. LastNumber(log, snapshot.line.trace) < snapshot.line.sequence
        BY <3>2, <3>3, <3>4 DEF SnapshotInv, WriteIsSound, LastNumbers, SnapshotLines
      <4> QED BY <3>2, <3>3, <3>4, <4>1, <4>2, <4>3, AppendKeepsOrder
    <3> QED BY <1>3, <3>2, <3>3, <3>4, SMTT(30)
  <2> QED BY <2>1, <2>2
<1>5. SnapshotTypeOK'
  BY <1>1, <1>2, <1>4, SMTT(30) DEF SnapshotInv, SnapshotTypeOK
<1>6. LogIsSound'
  BY <1>2, <1>4 DEF SnapshotInv, LogIsSound
<1>7. IndexIsSound'
  <2>1. index # NoFile => index.size \in Nat /\ index.size <= fileSize
    BY DEF SnapshotInv, SnapshotTypeOK, IndexIsSound
  <2> QED BY <1>2, <1>3, <1>4, <2>1, SMTT(30) DEF SnapshotInv, IndexIsSound
<1>8. WriteIsSound'
  BY <1>1, <1>2 DEF WriteIsSound
<1> QED BY <1>5, <1>6, <1>7, <1>8 DEF SnapshotInv

\* The empty log satisfies the invariant.
LEMMA SnapshotInitInv ==
  ASSUME SnapshotInit
  PROVE  SnapshotInv
<1>1. Resting \in [at : {"rest"}, line : AnyLine, sequences : SequenceNumbers]
  BY DEF Resting, AnyLine, SequenceNumbers, NoSequences
<1>2. SnapshotTypeOK
  <2>1. <<>> \in Seq(AnyLine)
    BY SMTT(30)
  <2>2. snapshot \in [at : {"rest", "append", "index"}, line : AnyLine, sequences : SequenceNumbers]
        /\ snapshot.at = "rest"
    BY <1>1 DEF SnapshotInit
  <2>3. openLine = FALSE /\ index = NoFile /\ log = <<>> /\ failures = 0 /\ fileSize = 0
    BY DEF SnapshotInit
  <2> QED BY <2>1, <2>2, <2>3 DEF SnapshotTypeOK
<1>3. LogIsSound
  <2>1. Increasing(<<>>)
    BY SMTT(30) DEF Increasing
  <2> QED BY <2>1 DEF SnapshotInit, LogIsSound
<1>4. IndexIsSound /\ WriteIsSound
  <2>1. snapshot.at = "rest" /\ index = NoFile
    BY <1>1 DEF SnapshotInit
  <2> QED BY <2>1 DEF IndexIsSound, WriteIsSound
<1> QED BY <1>2, <1>3, <1>4 DEF SnapshotInv

\* Every step of the snapshot log preserves the invariant.
LEMMA SnapshotStep ==
  ASSUME NatWellOrdered, SnapshotInv, [SnapshotNext]_snapshotVars
  PROVE  SnapshotInv'
<1>1. CASE UNCHANGED snapshotVars
  <2>1. /\ log' = log /\ openLine' = openLine /\ index' = index /\ snapshot' = snapshot
        /\ returned' = returned /\ failures' = failures /\ fileSize' = fileSize
    BY <1>1 DEF snapshotVars
  <2>2. fileSize' = fileSize /\ Valid' = Valid
    BY <2>1 DEF Valid
  <2>3. SnapshotTypeOK' /\ LogIsSound'
    BY <2>1, <2>2 DEF SnapshotInv, SnapshotTypeOK, LogIsSound
  <2>4. IndexIsSound' /\ WriteIsSound'
    BY <2>1, <2>2 DEF SnapshotInv, IndexIsSound, WriteIsSound
  <2> QED BY <2>3, <2>4 DEF SnapshotInv
<1>2. CASE SnapshotNext
  BY <1>2, WriteKeepsInv, AppendSnapshotKeepsInv, IndexSnapshotKeepsInv, StopKeepsInv
     DEF SnapshotNext
<1> QED BY <1>1, <1>2

-----------------------------------------------------------------------------
(* The laws the lemmas assume, and the theorems.                            *)

INSTANCE FiniteSetTheorems

\* The library's theorems give the laws the lemmas above assume.
LEMMA FiniteSetsObeyLaws == FiniteSetLaws
<1>1. IsFiniteSet({}) /\ Cardinality({}) = 0
  BY FS_EmptySet
<1>2. ASSUME NEW S, NEW x, IsFiniteSet(S)
      PROVE  /\ Cardinality(S) \in Nat
             /\ IsFiniteSet(S \cup {x}) /\ IsFiniteSet(S \ {x})
             /\ Cardinality(S \cup {x}) = IF x \in S THEN Cardinality(S) ELSE Cardinality(S) + 1
             /\ Cardinality(S \ {x}) = IF x \in S THEN Cardinality(S) - 1 ELSE Cardinality(S)
  BY <1>2, FS_CardinalityType, FS_AddElement, FS_RemoveElement
<1> QED BY <1>1, <1>2 DEF FiniteSetLaws

\* The invariant of the process-local store and its channel holds for any
\* executions, keys and cache bound.
THEOREM StoreInvHolds == LocalSpec => []StoreInv
<1>1. LocalInit => StoreInv
  <2> SUFFICES ASSUME LocalInit PROVE StoreInv
    OBVIOUS
  <2>1. StoreTypeOK
    BY DEF LocalInit, StoreTypeOK, Futures, Places, Calls, NoCall
  <2>2. InFlightIsKept /\ \A x \in Executions : CourseOK(x)
    BY DEF LocalInit, InFlightIsKept, CourseOK
  <2>3. Resuming = {}
    BY DEF LocalInit, Resuming, NoCall
  <2>4. IsFiniteSet({}) /\ Cardinality({}) = 0
    BY FiniteSetsObeyLaws DEF FiniteSetLaws
  <2> QED BY <2>1, <2>2, <2>3, <2>4 DEF StoreInv, LocalInit
<1>2. StoreInv /\ [LocalNext]_localVars => StoreInv'
  <2> SUFFICES ASSUME StoreInv, [LocalNext]_localVars PROVE StoreInv'
    OBVIOUS
  <2>1. CASE LocalNext
    BY <2>1, QuietStep, AwaitedStep, DetachStep, LateStep, FiniteSetsObeyLaws DEF LocalNext
  <2>2. CASE UNCHANGED localVars
    BY <2>2 DEF localVars, StoreInv, StoreTypeOK, InFlightIsKept, CourseOK, Resuming
  <2> QED BY <2>1, <2>2
<1> QED BY <1>1, <1>2, PTL DEF LocalSpec

\* The entry of an unsettled claim is never evicted or overwritten
\* (_evict_completed, acquire, fail), so a key has one owner.
THEOREM ClaimsInFlightAreKept == LocalSpec => []InFlightIsKept
<1>1. StoreInv => InFlightIsKept
  BY DEF StoreInv
<1> QED BY <1>1, StoreInvHolds, PTL

\* A head of the in-memory ledger stands for an outcome that is final in the
\* store (mark_unknown, create_unknown).
THEOREM HeadsAreFinal == LocalSpec => []HeadIsFinal
<1>1. StoreInv => HeadIsFinal
  BY DEF StoreInv, StoreTypeOK, CourseOK, HeadIsFinal
<1> QED BY <1>1, StoreInvHolds, PTL

\* The channel of the store is closed exactly while operations run that open
\* it again (_suspend_idempotency_store, _resume_idempotency_store).
THEOREM ChannelCountsExactly == LocalSpec => []DrainingIsExact
<1>1. StoreInv => DrainingIsExact
  BY DEF StoreInv, DrainingIsExact, Resuming
<1> QED BY <1>1, StoreInvHolds, PTL

\* Every nonempty set of naturals has a least element.
LEMMA NaturalsAreWellOrdered == NatWellOrdered
<1> DEFINE less == {ss \in Nat \X Nat : ss[1] < ss[2]}
<1>1. IsWellFoundedOn(less, Nat)
  BY NatLessThanWellFounded DEF OpToRel
<1> HIDE DEF less
<1> SUFFICES ASSUME NEW S \in SUBSET Nat, S # {} PROVE \E m \in S : \A i \in S : m <= i
  BY DEF NatWellOrdered
<1>2. PICK m \in S : \A i \in S : ~(<<i, m>> \in less)
  BY <1>1, WFMin
<1>3. ASSUME NEW i \in S PROVE m <= i
  <2>1. m \in Nat /\ i \in Nat /\ ~(i < m)
    BY <1>2 DEF less
  <2> QED BY <2>1, SMTT(30)
<1> QED BY <1>3

\* The invariant holds across any number of appends, crashes and restarts of the
\* snapshot log.
THEOREM SnapshotInvHolds == SnapshotSpec => []SnapshotInv
<1>1. SnapshotInit => SnapshotInv
  BY SnapshotInitInv
<1>2. SnapshotInv /\ [SnapshotNext]_snapshotVars => SnapshotInv'
  BY SnapshotStep, NaturalsAreWellOrdered
<1> QED BY <1>1, <1>2, PTL DEF SnapshotSpec

\* SnapshotsSurvive for any traces, numbers, log length and number of crashes.
THEOREM SnapshotsAlwaysSurvive == SnapshotSpec => []SnapshotsSurvive
<1>1. SnapshotInv => SnapshotsSurvive
  BY CleanIsReadable DEF SnapshotsSurvive, SnapshotInv, LogIsSound, Valid
<1> QED BY <1>1, SnapshotInvHolds, PTL

=============================================================================
