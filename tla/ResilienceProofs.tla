-------------------------- MODULE ResilienceProofs --------------------------
(***************************************************************************)
(* What is shared by calls that overlap, for any number of acquisitions,   *)
(* permits, calls, threads, events and subscribers: the bulkhead neither   *)
(* loses nor makes permits, loses no wakeup and serves in order            *)
(* (Bulkhead); a span ends once and as it was asked to (SpanLifecycle);    *)
(* the circuit breaker follows the reports of its calls and bounds its     *)
(* probes (CircuitBreaker); a finished delivery has offered its event to   *)
(* exactly those it was scheduled for (RuntimeEvents).                     *)
(***************************************************************************)
EXTENDS Bulkhead, SpanLifecycle, CircuitBreaker, RuntimeEvents, TLAPS

USE ZenonT(40)

-----------------------------------------------------------------------------
(* The bulkhead.                                                           *)

\* What the proofs use of finite sets, a hypothesis of the lemmas that count
\* permits; FiniteSetsObeyLaws, below them, discharges it.
FiniteSetLaws ==
    /\ IsFiniteSet({}) /\ Cardinality({}) = 0
    /\ \A S : IsFiniteSet(S) => Cardinality(S) \in Nat
    /\ \A S, x : IsFiniteSet(S) =>
          /\ IsFiniteSet(S \cup {x}) /\ IsFiniteSet(S \ {x})
          /\ Cardinality(S \cup {x}) = IF x \in S THEN Cardinality(S) ELSE Cardinality(S) + 1
          /\ Cardinality(S \ {x}) = IF x \in S THEN Cardinality(S) - 1 ELSE Cardinality(S)
    /\ \A S, T : IsFiniteSet(S) /\ T \subseteq S =>
          IsFiniteSet(T) /\ Cardinality(T) <= Cardinality(S)
    /\ \A S, T : IsFiniteSet(S) /\ IsFiniteSet(T) =>
          /\ IsFiniteSet(S \cup T)
          /\ Cardinality(S \cup T) = Cardinality(S) + Cardinality(T) - Cardinality(S \cap T)

\* The empty set is finite and counts zero.
LEMMA EmptyCount ==
  ASSUME FiniteSetLaws
  PROVE  IsFiniteSet({}) /\ Cardinality({}) = 0
BY DEF FiniteSetLaws

\* A finite set has a natural count.
LEMMA CountIsNat ==
  ASSUME FiniteSetLaws, NEW S, IsFiniteSet(S)
  PROVE  Cardinality(S) \in Nat
BY DEF FiniteSetLaws

\* One more element, at most one more counted.
LEMMA CountAdded ==
  ASSUME FiniteSetLaws, NEW S, NEW x, IsFiniteSet(S)
  PROVE  /\ IsFiniteSet(S \cup {x})
         /\ Cardinality(S \cup {x}) = IF x \in S THEN Cardinality(S) ELSE Cardinality(S) + 1
BY DEF FiniteSetLaws

\* One element less.
LEMMA CountRemoved ==
  ASSUME FiniteSetLaws, NEW S, NEW x, IsFiniteSet(S)
  PROVE  /\ IsFiniteSet(S \ {x})
         /\ Cardinality(S \ {x}) = IF x \in S THEN Cardinality(S) - 1 ELSE Cardinality(S)
BY DEF FiniteSetLaws

\* A part of a finite set is finite and counts no more.
LEMMA CountOfPart ==
  ASSUME FiniteSetLaws, NEW S, IsFiniteSet(S), NEW T \in SUBSET S
  PROVE  IsFiniteSet(T) /\ Cardinality(T) <= Cardinality(S)
BY DEF FiniteSetLaws

\* The first n waiters that can be served are finitely many, and the n-th
\* adds at most one to those before it.
LEMMA ServedProperties ==
  ASSUME FiniteSetLaws,
         NEW queue \in Seq(Acquisitions), NEW st, NEW n \in 0..Len(queue)
  PROVE  /\ Served(queue, st, n) \in SUBSET Acquisitions
         /\ IsFiniteSet(Served(queue, st, n))
         /\ Cardinality(Served(queue, st, n)) \in Nat
         /\ n = 0 => Cardinality(Served(queue, st, n)) = 0
         /\ n # 0 => \/ Served(queue, st, n) = Served(queue, st, n - 1)
                     \/ Served(queue, st, n) = Served(queue, st, n - 1) \cup {queue[n]}
<1> DEFINE D == {j \in 1..n : st[queue[j]] = "waiting" /\ pc[queue[j]] # "abandoned"}
           T == Served(queue, st, n)
           all == {queue[i] : i \in 1..Len(queue)}
<1>1. IsFiniteSet(all)
  <2>1. queue \in Seq(all)
    BY SMTT(30)
  <2>2. \A s \in all : \E i \in 1..Len(queue) : queue[i] = s
    OBVIOUS
  <2>3. QED
    BY <2>1, <2>2 DEF IsFiniteSet
<1>2. T = {queue[i] : i \in D}
  BY DEF Served
<1>3. T \in SUBSET all
  BY <1>2, SMTT(30)
<1>4. IsFiniteSet(T)
  BY <1>1, <1>3, CountOfPart
<1>5. T \in SUBSET Acquisitions
  BY <1>2, SMTT(30)
<1>6. n = 0 => T = {}
  BY <1>2, SMTT(30)
<1>7. ASSUME n # 0
      PROVE  T = Served(queue, st, n - 1) \/ T = Served(queue, st, n - 1) \cup {queue[n]}
  <2>1. 1..n = (1..(n - 1)) \cup {n}
    BY <1>7, SMTT(30)
  <2>2. CASE n \in D
    BY <2>1, <2>2 DEF Served
  <2>3. CASE n \notin D
    BY <2>1, <2>3 DEF Served
  <2>4. QED
    BY <2>2, <2>3
<1>8. QED
  BY <1>4, <1>5, <1>6, <1>7, CountIsNat, EmptyCount

\* An element adds at most one to the cardinality of a set.
LEMMA AtMostOneMore ==
  ASSUME FiniteSetLaws,
         NEW S, NEW x, IsFiniteSet(S), NEW m \in Nat, Cardinality(S) < m
  PROVE  Cardinality(S \cup {x}) <= m
<1>1. Cardinality(S) \in Nat
  BY CountIsNat
<1>2. Cardinality(S \cup {x}) = IF x \in S THEN Cardinality(S) ELSE Cardinality(S) + 1
  BY CountAdded
<1>3. QED
  BY <1>1, <1>2, SMTT(30)

\* The cardinality of a union of disjoint sets.
LEMMA DisjointUnion ==
  ASSUME FiniteSetLaws,
         NEW S, IsFiniteSet(S), NEW T, IsFiniteSet(T), S \cap T = {}
  PROVE  IsFiniteSet(S \cup T) /\ Cardinality(S \cup T) = Cardinality(S) + Cardinality(T)
<1>1. Cardinality(S) \in Nat /\ Cardinality(T) \in Nat
  BY CountIsNat
<1>2. Cardinality(S \cap T) = 0
  BY EmptyCount
<1>3. /\ IsFiniteSet(S \cup T)
      /\ Cardinality(S \cup T) = Cardinality(S) + Cardinality(T) - Cardinality(S \cap T)
  BY DEF FiniteSetLaws
<1>4. QED
  BY <1>1, <1>2, <1>3, SMTT(30)

\* _grant_next_locked pops n waiters and serves some of them, with the permits,
\* queue, waiter states and callbacks it was called with.
GrantOutcome(permits, queue, st, callbacks, n, served) ==
  /\ IsFiniteSet(served) /\ Cardinality(served) \in 0..permits
  /\ available' = permits - Cardinality(served)
  /\ scheduled' = callbacks \cup served
  /\ \A a \in served : st[a] = "waiting" /\ \E i \in 1..n : queue[i] = a
  /\ state' \in [Acquisitions -> States]
  /\ \A a \in Acquisitions : state'[a] = "granted" <=> a \in served \/ st[a] = "granted"
  /\ \A a \in Acquisitions : st[a] # "waiting" => state'[a] = st[a]
  /\ \A a \in Acquisitions : state'[a] = "waiting" => st[a] = "waiting"
  /\ \A a \in Acquisitions : (\A i \in 1..n : queue[i] # a) => state'[a] = st[a]
  /\ \A i \in (n + 1)..Len(queue) : state'[queue[i]] = "waiting"
  /\ waiters' \in Seq(Acquisitions) /\ Len(waiters') = Len(queue) - n
  /\ \A i \in 1..Len(waiters') : waiters'[i] = queue[n + i]
  /\ waiters' # <<>> => available' = 0

\* What _grant_next_locked does to a queue of distinct waiting acquisitions:
\* it grants at most the permits it has, and stops with none left or with an
\* empty queue.
LEMMA GrantNextProperties ==
  ASSUME FiniteSetLaws,
         NEW permits \in Nat, NEW queue \in Seq(Acquisitions), NEW st \in [Acquisitions -> States],
         NEW callbacks \in SUBSET Acquisitions,
         \A i, j \in 1..Len(queue) : queue[i] = queue[j] => i = j,
         \A i \in 1..Len(queue) : st[queue[i]] = "waiting",
         GrantNext(permits, queue, st, callbacks)
  PROVE  \E n \in 0..Len(queue), served \in SUBSET Acquisitions :
           GrantOutcome(permits, queue, st, callbacks, n, served)
<1>1. PICK n \in 0..Len(queue) :
        /\ \A m \in 0..(n - 1) : Cardinality(Served(queue, st, m)) < permits
        /\ Cardinality(Served(queue, st, n)) = permits \/ n = Len(queue)
        /\ available' = permits - Cardinality(Served(queue, st, n))
        /\ waiters' = SubSeq(queue, n + 1, Len(queue))
        /\ state' = [a \in Acquisitions |->
                        IF a \in Served(queue, st, n) THEN "granted"
                        ELSE IF a \in {queue[i] : i \in 1..n} /\ st[a] = "waiting" THEN "cancelled"
                        ELSE st[a]]
        /\ scheduled' = callbacks \cup Served(queue, st, n)
  BY DEF GrantNext
<1> DEFINE served == Served(queue, st, n)
<1>2. /\ served \in SUBSET Acquisitions /\ IsFiniteSet(served)
      /\ Cardinality(served) \in Nat
  BY ServedProperties
<1>3. \A a \in served : st[a] = "waiting" /\ \E i \in 1..n : queue[i] = a
  BY DEF Served
<1>4. Cardinality(served) <= permits
  <2>1. CASE n = 0
    BY <2>1, ServedProperties, SMTT(30)
  <2>2. CASE n # 0
    <3> DEFINE before == Served(queue, st, n - 1)
    <3>1. n - 1 \in 0..Len(queue) /\ n - 1 \in 0..(n - 1)
      BY <2>2, SMTT(30)
    <3>2. IsFiniteSet(before) /\ Cardinality(before) \in Nat /\ Cardinality(before) < permits
      BY <1>1, <3>1, ServedProperties
    <3>3. served = before \/ served = before \cup {queue[n]}
      BY <2>2, ServedProperties
    <3>4. Cardinality(before \cup {queue[n]}) <= permits
      BY <3>2, AtMostOneMore
    <3> HIDE DEF before, served
    <3>5. CASE served = before
      BY <3>2, <3>5, SMTT(30)
    <3>6. CASE served = before \cup {queue[n]}
      BY <3>4, <3>6
    <3>7. QED
      BY <3>3, <3>5, <3>6
  <2>3. QED
    BY <2>1, <2>2
<1>5. /\ waiters' \in Seq(Acquisitions) /\ Len(waiters') = Len(queue) - n
      /\ \A i \in 1..Len(waiters') : waiters'[i] = queue[n + i]
  <2>1. Len(queue) \in Nat /\ \A i \in (n + 1)..Len(queue) : queue[i] \in Acquisitions
    BY SMTT(30)
  <2>2. /\ SubSeq(queue, n + 1, Len(queue)) \in Seq(Acquisitions)
        /\ Len(SubSeq(queue, n + 1, Len(queue))) =
             IF n + 1 <= Len(queue) THEN Len(queue) - (n + 1) + 1 ELSE 0
        /\ \A i \in 1..(Len(queue) - (n + 1) + 1) :
             SubSeq(queue, n + 1, Len(queue))[i] = queue[(n + 1) + i - 1]
    BY <2>1, SMTT(30)
  <2>3. QED
    BY <1>1, <2>1, <2>2, SMTT(30)
<1>6. waiters' # <<>> => available' = 0
  BY <1>1, <1>2, <1>5, SMTT(30)
<1>7. \A i \in (n + 1)..Len(queue) :
        queue[i] \in Acquisitions /\ queue[i] \notin {queue[j] : j \in 1..n}
  BY SMTT(30)
<1> HIDE DEF served
<1>8. state' \in [Acquisitions -> States]
  BY <1>1 DEF States, served
<1>9. /\ \A a \in Acquisitions : state'[a] = "granted" <=> a \in served \/ st[a] = "granted"
      /\ \A a \in Acquisitions : st[a] # "waiting" => state'[a] = st[a]
      /\ \A a \in Acquisitions : state'[a] = "waiting" => st[a] = "waiting"
      /\ \A a \in Acquisitions : (\A i \in 1..n : queue[i] # a) => state'[a] = st[a]
  BY <1>1, <1>3 DEF served
<1>10. \A i \in (n + 1)..Len(queue) : state'[queue[i]] = "waiting"
  <2> SUFFICES ASSUME NEW i \in (n + 1)..Len(queue) PROVE state'[queue[i]] = "waiting"
    OBVIOUS
  <2>1. i \in 1..Len(queue) /\ queue[i] \in Acquisitions /\ st[queue[i]] = "waiting"
    BY SMTT(30)
  <2>2. queue[i] \notin {queue[j] : j \in 1..n} /\ queue[i] \notin served
    BY <1>3, <1>7, SMTT(30)
  <2>3. QED
    BY <1>1, <2>1, <2>2 DEF served
<1>11. Cardinality(served) \in 0..permits
  BY <1>2, <1>4, SMTT(30)
<1>12. /\ available' = permits - Cardinality(served)
       /\ scheduled' = callbacks \cup served
  BY <1>1 DEF served
<1>13. QED
  BY <1>2, <1>3, <1>5, <1>6, <1>8, <1>9, <1>10, <1>11, <1>12 DEF GrantOutcome

\* The owners of permits, for the waiter states a method has reached.
Granted(st) == {b \in Acquisitions : st[b] = "granted" /\ pc'[b] # "released"}

\* The permits, queue, waiter states and callbacks that a method has reached
\* when it calls _grant_next_locked satisfy the invariant, but for the
\* waiters that are now to be served.
Ready(permits, queue, st, callbacks) ==
  /\ permits \in Nat /\ queue \in Seq(Acquisitions) /\ st \in [Acquisitions -> States]
  /\ callbacks \in SUBSET Acquisitions
  /\ pc' \in [Acquisitions -> Places] /\ future' \in [Acquisitions -> Futures]
  /\ IsFiniteSet(Granted(st)) /\ permits + Cardinality(Granted(st)) = Capacity
  /\ \A i, j \in 1..Len(queue) : queue[i] = queue[j] => i = j
  /\ \A i \in 1..Len(queue) :
       st[queue[i]] = "waiting" /\ pc'[queue[i]] \in {"awaiting", "abandoned"}
  /\ \A b \in Acquisitions :
       /\ pc'[b] = "holding" => st[b] = "granted"
       /\ st[b] = "waiting" => future'[b] = "pending"
       /\ st[b] = "granted" => future'[b] # "cancelled"
       /\ st[b] = "granted" /\ b \in callbacks => future'[b] = "pending"
       /\ pc'[b] = "awaiting" /\ future'[b] = "done" => st[b] = "granted"
       /\ pc'[b] = "idle" => st[b] = "waiting"

\* A method that ends with _grant_next_locked preserves the invariant.
LEMMA GrantKeepsInv ==
  ASSUME FiniteSetLaws,
         NEW permits, NEW queue, NEW st, NEW callbacks,
         Ready(permits, queue, st, callbacks), GrantNext(permits, queue, st, callbacks)
  PROVE  BulkheadInv'
<1> DEFINE G == Granted(st)
<1> USE DEF Ready
<1>1. PICK n \in 0..Len(queue), served \in SUBSET Acquisitions :
        GrantOutcome(permits, queue, st, callbacks, n, served)
  BY GrantNextProperties
<1> USE DEF GrantOutcome
<1>2. /\ G = {b \in Acquisitions : st[b] = "granted" /\ pc'[b] # "released"}
      /\ IsFiniteSet(G) /\ Cardinality(G) \in Nat /\ permits + Cardinality(G) = Capacity
  BY CountIsNat DEF Granted
<1> HIDE DEF G
<1> DEFINE InQueue(b) == pc'[b] \in {"awaiting", "abandoned"} /\ st[b] = "waiting"
<1>2a. \A i \in 1..n : InQueue(queue[i])
  <2> SUFFICES ASSUME NEW i \in 1..n PROVE InQueue(queue[i])
    OBVIOUS
  <2>1. i \in 1..Len(queue)
    BY SMTT(30)
  <2>2. QED
    BY <2>1
<1>3. TypeOK'
  BY <1>1, <1>2, CapacityAssumption, SMTT(30) DEF TypeOK
<1>4. Owners' = G \cup served /\ G \cap served = {}
  <2>1. ASSUME NEW a \in served
        PROVE  pc'[a] # "released" /\ st[a] # "granted"
    <3>1. PICK i \in 1..n : queue[i] = a
      BY <1>1
    <3>2. InQueue(a)
      BY <1>2a, <3>1
    <3>3. QED
      BY <3>2
  <2>2. QED
    BY <1>1, <1>2, <2>1, SMTT(30) DEF Owners
<1>5. IsFiniteSet(Owners') /\ Cardinality(Owners') = Cardinality(G) + Cardinality(served)
  <2>1. IsFiniteSet(G) /\ IsFiniteSet(served) /\ G \cap served = {}
    BY <1>1, <1>2, <1>4
  <2>2. IsFiniteSet(G \cup served) /\ Cardinality(G \cup served) = Cardinality(G) + Cardinality(served)
    BY ONLY FiniteSetLaws, <2>1, DisjointUnion, ZenonT(40)
  <2>3. QED
    BY <1>4, <2>2
<1>6. PermitsConserved'
  BY <1>1, <1>2, <1>5, CapacityAssumption, SMTT(30) DEF PermitsConserved
<1>7. WaitersMeanFull'
  BY <1>1 DEF WaitersMeanFull
<1>8. HoldersAreGranted'
  BY <1>1 DEF HoldersAreGranted, Owners
<1>9. QueueIsSound'
  <2>1. DOMAIN waiters' = 1..Len(waiters') /\ Len(waiters') \in Nat
    BY <1>1, SMTT(30)
  <2>2. \A i \in 1..Len(waiters') : n + i \in (n + 1)..Len(queue) /\ n + i \in 1..Len(queue)
    BY <1>1, SMTT(30)
  <2>3. \A i, j \in 1..Len(waiters') : waiters'[i] = waiters'[j] => i = j
    BY <1>1, <2>1, <2>2, SMTT(30)
  <2>4. \A i \in 1..Len(waiters') :
          state'[waiters'[i]] = "waiting" /\ pc'[waiters'[i]] \in {"awaiting", "abandoned"}
    BY <1>1, <2>1, <2>2, SMTT(30)
  <2>5. QED
    BY <2>1, <2>3, <2>4 DEF QueueIsSound
<1>10. FuturesFollowGrants'
  <2> SUFFICES ASSUME NEW a \in Acquisitions
               PROVE  /\ state'[a] = "waiting" => future'[a] = "pending"
                      /\ state'[a] = "granted" => future'[a] # "cancelled"
                      /\ state'[a] = "granted" /\ a \in scheduled' => future'[a] = "pending"
                      /\ pc'[a] = "awaiting" /\ future'[a] = "done" => state'[a] = "granted"
                      /\ pc'[a] = "idle" => state'[a] = "waiting"
    BY DEF FuturesFollowGrants
  <2>1. a \in served => future'[a] = "pending"
    BY <1>1
  <2>2. pc'[a] = "idle" => \A i \in 1..n : queue[i] # a
    BY <1>2a
  <2>3. QED
    BY <1>1, <2>1, <2>2, SMTT(30)
<1>11. QED
  BY <1>3, <1>5, <1>6, <1>7, <1>8, <1>9, <1>10 DEF BulkheadInv

-----------------------------------------------------------------------------
\* A bulkhead starts with all its permits.
LEMMA InitEstablishesBulkheadInv ==
  ASSUME FiniteSetLaws, Init
  PROVE  BulkheadInv
<1>1. Owners = {}
  BY DEF Init, Owners
<1>2. TypeOK /\ DOMAIN waiters = {}
  BY CapacityAssumption, SMTT(30) DEF Init, TypeOK, States, Futures, Places
<1>3. IsFiniteSet(Owners) /\ PermitsConserved
  BY <1>1, EmptyCount, CapacityAssumption, SMTT(30) DEF Init, PermitsConserved
<1>4. WaitersMeanFull /\ HoldersAreGranted /\ QueueIsSound /\ FuturesFollowGrants
  BY <1>2 DEF Init, WaitersMeanFull, HoldersAreGranted, QueueIsSound, FuturesFollowGrants
<1>5. QED
  BY <1>2, <1>3, <1>4 DEF BulkheadInv

\* acquire, without waiting or by joining the queue.
LEMMA AcquireKeepsInv ==
  ASSUME FiniteSetLaws,
         BulkheadInv, NEW a \in Acquisitions, Acquire(a)
  PROVE  BulkheadInv'
<1> USE DEF BulkheadInv
<1>1. state[a] = "waiting" /\ a \notin Owners /\ future[a] = "pending" /\ pc[a] = "idle"
  BY DEF Acquire, FuturesFollowGrants, Owners
<1>2. UNCHANGED <<future, scheduled>>
  BY DEF Acquire
<1>3. CASE available <= 0 \/ waiters # <<>>
  <2>1. /\ waiters' = Append(waiters, a) /\ pc' = [pc EXCEPT ![a] = "awaiting"]
        /\ UNCHANGED <<available, state>>
    BY <1>3 DEF Acquire
  <2>2. /\ waiters' \in Seq(Acquisitions) /\ Len(waiters') = Len(waiters) + 1
        /\ \A i \in 1..Len(waiters) : waiters'[i] = waiters[i]
        /\ waiters'[Len(waiters) + 1] = a /\ Len(waiters) \in Nat
    BY <2>1, SMTT(30) DEF TypeOK
  <2>3. TypeOK'
    BY <1>2, <2>1, <2>2 DEF TypeOK, Places
  <2>4. Owners' = Owners
    BY <1>1, <2>1 DEF Owners, TypeOK
  <2>5. PermitsConserved' /\ IsFiniteSet(Owners')
    BY <2>1, <2>4 DEF PermitsConserved
  <2>6. WaitersMeanFull'
    BY <1>3, <2>1, SMTT(30) DEF WaitersMeanFull, TypeOK
  <2>7. HoldersAreGranted'
    BY <2>1, <2>4 DEF HoldersAreGranted, TypeOK
  <2>8. QueueIsSound'
    <3>1. DOMAIN waiters = 1..Len(waiters) /\ DOMAIN waiters' = 1..Len(waiters')
      BY <2>2, SMTT(30) DEF TypeOK
    <3>2. \A i \in 1..Len(waiters) : waiters[i] # a /\ waiters[i] \in Acquisitions
      BY <1>1, <3>1, SMTT(30) DEF QueueIsSound, TypeOK
    <3>3. \A i \in 1..Len(waiters') : i \in 1..Len(waiters) \/ i = Len(waiters) + 1
      BY <2>2, SMTT(30)
    <3>4. \A i, j \in 1..Len(waiters') : waiters'[i] = waiters'[j] => i = j
      BY <2>2, <3>1, <3>2, <3>3, SMTT(30) DEF QueueIsSound
    <3>5. ASSUME NEW i \in 1..Len(waiters')
          PROVE  state'[waiters'[i]] = "waiting" /\ pc'[waiters'[i]] \in {"awaiting", "abandoned"}
      <4>1. CASE i \in 1..Len(waiters)
        BY <2>1, <2>2, <3>1, <3>2, <4>1, SMTT(30) DEF QueueIsSound, TypeOK
      <4>2. CASE i = Len(waiters) + 1
        BY <1>1, <2>1, <2>2, <4>2 DEF TypeOK
      <4>3. QED
        BY <3>3, <4>1, <4>2
    <3>6. QED
      BY <3>1, <3>4, <3>5 DEF QueueIsSound
  <2>9. FuturesFollowGrants'
    BY <1>1, <1>2, <2>1 DEF FuturesFollowGrants, TypeOK
  <2>10. QED
    BY <2>3, <2>5, <2>6, <2>7, <2>8, <2>9
<1>4. CASE ~ (available <= 0 \/ waiters # <<>>)
  <2>1. /\ available' = available - 1 /\ state' = [state EXCEPT ![a] = "granted"]
        /\ pc' = [pc EXCEPT ![a] = "holding"] /\ UNCHANGED waiters
    BY <1>4 DEF Acquire
  <2>2. TypeOK'
    <3>1. available' \in 0..Capacity
      BY <1>4, <2>1, CapacityAssumption, SMTT(30) DEF TypeOK
    <3>2. QED
      BY <1>2, <2>1, <3>1 DEF TypeOK, Places, States
  <2>3. Owners' = Owners \cup {a}
    BY <1>1, <2>1 DEF Owners, TypeOK
  <2>4. IsFiniteSet(Owners') /\ Cardinality(Owners') = Cardinality(Owners) + 1
    BY <1>1, <2>3, CountAdded
  <2>5. PermitsConserved'
    <3>1. Cardinality(Owners) \in Nat
      BY CountIsNat
    <3>2. QED
      BY <2>1, <2>4, <3>1, CapacityAssumption, SMTT(30) DEF PermitsConserved, TypeOK
  <2>6. WaitersMeanFull'
    BY <1>4, <2>1 DEF WaitersMeanFull
  <2>7. HoldersAreGranted'
    BY <2>1, <2>3 DEF HoldersAreGranted, TypeOK
  <2>8. waiters = <<>> /\ DOMAIN waiters' = {}
    BY <1>4, <2>1, SMTT(30)
  <2>9. QueueIsSound'
    BY <2>8 DEF QueueIsSound
  <2>10. FuturesFollowGrants'
    <3>1. /\ state'[a] = "granted" /\ pc'[a] = "holding"
          /\ \A b \in Acquisitions \ {a} : state'[b] = state[b] /\ pc'[b] = pc[b]
      BY <2>1 DEF TypeOK
    <3>2. QED
      BY <1>1, <1>2, <3>1, SMTT(30) DEF FuturesFollowGrants
  <2>11. QED
    BY <2>2, <2>4, <2>5, <2>6, <2>7, <2>9, <2>10
<1>5. QED
  BY <1>3, <1>4

\* Steps of the caller and its loop that do not touch the bulkhead.
LEMMA CallerStepsKeepInv ==
  ASSUME BulkheadInv, NEW a \in Acquisitions, Refuse(a) \/ Wake(a) \/ CloseLoop(a)
  PROVE  BulkheadInv'
<1> USE DEF BulkheadInv
<1>1. UNCHANGED <<available, waiters, state, future, scheduled>>
  BY DEF Refuse, Wake, CloseLoop
<1>2. PICK p \in {"refused", "holding", "abandoned"} :
        /\ pc' = [pc EXCEPT ![a] = p]
        /\ p = "holding" => pc[a] = "awaiting" /\ future[a] = "done"
        /\ p = "abandoned" => pc[a] = "awaiting"
        /\ p = "refused" => pc[a] = "idle"
  BY DEF Refuse, Wake, CloseLoop
<1>3. pc[a] \in {"idle", "awaiting"}
  BY <1>2
<1>4. pc'[a] = p /\ \A b \in Acquisitions \ {a} : pc'[b] = pc[b]
  BY <1>2 DEF TypeOK
<1>5. TypeOK'
  BY <1>1, <1>2 DEF TypeOK, Places
<1>6. Owners' = Owners
  BY <1>1, <1>2, <1>3, <1>4 DEF Owners
<1>7. IsFiniteSet(Owners') /\ PermitsConserved' /\ WaitersMeanFull'
  BY <1>1, <1>6 DEF PermitsConserved, WaitersMeanFull
<1>8. HoldersAreGranted'
  <2>1. p = "holding" => state[a] = "granted" /\ pc[a] # "released"
    BY <1>2 DEF FuturesFollowGrants
  <2>2. QED
    BY <1>4, <1>6, <2>1 DEF HoldersAreGranted, Owners
<1>9. QueueIsSound'
  <2>1. \A i \in DOMAIN waiters : waiters[i] \in Acquisitions
    BY SMTT(30) DEF TypeOK
  <2>2. \A i \in DOMAIN waiters : waiters[i] = a => p = "abandoned"
    BY <1>2 DEF QueueIsSound, FuturesFollowGrants
  <2>3. QED
    BY <1>1, <1>4, <2>1, <2>2 DEF QueueIsSound
<1>10. FuturesFollowGrants'
  BY <1>1, <1>2, <1>4, SMTT(30) DEF FuturesFollowGrants
<1>11. QED
  BY <1>5, <1>7, <1>8, <1>9, <1>10

\* _deliver: a callback that still has to run finds its future pending, so
\* it either finds the waiter withdrawn or settles the future.
LEMMA DeliverKeepsInv ==
  ASSUME BulkheadInv, NEW a \in Acquisitions, Deliver(a)
  PROVE  BulkheadInv'
<1> USE DEF BulkheadInv
<1>1. state[a] = "granted" => future[a] = "pending"
  BY DEF Deliver, FuturesFollowGrants
<1>2. /\ scheduled' = scheduled \ {a} /\ UNCHANGED <<available, waiters, state, pc>>
      /\ \/ UNCHANGED future /\ state[a] # "granted"
         \/ future' = [future EXCEPT ![a] = "done"] /\ state[a] = "granted"
  BY <1>1 DEF Deliver
<1>3. TypeOK'
  BY <1>2 DEF TypeOK, Futures
<1>4. Owners' = Owners
  BY <1>2 DEF Owners
<1>5. /\ IsFiniteSet(Owners') /\ PermitsConserved' /\ WaitersMeanFull' /\ HoldersAreGranted'
      /\ QueueIsSound'
  BY <1>2, <1>4 DEF PermitsConserved, WaitersMeanFull, HoldersAreGranted, QueueIsSound
<1>6. FuturesFollowGrants'
  <2>1. \A b \in Acquisitions : future'[b] = future[b] \/ (b = a /\ future'[b] = "done")
    BY <1>2 DEF TypeOK
  <2>2. QED
    BY <1>2, <2>1 DEF FuturesFollowGrants
<1>7. QED
  BY <1>3, <1>4, <1>5, <1>6

\* _release gives the permit to the next waiter.
LEMMA ReleaseGrants ==
  ASSUME FiniteSetLaws,
         BulkheadInv, NEW a \in Acquisitions, Release(a)
  PROVE  /\ Ready(available + 1, waiters, state, scheduled)
         /\ GrantNext(available + 1, waiters, state, scheduled)
<1> /\ TypeOK /\ IsFiniteSet(Owners) /\ PermitsConserved /\ WaitersMeanFull /\ HoldersAreGranted
    /\ QueueIsSound /\ FuturesFollowGrants
  BY DEF BulkheadInv
<1> DEFINE G == Owners \ {a}
<1>1. pc[a] = "holding" /\ pc' = [pc EXCEPT ![a] = "released"] /\ UNCHANGED future
  BY DEF Release
<1>2. a \in Owners /\ state[a] = "granted"
  BY <1>1 DEF HoldersAreGranted, Owners
<1>3. /\ Cardinality(Owners) \in Nat /\ IsFiniteSet(G)
      /\ Cardinality(G) = Cardinality(Owners) - 1 /\ Cardinality(G) \in Nat
  BY <1>2, CountRemoved, CountIsNat
<1>4. /\ available \in Nat /\ available < Capacity
      /\ (available + 1) + Cardinality(G) = Capacity
  BY <1>3, CapacityAssumption, SMTT(30) DEF PermitsConserved, TypeOK
<1>5. GrantNext(available + 1, waiters, state, scheduled)
  BY <1>4, CapacityAssumption, SMTT(30) DEF Release
<1>6. pc'[a] = "released" /\ \A b \in Acquisitions \ {a} : pc'[b] = pc[b]
  BY <1>1 DEF TypeOK
<1>7. G = Granted(state)
  BY <1>6 DEF Owners, Granted
<1>8. /\ \A i, j \in 1..Len(waiters) : waiters[i] = waiters[j] => i = j
      /\ \A i \in 1..Len(waiters) :
           state[waiters[i]] = "waiting" /\ pc'[waiters[i]] \in {"awaiting", "abandoned"}
  <2>1. DOMAIN waiters = 1..Len(waiters) /\ \A i \in DOMAIN waiters : waiters[i] \in Acquisitions
    BY SMTT(30) DEF TypeOK
  <2>2. QED
    BY <1>2, <1>6, <2>1 DEF QueueIsSound
<1>9. \A b \in Acquisitions :
        /\ pc'[b] = "holding" => state[b] = "granted"
        /\ state[b] = "waiting" => future'[b] = "pending"
        /\ state[b] = "granted" => future'[b] # "cancelled"
        /\ state[b] = "granted" /\ b \in scheduled => future'[b] = "pending"
        /\ pc'[b] = "awaiting" /\ future'[b] = "done" => state[b] = "granted"
        /\ pc'[b] = "idle" => state[b] = "waiting"
  BY <1>1, <1>6, SMTT(30) DEF FuturesFollowGrants, HoldersAreGranted, Owners
<1>10. /\ available + 1 \in Nat /\ waiters \in Seq(Acquisitions)
       /\ state \in [Acquisitions -> States] /\ scheduled \in SUBSET Acquisitions
       /\ pc' \in [Acquisitions -> Places] /\ future' \in [Acquisitions -> Futures]
  BY <1>1, <1>4, SMTT(30) DEF TypeOK, Places
<1> HIDE DEF G
<1>11. Ready(available + 1, waiters, state, scheduled)
  BY <1>3, <1>4, <1>7, <1>8, <1>9, <1>10 DEF Ready
<1>12. QED
  BY <1>5, <1>11

\* A function on an initial segment of the naturals is a sequence.
LEMMA SegmentIsSeq ==
  ASSUME NEW S, NEW m \in Nat, NEW f \in [1..m -> S]
  PROVE  f \in Seq(S) /\ Len(f) = m
BY SMTT(30)

\* A queue loses the element at one position and keeps the others in order.
LEMMA WithoutProperties ==
  ASSUME NEW queue \in Seq(Acquisitions), NEW i \in 1..Len(queue)
  PROVE  /\ Without(queue, i) \in Seq(Acquisitions)
         /\ Len(Without(queue, i)) = Len(queue) - 1
         /\ \A j \in 1..(Len(queue) - 1) :
              Without(queue, i)[j] = IF j < i THEN queue[j] ELSE queue[j + 1]
<1>1. Len(queue) - 1 \in Nat
  BY SMTT(30)
<1>2. \A j \in 1..(Len(queue) - 1) : (IF j < i THEN queue[j] ELSE queue[j + 1]) \in Acquisitions
  BY SMTT(30)
<1>3. Without(queue, i) \in [1..(Len(queue) - 1) -> Acquisitions]
  BY <1>2 DEF Without
<1>4. Without(queue, i) \in Seq(Acquisitions) /\ Len(Without(queue, i)) = Len(queue) - 1
  BY <1>1, <1>3, SegmentIsSeq
<1>5. QED
  BY <1>4 DEF Without

\* A part of the queue in which nobody stands twice and a does not stand.
QueueOfOthers(q, a) ==
  /\ q \in Seq(Acquisitions)
  /\ \A j, k \in 1..Len(q) : q[j] = q[k] => j = k
  /\ \A j \in 1..Len(q) : q[j] # a /\ \E k \in 1..Len(waiters) : q[j] = waiters[k]

\* What _withdraw makes of the queue when a waiting acquisition leaves it.
LEMMA QueueWithoutProperties ==
  ASSUME TypeOK, QueueIsSound, NEW a \in Acquisitions
  PROVE  QueueOfOthers(QueueWithout(a), a)
<1>1. /\ waiters \in Seq(Acquisitions) /\ Len(waiters) \in Nat /\ DOMAIN waiters = 1..Len(waiters)
      /\ \A i, j \in 1..Len(waiters) : waiters[i] = waiters[j] => i = j
  BY SMTT(30) DEF TypeOK, QueueIsSound
<1>2. CASE ~ \E i \in 1..Len(waiters) : waiters[i] = a
  <2>1. QueueWithout(a) = waiters
    BY <1>2 DEF QueueWithout
  <2>2. QueueOfOthers(waiters, a)
    BY <1>1, <1>2 DEF QueueOfOthers
  <2>3. QED
    BY <2>1, <2>2
<1>3. CASE \E i \in 1..Len(waiters) : waiters[i] = a
  <2> DEFINE i == CHOOSE k \in 1..Len(waiters) : waiters[k] = a
             q == QueueWithout(a)
  <2>1. i \in 1..Len(waiters) /\ waiters[i] = a
    BY <1>3
  <2>2. q = Without(waiters, i)
    BY <1>3 DEF QueueWithout
  <2> HIDE DEF i, q
  <2>3. /\ q \in Seq(Acquisitions) /\ Len(q) = Len(waiters) - 1
        /\ \A j \in 1..(Len(waiters) - 1) : q[j] = IF j < i THEN waiters[j] ELSE waiters[j + 1]
    BY <1>1, <2>1, <2>2, WithoutProperties
  <2>4. ASSUME NEW j \in 1..Len(q)
        PROVE  \E k \in 1..Len(waiters) : k # i /\ q[j] = waiters[k] /\ k = IF j < i THEN j ELSE j + 1
    BY <1>1, <2>1, <2>3, SMTT(30)
  <2>5. \A j \in 1..Len(q) : q[j] # a
    BY <1>1, <2>1, <2>4
  <2>6. ASSUME NEW j \in 1..Len(q), NEW k \in 1..Len(q), q[j] = q[k]
        PROVE  j = k
    <3>1. PICK m \in 1..Len(waiters) : q[j] = waiters[m] /\ m = IF j < i THEN j ELSE j + 1
      BY <2>4
    <3>2. PICK n \in 1..Len(waiters) : q[k] = waiters[n] /\ n = IF k < i THEN k ELSE k + 1
      BY <2>4
    <3>3. m = n
      BY <1>1, <2>6, <3>1, <3>2
    <3>4. j \in Nat /\ k \in Nat /\ i \in Nat
      BY <1>1, <2>1, <2>3, SMTT(30)
    <3>5. QED
      BY <3>1, <3>2, <3>3, <3>4, SMTT(30)
  <2>7. QED
    <3>1. QueueOfOthers(q, a)
      BY <2>3, <2>4, <2>5, <2>6 DEF QueueOfOthers
    <3>2. QED
      BY <3>1 DEF q
<1>4. QED
  BY <1>2, <1>3

\* Whoever was before another waiter still is when a third one left the queue.
LEMMA QueueWithoutKeepsOrder ==
  ASSUME TypeOK, QueueIsSound, NEW a \in Acquisitions,
         NEW i \in 1..Len(waiters), waiters[i] # a, NEW k \in 1..Len(QueueWithout(a)),
         \A j \in 1..Len(waiters) : waiters[j] = QueueWithout(a)[k] => i < j
  PROVE  \E m \in 1..k : QueueWithout(a)[m] = waiters[i]
<1> DEFINE q == QueueWithout(a)
<1>1. /\ waiters \in Seq(Acquisitions) /\ Len(waiters) \in Nat /\ DOMAIN waiters = 1..Len(waiters)
  BY SMTT(30) DEF TypeOK
<1>2. CASE ~ \E n \in 1..Len(waiters) : waiters[n] = a
  <2>1. q = waiters
    BY <1>2 DEF QueueWithout
  <2>2. i < k
    BY <1>1, <2>1
  <2>3. QED
    BY <1>1, <2>1, <2>2, SMTT(30)
<1>3. CASE \E n \in 1..Len(waiters) : waiters[n] = a
  <2> DEFINE gone == CHOOSE n \in 1..Len(waiters) : waiters[n] = a
  <2>1. gone \in 1..Len(waiters) /\ waiters[gone] = a
    BY <1>3
  <2>2. q = Without(waiters, gone)
    BY <1>3 DEF QueueWithout
  <2> HIDE DEF gone, q
  <2>3. /\ q \in Seq(Acquisitions) /\ Len(q) = Len(waiters) - 1
        /\ \A j \in 1..(Len(waiters) - 1) : q[j] = IF j < gone THEN waiters[j] ELSE waiters[j + 1]
    BY <1>1, <2>1, <2>2, WithoutProperties
  <2>4. k \in 1..(Len(waiters) - 1) /\ i # gone
    BY <2>1, <2>3 DEF q
  <2>5. i < IF k < gone THEN k ELSE k + 1
    <3>1. (IF k < gone THEN k ELSE k + 1) \in 1..Len(waiters)
      BY <1>1, <2>1, <2>4, SMTT(30)
    <3>2. waiters[IF k < gone THEN k ELSE k + 1] = q[k]
      BY <2>3, <2>4
    <3>3. QED
      BY <3>1, <3>2 DEF q
  <2> DEFINE m == IF i < gone THEN i ELSE i - 1
  <2>6. m \in 1..k /\ m \in 1..(Len(waiters) - 1)
    BY <1>1, <2>1, <2>4, <2>5, SMTT(30)
  <2>7. q[m] = waiters[i]
    BY <1>1, <2>1, <2>3, <2>4, <2>6, SMTT(30)
  <2>8. QED
    BY <2>6, <2>7 DEF q
<1>4. QED
  BY <1>2, <1>3

\* The permits and the queue that _withdraw has reached.
PermitsAfter(a) == IF state[a] = "granted" THEN available + 1 ELSE available
QueueAfter(a) == IF state[a] = "waiting" THEN QueueWithout(a) ELSE waiters

\* _withdraw: whatever the waiter had is given back, and the next is served.
LEMMA WithdrawGrants ==
  ASSUME FiniteSetLaws,
         BulkheadInv, NEW a \in Acquisitions, NEW why \in {"timed_out", "cancelled"},
         Withdraw(a, why), state[a] \in {"waiting", "granted"}
  PROVE  /\ Ready(PermitsAfter(a), QueueAfter(a), [state EXCEPT ![a] = why], scheduled)
         /\ GrantNext(PermitsAfter(a), QueueAfter(a), [state EXCEPT ![a] = why], scheduled)
<1> /\ TypeOK /\ IsFiniteSet(Owners) /\ PermitsConserved /\ WaitersMeanFull /\ HoldersAreGranted
    /\ QueueIsSound /\ FuturesFollowGrants
  BY DEF BulkheadInv
<1> DEFINE permits == PermitsAfter(a)
           queue == QueueAfter(a)
           st == [state EXCEPT ![a] = why]
           G == Owners \ {a}
<1>1. pc[a] = "awaiting" /\ pc' = [pc EXCEPT ![a] = "refused"]
  BY DEF Withdraw
<1>2. pc'[a] = "refused" /\ \A b \in Acquisitions \ {a} : pc'[b] = pc[b]
  BY <1>1 DEF TypeOK
<1>3. QED
  <2>1. /\ GrantNext(permits, queue, st, scheduled)
        /\ future' = [future EXCEPT ![a] = IF @ = "pending" THEN "cancelled" ELSE @]
    BY DEF Withdraw, PermitsAfter, QueueAfter
  <2>2. /\ st \in [Acquisitions -> States] /\ st[a] = why
        /\ \A b \in Acquisitions \ {a} : st[b] = state[b]
    BY DEF TypeOK, States
  <2>3. /\ future' \in [Acquisitions -> Futures]
        /\ \A b \in Acquisitions \ {a} : future'[b] = future[b]
    BY <2>1 DEF TypeOK, Futures
  <2>4. G = Granted(st)
    BY <1>2, <2>2 DEF Owners, Granted
  <2>5. IsFiniteSet(G) /\ permits \in Nat /\ permits + Cardinality(G) = Capacity
    <3>1. /\ IsFiniteSet(G) /\ Cardinality(Owners) \in Nat
          /\ Cardinality(G) = IF a \in Owners THEN Cardinality(Owners) - 1 ELSE Cardinality(Owners)
      BY CountRemoved, CountIsNat
    <3>2. a \in Owners <=> state[a] = "granted"
      BY <1>1 DEF Owners
    <3>3. QED
      BY <3>1, <3>2, CapacityAssumption, SMTT(30) DEF PermitsConserved, TypeOK, PermitsAfter
  <2>6. /\ queue \in Seq(Acquisitions)
        /\ \A i, j \in 1..Len(queue) : queue[i] = queue[j] => i = j
        /\ \A i \in 1..Len(queue) :
             queue[i] # a /\ queue[i] \in Acquisitions /\ state[queue[i]] = "waiting"
             /\ pc[queue[i]] \in {"awaiting", "abandoned"}
    <3>1. /\ waiters \in Seq(Acquisitions) /\ DOMAIN waiters = 1..Len(waiters)
          /\ \A k \in 1..Len(waiters) : waiters[k] \in Acquisitions
      BY SMTT(30) DEF TypeOK
    <3>2. CASE state[a] = "waiting"
      <4>1. queue = QueueWithout(a)
        BY <3>2 DEF QueueAfter
      <4> HIDE DEF queue
      <4>2. QueueOfOthers(queue, a)
        BY <4>1, QueueWithoutProperties
      <4>3. \A k \in 1..Len(waiters) :
              waiters[k] \in Acquisitions /\ state[waiters[k]] = "waiting"
              /\ pc[waiters[k]] \in {"awaiting", "abandoned"}
        BY <3>1 DEF QueueIsSound
      <4>4. ASSUME NEW i \in 1..Len(queue)
            PROVE  queue[i] # a /\ queue[i] \in Acquisitions /\ state[queue[i]] = "waiting"
                   /\ pc[queue[i]] \in {"awaiting", "abandoned"}
        <5>1. PICK k \in 1..Len(waiters) : queue[i] = waiters[k]
          BY <4>2 DEF QueueOfOthers
        <5>2. QED
          BY <4>2, <4>3, <5>1 DEF QueueOfOthers
      <4>5. QED
        BY <4>2, <4>4 DEF QueueOfOthers
    <3>3. CASE state[a] # "waiting"
      BY <3>1, <3>3 DEF QueueIsSound, QueueAfter
    <3>4. QED
      BY <3>2, <3>3
  <2>7. pc' \in [Acquisitions -> Places] /\ scheduled \in SUBSET Acquisitions
    BY <1>1 DEF TypeOK, Places
  <2> HIDE DEF permits, queue, st, G
  <2>8. \A i \in 1..Len(queue) :
          st[queue[i]] = "waiting" /\ pc'[queue[i]] \in {"awaiting", "abandoned"}
    BY <1>2, <2>2, <2>6
  <2>9. ASSUME NEW b \in Acquisitions
        PROVE  /\ pc'[b] = "holding" => st[b] = "granted"
               /\ st[b] = "waiting" => future'[b] = "pending"
               /\ st[b] = "granted" => future'[b] # "cancelled"
               /\ st[b] = "granted" /\ b \in scheduled => future'[b] = "pending"
               /\ pc'[b] = "awaiting" /\ future'[b] = "done" => st[b] = "granted"
               /\ pc'[b] = "idle" => st[b] = "waiting"
    <3>1. CASE b = a
      BY <1>2, <2>2, <3>1
    <3>2. CASE b # a
      BY <1>2, <2>2, <2>3, <3>2, SMTT(30) DEF FuturesFollowGrants, HoldersAreGranted, Owners
    <3>3. QED
      BY <3>1, <3>2
  <2>10. Ready(permits, queue, st, scheduled)
    BY <2>2, <2>3, <2>4, <2>5, <2>6, <2>7, <2>8, <2>9 DEF Ready
  <2>11. QED
    BY <2>1, <2>10 DEF permits, queue, st

\* A release keeps the invariant.
LEMMA ReleaseKeepsInv ==
  ASSUME FiniteSetLaws,
         BulkheadInv, NEW a \in Acquisitions, Release(a)
  PROVE  BulkheadInv'
BY ReleaseGrants, GrantKeepsInv

\* So does a withdrawal.
LEMMA WithdrawKeepsInv ==
  ASSUME FiniteSetLaws,
         BulkheadInv, NEW a \in Acquisitions, NEW why \in {"timed_out", "cancelled"},
         Withdraw(a, why)
  PROVE  BulkheadInv'
<1> /\ TypeOK /\ IsFiniteSet(Owners) /\ PermitsConserved /\ WaitersMeanFull /\ HoldersAreGranted
    /\ QueueIsSound /\ FuturesFollowGrants
  BY DEF BulkheadInv
<1>1. pc[a] = "awaiting" /\ pc' = [pc EXCEPT ![a] = "refused"]
  BY DEF Withdraw
<1>2. pc'[a] = "refused" /\ \A b \in Acquisitions \ {a} : pc'[b] = pc[b]
  BY <1>1 DEF TypeOK
<1>3. CASE state[a] \in {"waiting", "granted"}
  BY <1>3, WithdrawGrants, GrantKeepsInv
<1>4. CASE state[a] \notin {"waiting", "granted"}
  <2>1. UNCHANGED <<available, waiters, state, future, scheduled>>
    BY <1>4 DEF Withdraw
  <2>2. TypeOK'
    BY <1>1, <2>1 DEF TypeOK, Places
  <2>3. Owners' = Owners
    BY <1>2, <1>4, <2>1 DEF Owners
  <2>4. IsFiniteSet(Owners') /\ PermitsConserved' /\ WaitersMeanFull'
    BY <2>1, <2>3 DEF PermitsConserved, WaitersMeanFull
  <2>5. HoldersAreGranted'
    BY <1>2, <2>3 DEF HoldersAreGranted
  <2>6. QueueIsSound'
    <3>1. \A i \in DOMAIN waiters : waiters[i] \in Acquisitions /\ waiters[i] # a
      BY <1>4, SMTT(30) DEF TypeOK, QueueIsSound
    <3>2. QED
      BY <1>2, <2>1, <3>1 DEF QueueIsSound
  <2>7. FuturesFollowGrants'
    BY <1>2, <2>1 DEF FuturesFollowGrants
  <2>8. QED
    BY <2>2, <2>4, <2>5, <2>6, <2>7 DEF BulkheadInv
<1>5. QED
  BY <1>3, <1>4

-----------------------------------------------------------------------------
\* Every method of the bulkhead, and every step of an event loop between two
\* of them, preserves the invariant.
LEMMA StepKeepsBulkheadInv ==
  ASSUME FiniteSetLaws,
         BulkheadInv, [Next]_vars
  PROVE  BulkheadInv'
<1>1. CASE UNCHANGED vars
  <2>1. Owners' = Owners
    BY <1>1 DEF vars, Owners
  <2>2. QED
    BY <1>1, <2>1 DEF vars, BulkheadInv, TypeOK, PermitsConserved, WaitersMeanFull,
                      HoldersAreGranted, QueueIsSound, FuturesFollowGrants
<1>2. CASE Next
  <2>1. PICK a \in Acquisitions :
          \/ Refuse(a) \/ Acquire(a) \/ Deliver(a) \/ Wake(a)
          \/ TimeOut(a) \/ Cancel(a) \/ Release(a) \/ CloseLoop(a)
    BY <1>2 DEF Next
  <2>2. CASE Refuse(a) \/ Wake(a) \/ CloseLoop(a)
    BY <2>2, CallerStepsKeepInv
  <2>3. CASE Acquire(a)
    BY <2>3, AcquireKeepsInv
  <2>4. CASE Deliver(a)
    BY <2>4, DeliverKeepsInv
  <2>5. CASE TimeOut(a)
    BY <2>5, WithdrawKeepsInv DEF TimeOut
  <2>6. CASE Cancel(a)
    BY <2>6, WithdrawKeepsInv DEF Cancel
  <2>7. CASE Release(a)
    BY <2>7, ReleaseKeepsInv
  <2>8. QED
    BY <2>1, <2>2, <2>3, <2>4, <2>5, <2>6, <2>7
<1>3. QED
  BY <1>1, <1>2

-----------------------------------------------------------------------------
(* The order of service.                                                   *)

\* _grant_next_locked leaves nobody in the queue before one it grants.
LEMMA GrantsInOrder ==
  ASSUME FiniteSetLaws,
         NEW permits, NEW queue, NEW st, NEW callbacks,
         Ready(permits, queue, st, callbacks), GrantNext(permits, queue, st, callbacks),
         NEW b \in Acquisitions, st[b] # "granted", state'[b] = "granted"
  PROVE  \E k \in 1..Len(queue) :
           /\ queue[k] = b
           /\ \A m \in 1..k : \A j \in DOMAIN waiters' : waiters'[j] # queue[m]
<1>1. PICK n \in 0..Len(queue), served \in SUBSET Acquisitions :
        GrantOutcome(permits, queue, st, callbacks, n, served)
  BY GrantNextProperties DEF Ready
<1>2. /\ queue \in Seq(Acquisitions) /\ waiters' \in Seq(Acquisitions)
      /\ Len(waiters') = Len(queue) - n
      /\ \A i \in 1..Len(waiters') : waiters'[i] = queue[n + i]
      /\ \A i, j \in 1..Len(queue) : queue[i] = queue[j] => i = j
  BY <1>1 DEF Ready, GrantOutcome
<1>3. Len(queue) \in Nat /\ Len(waiters') \in Nat /\ DOMAIN waiters' = 1..Len(waiters')
  BY <1>2, SMTT(30)
<1>4. PICK k \in 1..n : queue[k] = b
  BY <1>1 DEF Ready, GrantOutcome
<1>5. k \in 1..Len(queue)
  BY <1>3, SMTT(30)
<1>6. ASSUME NEW m \in 1..k, NEW j \in DOMAIN waiters'
      PROVE  waiters'[j] # queue[m]
  <2>1. n + j \in 1..Len(queue) /\ m \in 1..Len(queue) /\ n + j # m
    BY <1>2, <1>3, SMTT(30)
  <2>2. waiters'[j] = queue[n + j]
    BY <1>2, <1>3
  <2>3. queue[n + j] # queue[m]
    BY <1>2, <2>1
  <2>4. QED
    BY <2>2, <2>3
<1>7. QED
  BY <1>4, <1>5, <1>6

\* _grant_next_locked leaves a part of the queue it was given.
LEMMA GrantedFromQueue ==
  ASSUME FiniteSetLaws,
         NEW permits, NEW queue, NEW st, NEW callbacks,
         Ready(permits, queue, st, callbacks), GrantNext(permits, queue, st, callbacks)
  PROVE  \A j \in DOMAIN waiters' : \E m \in 1..Len(queue) : waiters'[j] = queue[m]
<1>1. PICK n \in 0..Len(queue), served \in SUBSET Acquisitions :
        GrantOutcome(permits, queue, st, callbacks, n, served)
  BY GrantNextProperties DEF Ready
<1>2. /\ queue \in Seq(Acquisitions) /\ waiters' \in Seq(Acquisitions)
      /\ Len(waiters') = Len(queue) - n
      /\ \A i \in 1..Len(waiters') : waiters'[i] = queue[n + i]
  BY <1>1 DEF Ready, GrantOutcome
<1>3. Len(queue) \in Nat /\ Len(waiters') \in Nat /\ DOMAIN waiters' = 1..Len(waiters')
  BY <1>2, SMTT(30)
<1>4. ASSUME NEW j \in DOMAIN waiters'
      PROVE  n + j \in 1..Len(queue) /\ waiters'[j] = queue[n + j]
  <2>1. n + j \in 1..Len(queue)
    BY <1>2, <1>3, SMTT(30)
  <2>2. QED
    BY <1>2, <1>3, <2>1
<1>5. QED
  BY <1>4

\* Whoever is between acquire and release owns a permit.
LEMMA InvLimits ==
  ASSUME FiniteSetLaws, BulkheadInv
  PROVE  LimitHolds
<1> DEFINE H == {a \in Acquisitions : pc[a] = "holding"}
<1>1. H \subseteq Owners /\ IsFiniteSet(Owners)
  BY DEF BulkheadInv, HoldersAreGranted
<1>2. IsFiniteSet(H) /\ Cardinality(H) <= Cardinality(Owners)
  BY <1>1, CountOfPart
<1>3. Cardinality(H) \in Nat /\ Cardinality(Owners) \in Nat
  BY <1>1, <1>2, CountIsNat
<1> HIDE DEF H
<1>4. available \in Nat /\ available + Cardinality(Owners) = Capacity
  BY CapacityAssumption, SMTT(30) DEF BulkheadInv, TypeOK, PermitsConserved
<1>5. Cardinality(H) <= Capacity
  BY <1>2, <1>3, <1>4, CapacityAssumption, SMTT(30)
<1>6. QED
  BY <1>5 DEF LimitHolds, H

\* A caller that is granted leaves nobody queueing that arrived before it.
ServesInOrder ==
    \A a, b \in Acquisitions :
        (state[b] # "granted" /\ state'[b] = "granted" /\ Arrived(a, b))
            => \A i \in DOMAIN waiters' : waiters'[i] # a

\* No step of the bulkhead overtakes.
LEMMA StepServesInOrder ==
  ASSUME FiniteSetLaws, BulkheadInv, Next
  PROVE  ServesInOrder
<1> SUFFICES ASSUME NEW a \in Acquisitions, NEW b \in Acquisitions,
                    state[b] # "granted", state'[b] = "granted", Arrived(a, b)
             PROVE  \A i \in DOMAIN waiters' : waiters'[i] # a
  BY DEF ServesInOrder
<1>1. /\ waiters \in Seq(Acquisitions) /\ DOMAIN waiters = 1..Len(waiters)
      /\ state \in [Acquisitions -> States] /\ TypeOK /\ QueueIsSound
  BY SMTT(30) DEF BulkheadInv, TypeOK
<1>2. PICK i \in 1..Len(waiters) :
        waiters[i] = a /\ \A j \in 1..Len(waiters) : waiters[j] = b => i < j
  BY <1>1 DEF Arrived
<1>3. PICK c \in Acquisitions :
        \/ Refuse(c) \/ Wake(c) \/ CloseLoop(c) \/ Acquire(c) \/ Deliver(c)
        \/ (\E why \in {"timed_out", "cancelled"} : Withdraw(c, why)) \/ Release(c)
  BY DEF Next, TimeOut, Cancel
<1>4. CASE Refuse(c) \/ Wake(c) \/ CloseLoop(c)
  BY <1>4 DEF Refuse, Wake, CloseLoop
<1>5. CASE Acquire(c)
  <2>1. waiters # <<>>
    BY <1>1, <1>2, SMTT(30)
  <2>2. state' = state
    BY <1>5, <2>1 DEF Acquire
  <2>3. QED
    BY <2>2
<1>6. CASE Deliver(c)
  <2>1. state' = state
    BY <1>6 DEF Deliver, BulkheadInv, FuturesFollowGrants
  <2>2. QED
    BY <2>1
<1>7. CASE Release(c)
  <2>1. PICK k \in 1..Len(waiters) :
          /\ waiters[k] = b
          /\ \A m \in 1..k : \A j \in DOMAIN waiters' : waiters'[j] # waiters[m]
    <3>1. /\ Ready(available + 1, waiters, state, scheduled)
          /\ GrantNext(available + 1, waiters, state, scheduled)
      BY <1>7, ReleaseGrants
    <3>2. QED
      BY <3>1, GrantsInOrder, SMTT(30)
  <2>2. i \in 1..k
    BY <1>1, <1>2, <2>1, SMTT(30)
  <2>3. QED
    BY <1>2, <2>1, <2>2
<1>8. ASSUME NEW why \in {"timed_out", "cancelled"}, Withdraw(c, why)
      PROVE  \A j \in DOMAIN waiters' : waiters'[j] # a
  <2> DEFINE st == [state EXCEPT ![c] = why]
  <2>1. CASE state[c] \notin {"waiting", "granted"}
    BY <1>8, <2>1 DEF Withdraw
  <2>2. CASE state[c] \in {"waiting", "granted"}
    <3>1. /\ Ready(PermitsAfter(c), QueueAfter(c), st, scheduled)
          /\ GrantNext(PermitsAfter(c), QueueAfter(c), st, scheduled)
      BY <1>8, <2>2, WithdrawGrants
    <3>2. st[b] # "granted"
      BY <1>1
    <3> HIDE DEF st
    <3>3. PICK k \in 1..Len(QueueAfter(c)) :
            /\ QueueAfter(c)[k] = b
            /\ \A m \in 1..k : \A j \in DOMAIN waiters' : waiters'[j] # QueueAfter(c)[m]
      BY <3>1, <3>2, GrantsInOrder, SMTT(30)
    <3>4. CASE QueueAfter(c) = waiters
      <4>1. i \in 1..k
        BY <1>1, <1>2, <3>3, <3>4, SMTT(30)
      <4>2. QED
        BY <1>2, <3>3, <3>4, <4>1
    <3>5. CASE QueueAfter(c) = QueueWithout(c) /\ a # c
      <4>1. k \in 1..Len(QueueWithout(c)) /\ QueueWithout(c)[k] = b
        BY <3>3, <3>5
      <4>2. /\ waiters[i] # c
            /\ \A j \in 1..Len(waiters) : waiters[j] = QueueWithout(c)[k] => i < j
        BY <1>2, <3>5, <4>1
      <4>3. \E m \in 1..k : QueueWithout(c)[m] = waiters[i]
        BY <1>1, <4>1, <4>2, QueueWithoutKeepsOrder
      <4>4. PICK m \in 1..k : QueueAfter(c)[m] = a
        BY <1>2, <3>5, <4>3
      <4>5. QED
        BY <3>3, <4>4
    <3>6. CASE QueueAfter(c) = QueueWithout(c) /\ a = c
      <4>1. \A j \in 1..Len(QueueWithout(c)) : QueueWithout(c)[j] # c
        BY <1>1, QueueWithoutProperties DEF QueueOfOthers
      <4>2. \A j \in DOMAIN waiters' : \E m \in 1..Len(QueueAfter(c)) :
              waiters'[j] = QueueAfter(c)[m]
        BY <3>1, GrantedFromQueue, SMTT(30)
      <4>3. QED
        BY <3>6, <4>1, <4>2
    <3>7. QED
      BY <3>4, <3>5, <3>6 DEF QueueAfter
  <2>3. QED
    BY <2>1, <2>2
<1>9. QED
  BY <1>3, <1>4, <1>5, <1>6, <1>7, <1>8

-----------------------------------------------------------------------------
(* Spans.                                                                  *)

SpanEntry ==
    [start : {"none", "running", "done", "failed", "cancelled"}, known : BOOLEAN, abort : BOOLEAN,
     terminal : BOOLEAN, first : {"none"} \cup Ways,
     finalizer : {"none", "waiting", "ending", "over"}, direct : BOOLEAN,
     how : {"none"} \cup Ways, signal : BOOLEAN, span : {"none", "open"} \cup Ways, ends : 0..1]

SpanTypeOK ==
    /\ tracer \in Tracers /\ ownerLoop \in BOOLEAN
    /\ entry \in [Entries -> SpanEntry]
    /\ run \in [phase : {"before", "tool", "after", "over", "left"},
               at : {"idle", "handle", "attributes", "finalizer"}, on : 0..2]
    /\ caller \in [Callers -> [at : {"idle", "called", "posted", "ending", "over"}, on : 0..2,
                               way : Ways]]
    /\ current \in 0..2
    /\ \A c \in Callers : caller[c].at = "idle" \/ caller[c].on \in Entries

\* What was asked first decides, and who ends the span has not done it yet.
SoundEntry(e) ==
    /\ e.first = "abort" => e.abort
    /\ e.terminal => e.first = "finish"
    /\ e.finalizer # "none" \/ e.direct => e.first # "none"
    /\ e.how = "finish" => e.first = "finish"
    /\ e.span = "finish" => e.first = "finish"
    /\ ~(e.direct /\ e.finalizer # "none")
    /\ tracer = "legacy" => ~e.direct /\ (e.start # "done" => e.ends = 0)
    /\ tracer # "legacy" => (e.finalizer # "over" /\ ~e.direct => e.ends = 0)

EntriesAreSound == \A i \in Entries : SoundEntry(entry[i])

\* A thread ends a span itself only when the owner loop is closed, and only the
\* one that reserved the entry.
DirectIsReserved ==
    /\ \A i \in Entries : entry[i].direct => ~ownerLoop
    /\ \A c \in Callers : caller[c].at = "ending" =>
        \A i \in Entries : caller[c].on = i => entry[i].direct /\ entry[i].ends = 0
    /\ \A c, d \in Callers :
        caller[c].at = "ending" /\ caller[d].at = "ending" /\ caller[c].on = caller[d].on => c = d

\* The loop is closed after the execution, and each observation admits at most
\* one entry.
RunIsOrderly ==
    /\ ~ownerLoop => run.phase \in {"over", "left"}
    /\ run.phase \in {"tool", "over", "left"} => run.at = "idle"
    /\ run.at = "idle" \/ run.on \in Entries
    /\ run.phase = "before" /\ run.at = "idle" => \A i \in Entries : entry[i].start = "none"
    /\ run.phase \in {"before", "tool"} \/ (run.phase = "after" /\ run.at = "idle") =>
        \E i \in Entries : entry[i].start = "none"

SpanInv ==
    /\ SpanTypeOK
    /\ EntriesAreSound
    /\ DirectIsReserved
    /\ RunIsOrderly

\* No entry is reserved twice over.
StartsKept == \A j \in Entries : entry[j].start = "none" => entry'[j].start = "none"

\* One entry changes, and no thread begins to end a span.
LEMMA EntryChanges ==
  ASSUME SpanInv, NEW i \in Entries, NEW e \in SpanEntry, entry' = [entry EXCEPT ![i] = e],
         SoundEntry(e), tracer' = tracer, ownerLoop' = ownerLoop, e.direct => ~ownerLoop,
         \A c \in Callers : caller'[c].at = "ending" => caller'[c] = caller[c],
         \A c \in Callers : caller'[c].at = "ending" /\ caller[c].on = i =>
                                e.direct /\ e.ends = 0
  PROVE  /\ entry' \in [Entries -> SpanEntry] /\ EntriesAreSound' /\ DirectIsReserved'
         /\ (entry[i].start = "none" => e.start = "none") => StartsKept
<1> SpanTypeOK /\ EntriesAreSound /\ DirectIsReserved
  BY DEF SpanInv
<1>1. /\ entry \in [Entries -> SpanEntry]
      /\ \A j \in Entries : entry'[j] = IF j = i THEN e ELSE entry[j]
  BY DEF SpanTypeOK
<1>2. entry' \in [Entries -> SpanEntry]
  BY <1>1
<1>3. EntriesAreSound'
  BY <1>1 DEF EntriesAreSound, SoundEntry
<1>4. DirectIsReserved'
  BY <1>1, SMTT(30) DEF DirectIsReserved
<1>5. (entry[i].start = "none" => e.start = "none") => StartsKept
  BY <1>1 DEF StartsKept
<1>6. QED
  BY <1>2, <1>3, <1>4, <1>5

\* The execution stays where it is.
LEMMA RunStays ==
  ASSUME SpanInv, StartsKept, run' = run, ownerLoop' = ownerLoop
  PROVE  RunIsOrderly'
BY DEF SpanInv, RunIsOrderly, StartsKept

\* A task or a call changes one entry and at most drops it from the list.
LEMMA TaskKeepsInv ==
  ASSUME SpanInv, NEW i \in Entries, NEW e \in SpanEntry, entry' = [entry EXCEPT ![i] = e],
         SoundEntry(e), tracer' = tracer, ownerLoop' = ownerLoop, e.direct = entry[i].direct,
         entry[i].start = "none" => e.start = "none",
         run' = run, caller' = caller, current' \in {current, 0},
         \A c \in Callers : caller[c].at = "ending" /\ caller[c].on = i => e.ends = entry[i].ends
  PROVE  SpanInv'
<1> SpanTypeOK /\ DirectIsReserved
  BY DEF SpanInv
<1>1. e.direct => ~ownerLoop
  BY DEF DirectIsReserved
<1>2. \A c \in Callers : caller'[c].at = "ending" /\ caller[c].on = i => e.direct /\ e.ends = 0
  BY DEF DirectIsReserved
<1>3. entry' \in [Entries -> SpanEntry] /\ EntriesAreSound' /\ DirectIsReserved' /\ StartsKept
  BY <1>1, <1>2, EntryChanges
<1>4. RunIsOrderly'
  BY <1>3, RunStays
<1>5. current' \in 0..2
  BY SMTT(30) DEF SpanTypeOK
<1>6. SpanTypeOK'
  BY <1>3, <1>5 DEF SpanTypeOK
<1>7. QED
  BY <1>3, <1>4, <1>6 DEF SpanInv

\* The start task, the worker of a legacy manager and the finalizer.
LEMMA SpanTaskKeepsInv ==
  ASSUME SpanInv, NEW i \in Entries, SpanTask(i)
  PROVE  SpanInv'
<1> DEFINE e == entry[i]
<1>1. e \in SpanEntry /\ SoundEntry(e) /\ tracer \in Tracers
  BY DEF SpanInv, SpanTypeOK, EntriesAreSound
<1>2. UNCHANGED <<tracer, run, caller, ownerLoop>> /\ current' \in {current, 0}
  BY DEF SpanTask, StartReturns, StartFails, LegacyEnters, LegacyExits, FinalizerReads,
         FinalizerEnds, FinalizerGivesUp, Pop
<1>3. \A c \in Callers : caller[c].at = "ending" /\ caller[c].on = i => e.direct
  BY DEF SpanInv, DirectIsReserved
<1>4. ASSUME NEW f \in SpanEntry, entry' = [entry EXCEPT ![i] = f], SoundEntry(f),
             f.direct = e.direct, e.start = "none" => f.start = "none",
             e.direct => f.ends = e.ends
      PROVE  SpanInv'
  BY <1>2, <1>3, <1>4, TaskKeepsInv
<1>5. CASE StartReturns(i)
  <2> DEFINE f == [e EXCEPT !.start = "done", !.span = "open"]
  <2>1. entry' = [entry EXCEPT ![i] = f] /\ e.start = "running" /\ tracer # "legacy"
    BY <1>5 DEF StartReturns
  <2>2. /\ f \in SpanEntry /\ SoundEntry(f) /\ f.direct = e.direct /\ f.start # "none"
        /\ f.ends = e.ends
    BY <1>1, <2>1 DEF SpanEntry, SoundEntry, Ways
  <2>3. QED
    BY <1>4, <2>1, <2>2
<1>6. CASE StartFails(i)
  <2>1. PICK s \in {"failed", "cancelled"} : entry' = [entry EXCEPT ![i].start = s]
    BY <1>6 DEF StartFails
  <2> DEFINE f == [e EXCEPT !.start = s]
  <2>2. entry' = [entry EXCEPT ![i] = f] /\ e.start = "running" /\ tracer # "legacy"
    BY <1>6, <2>1 DEF StartFails
  <2>3. /\ f \in SpanEntry /\ SoundEntry(f) /\ f.direct = e.direct /\ f.start # "none"
        /\ f.ends = e.ends
    BY <1>1, <2>2, SMTT(30) DEF SpanEntry, SoundEntry
  <2>4. QED
    BY <1>4, <2>2, <2>3
<1>7. CASE LegacyEnters(i)
  <2>1. PICK f \in {[e EXCEPT !.span = "open", !.known = ownerLoop], [e EXCEPT !.start = "failed"]} :
          entry' = [entry EXCEPT ![i] = f]
    BY <1>7 DEF LegacyEnters
  <2>2. e.start = "running" /\ ownerLoop \in BOOLEAN
    BY <1>7 DEF LegacyEnters, SpanInv, SpanTypeOK
  <2>3. /\ f \in SpanEntry /\ SoundEntry(f) /\ f.direct = e.direct /\ f.start # "none"
        /\ f.ends = e.ends
    <3>1. CASE f = [e EXCEPT !.span = "open", !.known = ownerLoop]
      BY <1>1, <2>2, <3>1 DEF SpanEntry, SoundEntry
    <3>2. CASE f = [e EXCEPT !.start = "failed"]
      BY <1>1, <2>2, <3>2 DEF SpanEntry, SoundEntry
    <3>3. QED
      BY <2>1, <3>1, <3>2
  <2> HIDE DEF e
  <2>4. QED
    BY <1>4, <2>1, <2>2, <2>3
<1>8. CASE LegacyExits(i)
  <2> DEFINE way == IF e.abort \/ ~e.terminal THEN "abort" ELSE "finish"
             f == [e EXCEPT !.start = "done", !.span = way, !.ends = 1, !.signal = TRUE]
  <2>1. e.start = "running" /\ tracer = "legacy"
    BY <1>8 DEF LegacyExits
  <2>2. e.ends = 0 /\ ~e.direct
    BY <1>1, <2>1 DEF SoundEntry
  <2>3. e.ends + 1 = 1
    BY <2>2, SMTT(30)
  <2>4. entry' = [entry EXCEPT ![i] = f]
    BY <1>8, <2>3 DEF LegacyExits
  <2>5. way \in Ways /\ (way = "finish" => e.first = "finish")
    BY <1>1 DEF SoundEntry, Ways
  <2> HIDE DEF way
  <2>6. f \in SpanEntry /\ f.direct = e.direct
    <3>1. 1 \in 0..1
      BY SMTT(30)
    <3>2. QED
      BY <1>1, <2>5, <3>1 DEF SpanEntry
  <2>7. SoundEntry(f)
    BY <1>1, <2>1, <2>5 DEF SpanEntry, SoundEntry, Ways
  <2>8. QED
    BY <1>4, <2>1, <2>2, <2>4, <2>6, <2>7
<1>9. CASE FinalizerReads(i)
  <2>1. PICK f \in {[e EXCEPT !.signal = TRUE, !.finalizer = "ending"],
                    [e EXCEPT !.known = TRUE, !.finalizer = "ending",
                              !.how = IF e.abort THEN "abort" ELSE "finish"]} :
          entry' = [entry EXCEPT ![i] = f]
    BY <1>9 DEF FinalizerReads
  <2>2. e.finalizer = "waiting"
    BY <1>9 DEF FinalizerReads
  <2>3. /\ f \in SpanEntry /\ SoundEntry(f) /\ f.direct = e.direct /\ f.start = e.start
        /\ f.ends = e.ends
    <3> DEFINE read == IF e.abort THEN "abort" ELSE "finish"
    <3>1. CASE f = [e EXCEPT !.signal = TRUE, !.finalizer = "ending"]
      BY <1>1, <2>2, <3>1 DEF SpanEntry, SoundEntry, Ways
    <3>2. CASE f = [e EXCEPT !.known = TRUE, !.finalizer = "ending", !.how = read]
      BY <1>1, <2>2, <3>2 DEF SpanEntry, SoundEntry, Ways
    <3>3. QED
      BY <2>1, <3>1, <3>2
  <2> HIDE DEF e
  <2>4. QED
    BY <1>4, <2>1, <2>3
<1>10. CASE FinalizerEnds(i) /\ tracer = "legacy"
  <2> DEFINE f == [e EXCEPT !.finalizer = "over"]
  <2>1. entry' = [entry EXCEPT ![i] = f] /\ e.finalizer = "ending"
    BY <1>10 DEF FinalizerEnds
  <2>2. /\ f \in SpanEntry /\ SoundEntry(f) /\ f.direct = e.direct /\ f.start = e.start
        /\ f.ends = e.ends
    BY <1>1, <1>10, <2>1 DEF SpanEntry, SoundEntry, Ways
  <2>3. QED
    BY <1>4, <2>1, <2>2
<1>11. CASE FinalizerEnds(i) /\ tracer # "legacy"
  <2> DEFINE f == [e EXCEPT !.finalizer = "over", !.span = e.how, !.ends = 1]
  <2>1. e.finalizer = "ending"
    BY <1>11 DEF FinalizerEnds
  <2>2. e.ends = 0 /\ ~e.direct
    BY <1>1, <1>11, <2>1 DEF SoundEntry
  <2>3. e.ends + 1 = 1
    BY <2>2, SMTT(30)
  <2>4. entry' = [entry EXCEPT ![i] = f]
    BY <1>11, <2>3 DEF FinalizerEnds
  <2>5. f \in SpanEntry /\ f.direct = e.direct /\ f.start = e.start
    <3>1. 1 \in 0..1 /\ e.how \in {"none"} \cup Ways
      BY <1>1, SMTT(30) DEF SpanEntry
    <3>2. e.how \in {"none", "open"} \cup Ways
      BY <3>1
    <3>3. QED
      BY <1>1, <3>1, <3>2 DEF SpanEntry
  <2>6. SoundEntry(f)
    BY <1>1, <1>11, <2>1, <2>2 DEF SpanEntry, SoundEntry, Ways
  <2>7. QED
    BY <1>4, <2>2, <2>4, <2>5, <2>6
<1>12. CASE FinalizerGivesUp(i)
  <2> DEFINE f == [e EXCEPT !.finalizer = "over"]
  <2>1. entry' = [entry EXCEPT ![i] = f] /\ e.finalizer = "waiting"
    BY <1>12 DEF FinalizerGivesUp
  <2>2. /\ f \in SpanEntry /\ SoundEntry(f) /\ f.direct = e.direct /\ f.start = e.start
        /\ f.ends = e.ends
    BY <1>1, <2>1, SMTT(30) DEF SpanEntry, SoundEntry, Ways
  <2>3. QED
    BY <1>4, <2>1, <2>2
<1>13. QED
  BY <1>5, <1>6, <1>7, <1>8, <1>9, <1>10, <1>11, <1>12 DEF SpanTask

\* What is asked for first stays first, and an abort is never forgotten.
LEMMA AskedIsSound ==
  ASSUME NEW i \in Entries, NEW way \in Ways, entry[i] \in SpanEntry, SoundEntry(entry[i])
  PROVE  /\ Asked(i, way) \in SpanEntry /\ SoundEntry(Asked(i, way)) /\ Asked(i, way).first # "none"
         /\ Asked(i, way).direct = entry[i].direct /\ Asked(i, way).start = entry[i].start
         /\ Asked(i, way).finalizer = entry[i].finalizer /\ Asked(i, way).ends = entry[i].ends
<1> DEFINE e == entry[i]
           a == Asked(i, way)
           ab == e.abort \/ way = "abort"
           te == e.terminal \/ (way = "finish" /\ ~e.abort)
           fi == IF e.first = "none" THEN way ELSE e.first
<1>1. a = [e EXCEPT !.abort = ab, !.terminal = te, !.first = fi]
  BY DEF Asked, SpanEntry
<1>2. ab \in BOOLEAN /\ te \in BOOLEAN /\ fi \in Ways
  BY DEF SpanEntry, Ways
<1>3. fi = "abort" => ab
  BY DEF SoundEntry
<1>4. te => fi = "finish"
  BY DEF SoundEntry, SpanEntry, Ways
<1>5. e.first # "none" => fi = e.first
  OBVIOUS
<1> HIDE DEF ab, te, fi, a
<1>6. /\ a \in SpanEntry /\ a.direct = e.direct /\ a.start = e.start /\ a.first = fi
      /\ a.finalizer = e.finalizer /\ a.ends = e.ends
  BY <1>1, <1>2 DEF SpanEntry
<1>7. SoundEntry(a)
  BY <1>1, <1>2, <1>3, <1>4, <1>5 DEF SpanEntry, SoundEntry, Ways
<1>8. QED
  BY <1>2, <1>6, <1>7 DEF Ways, a

\* A request on the owner loop changes no more than what was asked for and who
\* will finalize the entry.
LEMMA RequestIsSound ==
  ASSUME SpanInv, ownerLoop, NEW i \in 0..2, NEW way \in Ways, RequestTerminal(i, way),
         tracer' = tracer, ownerLoop' = ownerLoop,
         \A c \in Callers : caller'[c].at # "ending"
  PROVE  entry' \in [Entries -> SpanEntry] /\ EntriesAreSound' /\ DirectIsReserved' /\ StartsKept
<1>1. CASE entry' = entry
  BY <1>1 DEF SpanInv, SpanTypeOK, EntriesAreSound, SoundEntry, DirectIsReserved, StartsKept
<1>2. CASE entry' # entry
  <2> DEFINE e == entry[i]
             a == Asked(i, way)
             f == [a EXCEPT !.finalizer = IF @ = "none" THEN "waiting" ELSE @]
  <2>1. entry' = [entry EXCEPT ![i] = f]
    BY <1>2 DEF RequestTerminal
  <2>2. CASE i = 0
    <3>1. DOMAIN entry = Entries /\ i \notin Entries
      BY <2>2, SMTT(30) DEF SpanInv, SpanTypeOK, Entries
    <3>2. [entry EXCEPT ![i] = f] = entry
      BY <3>1 DEF SpanInv, SpanTypeOK
    <3>3. QED
      BY <1>2, <2>1, <3>2
  <2>3. CASE i \in Entries
    <3>1. e \in SpanEntry /\ SoundEntry(e) /\ ~e.direct
      BY <2>3 DEF SpanInv, SpanTypeOK, EntriesAreSound, DirectIsReserved
    <3>2. a \in SpanEntry /\ SoundEntry(a) /\ a.direct = e.direct /\ a.start = e.start /\ a.first # "none"
      BY <2>3, <3>1, AskedIsSound
    <3>3. f \in SpanEntry /\ SoundEntry(f) /\ f.direct = a.direct /\ f.start = a.start
      <4> HIDE DEF a
      <4> QED BY <3>1, <3>2, SMTT(30) DEF SpanEntry, SoundEntry, Ways
    <3> HIDE DEF a, f
    <3>4. QED
      BY <2>1, <2>3, <3>1, <3>2, <3>3, EntryChanges
  <2>4. QED
    BY <2>2, <2>3, SMTT(30) DEF Entries
<1>3. QED
  BY <1>1, <1>2

\* While the owner loop is open no thread ends a span itself.
LEMMA NoDirectEnd ==
  ASSUME SpanInv, ownerLoop
  PROVE  \A c \in Callers : caller[c].at # "ending"
BY DEF SpanInv, SpanTypeOK, DirectIsReserved

\* An observation that is over lets the execution go on.
LEMMA ObservedIsOrderly ==
  ASSUME SpanInv, StartsKept, ownerLoop, ownerLoop' = ownerLoop, run.at # "idle", Observed
  PROVE  RunIsOrderly' /\ run' \in [phase : {"before", "tool", "after", "over", "left"},
               at : {"idle", "handle", "attributes", "finalizer"}, on : 0..2]
<1>1. run.phase \in {"before", "after"}
  BY DEF SpanInv, SpanTypeOK, RunIsOrderly
<1>2. PICK p \in {"tool", "left", "over"} :
        run' = [phase |-> p, at |-> "idle", on |-> 0] /\ (p # "over" => run.phase = "before")
  BY <1>1 DEF Observed
<1>3. run.phase = "before" => \E i \in Entries : entry[i].start = "none"
  BY DEF SpanInv, RunIsOrderly
<1>4. QED
  BY <1>2, <1>3, SMTT(30) DEF RunIsOrderly, StartsKept

\* What an observation has to show.
LEMMA ObservationFrame ==
  ASSUME SpanInv, UNCHANGED <<tracer, caller, ownerLoop>>, current' \in 0..2,
         entry' \in [Entries -> SpanEntry], EntriesAreSound', DirectIsReserved', RunIsOrderly',
         run' \in [phase : {"before", "tool", "after", "over", "left"},
                   at : {"idle", "handle", "attributes", "finalizer"}, on : 0..2]
  PROVE  SpanInv'
BY DEF SpanInv, SpanTypeOK

\* An observation that leaves the entries alone.
LEMMA EntriesStay ==
  ASSUME SpanInv, UNCHANGED <<tracer, caller, ownerLoop, entry>>
  PROVE  entry' \in [Entries -> SpanEntry] /\ EntriesAreSound' /\ DirectIsReserved' /\ StartsKept
BY SMTT(30) DEF SpanInv, SpanTypeOK, EntriesAreSound, SoundEntry, DirectIsReserved, StartsKept

\* The observations of one execution.
LEMMA ObservationKeepsInv ==
  ASSUME SpanInv, Observation
  PROVE  SpanInv'
<1> DEFINE Runs == [phase : {"before", "tool", "after", "over", "left"},
                    at : {"idle", "handle", "attributes", "finalizer"}, on : 0..2]
           Kept == entry' \in [Entries -> SpanEntry] /\ EntriesAreSound' /\ DirectIsReserved'
<1>1. UNCHANGED <<tracer, caller, ownerLoop>>
  BY DEF Observation, AdmitSpan, HandleArrives, AttributesSet, AFinish, FinalizerAwaited,
         StartFailureSeen, ObservationStops, ExecutionEnds
<1>2. run.phase \in {"before", "after", "tool"}
  BY DEF Observation, AdmitSpan, HandleArrives, AttributesSet, AFinish, FinalizerAwaited,
         StartFailureSeen, ObservationStops, ExecutionEnds, SpanInv, SpanTypeOK, RunIsOrderly
<1>3. ownerLoop /\ \A c \in Callers : caller'[c].at # "ending"
  BY <1>1, <1>2, NoDirectEnd DEF SpanInv, RunIsOrderly
<1>4. run \in Runs /\ current \in 0..2 /\ (run.at = "idle" \/ run.on \in Entries)
  BY DEF SpanInv, SpanTypeOK, RunIsOrderly
<1>5. ASSUME current' \in 0..2, run' \in Runs, Kept, RunIsOrderly'
      PROVE  SpanInv'
  BY <1>1, <1>5, ObservationFrame
<1>6. CASE AdmitSpan /\ current # 0
  <2>1. run' = [run EXCEPT !.at = "handle", !.on = current] /\ UNCHANGED <<current, entry>>
    BY <1>6 DEF AdmitSpan
  <2>2. Kept /\ StartsKept
    BY <1>1, <2>1, EntriesStay
  <2>3. run' \in Runs /\ current' \in 0..2
    BY <1>4, <2>1
  <2>4. RunIsOrderly'
    BY <1>1, <1>3, <1>4, <1>6, <2>1, SMTT(30) DEF AdmitSpan, SpanInv, RunIsOrderly, Entries
  <2>5. QED
    BY <1>5, <2>2, <2>3, <2>4
<1>7. CASE AdmitSpan /\ current = 0
  <2> DEFINE i == Free
             e == entry[i]
             f == [e EXCEPT !.start = "running"]
  <2>1. i \in Entries /\ e.start = "none"
    <3>1. \E j \in Entries : entry[j].start = "none"
      BY <1>7 DEF AdmitSpan, SpanInv, RunIsOrderly
    <3>2. QED
      BY <3>1 DEF Free
  <2>2. /\ run' = [run EXCEPT !.at = "handle", !.on = i]
        /\ current' = i /\ entry' = [entry EXCEPT ![i].start = "running"]
    BY <1>7 DEF AdmitSpan
  <2> HIDE DEF i
  <2>3. entry' = [entry EXCEPT ![i] = f]
    BY <2>2
  <2>4. e \in SpanEntry /\ SoundEntry(e) /\ ~e.direct
    BY <1>3, <2>1 DEF SpanInv, SpanTypeOK, EntriesAreSound, DirectIsReserved
  <2>5. f \in SpanEntry /\ SoundEntry(f) /\ ~f.direct
    BY <2>1, <2>4, SMTT(30) DEF SpanEntry, SoundEntry
  <2>6. Kept
    BY <1>1, <1>3, <2>1, <2>3, <2>5, EntryChanges
  <2>7. run' \in Runs /\ current' \in 0..2
    <3>1. i \in 0..2
      BY <2>1, SMTT(30) DEF Entries
    <3>2. QED
      BY <1>4, <2>2, <3>1
  <2>8. run.phase = "before" => \E j \in Entries : entry'[j].start = "none"
    <3>1. SUFFICES ASSUME run.phase = "before" PROVE \E j \in Entries : entry'[j].start = "none"
      OBVIOUS
    <3>2. \A j \in Entries : entry[j].start = "none"
      BY <1>7, <3>1 DEF AdmitSpan, SpanInv, RunIsOrderly
    <3>3. PICK j \in Entries : j # i
      BY <2>1, SMTT(30) DEF Entries
    <3>4. entry'[j] = entry[j]
      BY <2>3, <3>3 DEF SpanInv, SpanTypeOK
    <3>5. QED
      BY <3>2, <3>4
  <2>9. RunIsOrderly'
    BY <1>1, <1>3, <1>4, <1>7, <2>1, <2>2, <2>8, SMTT(30) DEF AdmitSpan, RunIsOrderly
  <2>10. QED
    BY <1>5, <2>6, <2>7, <2>9
<1>8. CASE HandleArrives
  <2> DEFINE i == run.on
             e == entry[i]
             f == [e EXCEPT !.known = TRUE]
  <2>1. i \in Entries
    BY <1>4, <1>8 DEF HandleArrives
  <2>2. entry' = [entry EXCEPT ![i] = f] /\ run' = [run EXCEPT !.at = "attributes"] /\ current' = current
    BY <1>8 DEF HandleArrives
  <2>3. e \in SpanEntry /\ SoundEntry(e) /\ ~e.direct
    BY <1>3, <2>1 DEF SpanInv, SpanTypeOK, EntriesAreSound, DirectIsReserved
  <2>4. f \in SpanEntry /\ SoundEntry(f) /\ ~f.direct /\ f.start = e.start
    BY <2>3 DEF SpanEntry, SoundEntry
  <2>5. Kept /\ StartsKept
    BY <1>1, <1>3, <2>1, <2>2, <2>4, EntryChanges
  <2>6. run' \in Runs /\ current' \in 0..2
    BY <1>4, <2>2
  <2>7. RunIsOrderly'
    BY <1>1, <1>3, <1>4, <1>8, <2>1, <2>2, <2>5, SMTT(30)
       DEF HandleArrives, SpanInv, RunIsOrderly, StartsKept
  <2>8. QED
    BY <1>5, <2>5, <2>6, <2>7
<1>9. CASE AttributesSet \/ FinalizerAwaited
  <2>1. Observed /\ UNCHANGED <<entry, current>> /\ run.at # "idle"
    BY <1>9 DEF AttributesSet, FinalizerAwaited
  <2>2. Kept /\ StartsKept
    BY <1>1, <2>1, EntriesStay
  <2>3. RunIsOrderly' /\ run' \in Runs
    BY <1>1, <1>3, <2>1, <2>2, ObservedIsOrderly
  <2>4. QED
    BY <1>4, <1>5, <2>1, <2>2, <2>3
<1>10. CASE AFinish /\ current = 0
  <2>1. Observed /\ UNCHANGED <<entry, current>> /\ run.at # "idle"
    BY <1>10 DEF AFinish
  <2>2. Kept /\ StartsKept
    BY <1>1, <2>1, EntriesStay
  <2>3. RunIsOrderly' /\ run' \in Runs
    BY <1>1, <1>3, <2>1, <2>2, ObservedIsOrderly
  <2>4. QED
    BY <1>4, <1>5, <2>1, <2>2, <2>3
<1>11. CASE AFinish /\ current # 0
  <2>1. /\ RequestTerminal(current, "finish") /\ run.phase = "after"
        /\ run' = [run EXCEPT !.at = "finalizer", !.on = current] /\ current' = current
    BY <1>11 DEF AFinish
  <2>2. Kept /\ StartsKept
    BY <1>1, <1>3, <1>4, <2>1, RequestIsSound DEF Ways
  <2>3. run' \in Runs /\ current \in Entries
    <3>1. current \in Entries
      BY <1>4, <1>11, SMTT(30) DEF Entries
    <3>2. QED
      BY <1>4, <2>1, <3>1
  <2>4. RunIsOrderly'
    BY <1>1, <1>3, <1>4, <2>1, <2>3 DEF RunIsOrderly
  <2>5. QED
    BY <1>4, <1>5, <2>1, <2>2, <2>3, <2>4
<1>12. CASE StartFailureSeen \/ ObservationStops
  <2>1. /\ Observed /\ run.at # "idle" /\ current' \in {0, current}
        /\ entry' = entry \/ RequestTerminal(run.on, "abort")
    BY <1>12 DEF StartFailureSeen, ObservationStops, Pop
  <2>2. Kept /\ StartsKept
    BY <1>1, <1>3, <1>4, <2>1, EntriesStay, RequestIsSound DEF Ways
  <2>3. RunIsOrderly' /\ run' \in Runs
    BY <1>1, <1>3, <2>1, <2>2, ObservedIsOrderly
  <2>4. current' \in 0..2
    BY <1>4, <2>1, SMTT(30)
  <2>5. QED
    BY <1>5, <2>2, <2>3, <2>4
<1>13. CASE ExecutionEnds
  <2>1. /\ run.phase = "tool" /\ run' = [run EXCEPT !.phase = "after"] /\ current' = current
        /\ entry' = entry \/ RequestTerminal(current, "abort")
    BY <1>13 DEF ExecutionEnds
  <2>2. Kept /\ StartsKept
    BY <1>1, <1>3, <1>4, <2>1, EntriesStay, RequestIsSound DEF Ways
  <2>3. run' \in Runs
    BY <1>4, <2>1
  <2>4. RunIsOrderly'
    BY <1>1, <1>3, <1>4, <2>1, <2>2 DEF SpanInv, RunIsOrderly, StartsKept
  <2>5. QED
    BY <1>4, <1>5, <2>1, <2>2, <2>3, <2>4
<1>14. QED
  BY <1>6, <1>7, <1>8, <1>9, <1>10, <1>11, <1>12, <1>13 DEF Observation

\* A call moves on without touching an entry and without ending a span.
LEMMA CallerMoves ==
  ASSUME SpanInv, NEW c \in Callers, NEW k, caller' = [caller EXCEPT ![c] = k],
         k \in [at : {"called", "posted", "over"}, on : Entries, way : Ways],
         UNCHANGED <<tracer, entry, run, ownerLoop>>, current' \in {current, 0}
  PROVE  SpanInv'
<1>1. SpanTypeOK /\ EntriesAreSound /\ DirectIsReserved /\ RunIsOrderly
  BY DEF SpanInv
<1>2. k \in [at : {"idle", "called", "posted", "ending", "over"}, on : 0..2, way : Ways]
  BY SMTT(30) DEF Entries
<1>3. current' \in 0..2
  BY <1>1, SMTT(30) DEF SpanTypeOK
<1>4. k.at # "ending" /\ k.on \in Entries
  OBVIOUS
<1>5. \A d \in Callers : caller'[d] = IF d = c THEN k ELSE caller[d]
  BY <1>1 DEF SpanTypeOK
<1>6. SpanTypeOK'
  BY <1>1, <1>2, <1>3, <1>4, <1>5 DEF SpanTypeOK
<1>7. DirectIsReserved'
  BY <1>1, <1>4, <1>5, SMTT(30) DEF DirectIsReserved
<1>8. EntriesAreSound' /\ RunIsOrderly'
  BY <1>1, SMTT(30) DEF EntriesAreSound, SoundEntry, RunIsOrderly
<1>9. QED
  BY <1>6, <1>7, <1>8 DEF SpanInv

\* The threads of the synchronous API.
LEMMA SpanCallKeepsInv ==
  ASSUME SpanInv, NEW c \in Callers, SpanCall(c)
  PROVE  SpanInv'
<1> DEFINE k == caller[c]
           i == k.on
           e == entry[i]
           Callings == [at : {"idle", "called", "posted", "ending", "over"}, on : 0..2, way : Ways]
<1>1. /\ UNCHANGED <<tracer, run, ownerLoop>>
      /\ k \in Callings /\ (k.at = "idle" \/ i \in Entries) /\ current \in 0..2
  BY DEF SpanCall, Call, SubmitToOwner, CompleteOnOwner, FinalizeDirect, DirectEnds, SpanInv, SpanTypeOK
<1>2. i \in Entries => e \in SpanEntry /\ SoundEntry(e)
  BY DEF SpanInv, SpanTypeOK, EntriesAreSound
<1>3. CASE Call(c)
  <2>1. PICK way \in Ways :
          caller' = [caller EXCEPT ![c] = [at |-> "called", on |-> current, way |-> way]]
    BY <1>3 DEF Call
  <2>2. current \in Entries
    BY <1>1, <1>3, SMTT(30) DEF Call, Entries
  <2>3. UNCHANGED <<current, entry>>
    BY <1>3 DEF Call
  <2>4. [at |-> "called", on |-> current, way |-> way] \in
          [at : {"called", "posted", "over"}, on : Entries, way : Ways]
    BY <2>2
  <2>5. QED
    BY <1>1, <2>1, <2>3, <2>4, CallerMoves
<1>4. ASSUME NEW a \in {"posted", "over"}, caller' = [caller EXCEPT ![c].at = a], k.at # "idle",
             entry' = entry, current' \in {current, 0}
      PROVE  SpanInv'
  <2>1. [k EXCEPT !.at = a] \in [at : {"called", "posted", "over"}, on : Entries, way : Ways]
    BY <1>1, <1>4
  <2>2. caller' = [caller EXCEPT ![c] = [k EXCEPT !.at = a]]
    BY <1>4
  <2>3. QED
    BY <1>1, <1>4, <2>1, <2>2, CallerMoves
<1>5. CASE SubmitToOwner(c)
  <2>1. k.at = "called" /\ entry' = entry /\ current' \in {current, 0}
    BY <1>5 DEF SubmitToOwner, Pop
  <2>2. \/ caller' = [caller EXCEPT ![c].at = "posted"] \/ caller' = [caller EXCEPT ![c].at = "over"]
    BY <1>5 DEF SubmitToOwner, CallEnds
  <2>3. QED
    BY <1>4, <2>1, <2>2
<1>6. ASSUME NEW a \in {"ending", "over"}, caller' = [caller EXCEPT ![c].at = a], k.at # "idle",
             current' \in {current, 0}, entry' \in [Entries -> SpanEntry], EntriesAreSound',
             DirectIsReserved', StartsKept
      PROVE  SpanInv'
  <2>1. \A d \in Callers : caller'[d] = IF d = c THEN [k EXCEPT !.at = a] ELSE caller[d]
    BY <1>6 DEF SpanInv, SpanTypeOK
  <2>2. caller' \in [Callers -> Callings]
    BY <1>1, <1>6 DEF SpanInv, SpanTypeOK
  <2>3. \A d \in Callers : caller'[d].at = "idle" \/ caller'[d].on \in Entries
    BY <1>1, <1>6, <2>1 DEF SpanInv, SpanTypeOK
  <2>4. current' \in 0..2
    BY <1>1, <1>6, SMTT(30)
  <2>5. SpanTypeOK'
    BY <1>1, <1>6, <2>2, <2>3, <2>4 DEF SpanInv, SpanTypeOK
  <2>6. RunIsOrderly'
    BY <1>1, <1>6, RunStays
  <2>7. QED
    BY <1>6, <2>5, <2>6 DEF SpanInv
<1>7. CASE CompleteOnOwner(c)
  <2>1. /\ k.at = "posted" /\ ownerLoop /\ RequestTerminal(i, k.way) /\ current' = current
        /\ caller' = [caller EXCEPT ![c].at = "over"]
    BY <1>7 DEF CompleteOnOwner, CallEnds
  <2>2. \A d \in Callers : caller'[d].at # "ending"
    BY <2>1, NoDirectEnd DEF SpanInv, SpanTypeOK
  <2>3. i \in 0..2 /\ k.way \in Ways
    BY <1>1
  <2>4. entry' \in [Entries -> SpanEntry] /\ EntriesAreSound' /\ DirectIsReserved' /\ StartsKept
    BY <1>1, <2>1, <2>2, <2>3, RequestIsSound
  <2>5. QED
    BY <1>6, <2>1, <2>4
<1>8. CASE FinalizeDirect(c) /\ entry' = entry
  <2>1. /\ k.at = "called" /\ current' \in {current, 0}
        /\ \/ caller' = [caller EXCEPT ![c].at = "over"]
           \/ entry' = [entry EXCEPT ![i] = [Asked(i, k.way) EXCEPT !.direct = TRUE]] /\ ~e.direct
    <3>1. k.at = "called" /\ current' \in {current, 0}
      BY <1>8 DEF FinalizeDirect, Pop
    <3>2. CASE tracer = "legacy"
      BY <1>8, <3>1, <3>2 DEF FinalizeDirect, CallEnds
    <3>3. CASE tracer # "legacy"
      BY <1>8, <3>1, <3>3 DEF FinalizeDirect, CallEnds
    <3>4. QED
      BY <3>2, <3>3
  <2>2. caller' = [caller EXCEPT ![c].at = "over"]
    <3>1. SUFFICES ASSUME entry' = [entry EXCEPT ![i] = [Asked(i, k.way) EXCEPT !.direct = TRUE]],
                          ~e.direct
                   PROVE  FALSE
      BY <2>1
    <3>2. entry'[i] = [Asked(i, k.way) EXCEPT !.direct = TRUE]
      BY <1>1, <2>1, <3>1 DEF SpanInv, SpanTypeOK
    <3>3. Asked(i, k.way) \in SpanEntry
      BY <1>1, <1>2, <2>1, AskedIsSound
    <3>4. entry'[i].direct
      BY <3>2, <3>3 DEF SpanEntry
    <3>5. QED
      BY <1>8, <3>1, <3>4
  <2>3. QED
    BY <1>4, <1>8, <2>1, <2>2
<1>9. CASE FinalizeDirect(c) /\ entry' # entry
  <2> DEFINE a == Asked(i, k.way)
             f == [a EXCEPT !.direct = TRUE]
  <2>1. /\ k.at = "called" /\ ~ownerLoop /\ tracer # "legacy" /\ e.finalizer = "none" /\ ~e.direct
        /\ entry' = [entry EXCEPT ![i] = f] /\ caller' = [caller EXCEPT ![c].at = "ending"]
        /\ current' = current
    BY <1>9 DEF FinalizeDirect
  <2>2. i \in Entries /\ k.way \in Ways
    BY <1>1, <2>1
  <2>3. /\ a \in SpanEntry /\ SoundEntry(a) /\ a.first # "none" /\ a.direct = e.direct
        /\ a.start = e.start /\ a.finalizer = e.finalizer /\ a.ends = e.ends
    BY <1>2, <2>2, AskedIsSound
  <2>4. e.ends = 0
    BY <1>2, <2>1, <2>2 DEF SoundEntry
  <2> HIDE DEF a
  <2>5. f \in SpanEntry /\ SoundEntry(f) /\ f.direct /\ f.start = e.start /\ f.ends = e.ends
    BY <2>1, <2>3, <2>4 DEF SpanEntry, SoundEntry
  <2>6. \A j \in Entries : entry'[j] = IF j = i THEN f ELSE entry[j]
    BY <2>1 DEF SpanInv, SpanTypeOK
  <2>7. \A d \in Callers : caller'[d] = IF d = c THEN [k EXCEPT !.at = "ending"] ELSE caller[d]
    BY <2>1 DEF SpanInv, SpanTypeOK
  <2>8. [k EXCEPT !.at = "ending"].on = i
    BY <1>1
  <2> HIDE DEF f
  <2>9. entry' \in [Entries -> SpanEntry] /\ EntriesAreSound' /\ StartsKept
    BY <1>1, <2>1, <2>5, <2>6, SMTT(30)
       DEF SpanInv, SpanTypeOK, EntriesAreSound, SoundEntry, StartsKept
  <2>10. \A d \in Callers : caller[d].at = "ending" => caller[d].on # i
    BY <2>1, <2>2 DEF SpanInv, DirectIsReserved
  <2>11. DirectIsReserved'
    BY <1>1, <2>1, <2>4, <2>5, <2>6, <2>7, <2>8, <2>10, SMTT(30) DEF SpanInv, DirectIsReserved
  <2>12. QED
    BY <1>6, <2>1, <2>9, <2>11
<1>10. CASE DirectEnds(c)
  <2> DEFINE w == IF e.abort THEN "abort" ELSE "finish"
             f == [e EXCEPT !.ends = 1, !.span = w]
  <2>1. k.at = "ending" /\ caller' = [caller EXCEPT ![c].at = "over"] /\ current' \in {current, 0}
    BY <1>10 DEF DirectEnds, CallEnds, Pop
  <2>2. i \in Entries
    BY <1>1, <2>1
  <2>3. e.direct /\ e.ends = 0 /\ e \in SpanEntry /\ SoundEntry(e)
    BY <1>2, <2>1, <2>2 DEF SpanInv, DirectIsReserved
  <2>4. e.ends + 1 = 1 /\ 1 \in 0..1
    BY <2>3, SMTT(30)
  <2>5. entry' = [entry EXCEPT ![i] = f]
    BY <1>10, <2>4 DEF DirectEnds
  <2>6. w \in Ways /\ (w = "finish" => e.first = "finish")
    BY <2>3 DEF SoundEntry, SpanEntry, Ways
  <2> HIDE DEF w
  <2>7. w \in {"none", "open"} \cup Ways
    BY <2>6
  <2>8. f \in SpanEntry /\ f.direct = e.direct /\ f.start = e.start
    BY <2>3, <2>4, <2>7 DEF SpanEntry
  <2>9. SoundEntry(f)
    BY <2>3, <2>6, SMTT(30) DEF SpanEntry, SoundEntry, Ways
  <2>10. \A d \in Callers : caller'[d].at = "ending" => d # c /\ caller'[d] = caller[d]
    BY <2>1 DEF SpanInv, SpanTypeOK
  <2>11. \A d \in Callers : caller'[d].at = "ending" => caller[d].on # i
    BY <2>1, <2>10, SMTT(30) DEF SpanInv, DirectIsReserved
  <2>12. e.direct => ~ownerLoop
    BY <2>2 DEF SpanInv, DirectIsReserved
  <2> HIDE DEF f
  <2>13. entry' \in [Entries -> SpanEntry] /\ EntriesAreSound' /\ DirectIsReserved' /\ StartsKept
    <3>1. /\ \A d \in Callers : caller'[d].at = "ending" => caller'[d] = caller[d]
          /\ \A d \in Callers : caller'[d].at = "ending" /\ caller[d].on = i =>
                                  f.direct /\ f.ends = 0
      BY <2>10, <2>11
    <3>2. f.direct => ~ownerLoop
      BY <2>8, <2>12
    <3> QED BY <1>1, <2>2, <2>5, <2>8, <2>9, <3>1, <3>2, EntryChanges
  <2>14. QED
    BY <1>6, <2>1, <2>13
<1>11. QED
  BY <1>3, <1>5, <1>7, <1>8, <1>9, <1>10 DEF SpanCall

\* The owner loop is closed: no thread is ending a span yet.
LEMMA CloseOwnerLoopKeepsInv ==
  ASSUME SpanInv, CloseOwnerLoop
  PROVE  SpanInv'
<1>1. /\ ownerLoop /\ ownerLoop' = FALSE /\ UNCHANGED <<tracer, current, run>>
      /\ run.phase \in {"over", "left"}
  BY DEF CloseOwnerLoop, Drained
<1> DEFINE Called == [at : {"idle", "called", "posted", "ending", "over"}, on : 0..2, way : Ways]
<1>2. ASSUME NEW d \in Callers
      PROVE  /\ caller[d].at # "ending" /\ caller'[d].at # "ending"
             /\ caller'[d].on = caller[d].on /\ caller'[d].way = caller[d].way
             /\ caller[d].at = "idle" => caller'[d] = caller[d]
             /\ caller'[d] \in Called
  <2>1. caller[d] \in Called
    BY DEF SpanInv, SpanTypeOK
  <2>2. caller[d].at # "ending"
    BY <1>1, NoDirectEnd
  <2>3. caller'[d] = IF caller[d].at = "posted"
                     THEN [caller[d] EXCEPT !.at = "over"] ELSE caller[d]
    BY DEF CloseOwnerLoop
  <2>4. CASE caller[d].at = "posted"
    BY <2>1, <2>3, <2>4
  <2>5. CASE caller[d].at # "posted"
    BY <2>1, <2>2, <2>3, <2>5
  <2> QED BY <2>2, <2>4, <2>5
<1>3. caller' \in [Callers -> Called]
  <2>1. caller' = [d \in Callers |-> caller'[d]]
    BY DEF CloseOwnerLoop
  <2> QED BY <1>2, <2>1
<1>4. ASSUME NEW i \in Entries
      PROVE  /\ entry'[i] \in SpanEntry /\ SoundEntry(entry'[i]) /\ entry'[i].start = entry[i].start
             /\ ~entry'[i].direct
  <2>1. entry[i] \in SpanEntry /\ SoundEntry(entry[i]) /\ ~entry[i].direct
    BY <1>1 DEF SpanInv, SpanTypeOK, EntriesAreSound, DirectIsReserved
  <2>2. entry'[i] \in {entry[i], [entry[i] EXCEPT !.signal = TRUE, !.abort = TRUE]}
    BY DEF CloseOwnerLoop
  <2>3. QED
    BY <2>1, <2>2 DEF SpanEntry, SoundEntry
<1>5. entry' \in [Entries -> SpanEntry]
  <2>1. entry' = [i \in Entries |-> entry'[i]]
    BY DEF CloseOwnerLoop
  <2>2. QED
    BY <1>4, <2>1
<1>6. SpanTypeOK'
  BY <1>1, <1>2, <1>3, <1>5 DEF SpanInv, SpanTypeOK
<1>7. EntriesAreSound'
  BY <1>1, <1>4 DEF EntriesAreSound, SoundEntry
<1>8. DirectIsReserved'
  BY <1>2, <1>4 DEF DirectIsReserved
<1>9. RunIsOrderly'
  BY <1>1 DEF SpanInv, RunIsOrderly
<1>10. QED
  BY <1>6, <1>7, <1>8, <1>9 DEF SpanInv

\* Initially there is no entry and no call.
LEMMA SpanInitInv == SpanInit => SpanInv
<1> SUFFICES ASSUME SpanInit PROVE SpanInv
  OBVIOUS
<1>1. NoEntry \in SpanEntry /\ SoundEntry(NoEntry) /\ ~NoEntry.direct /\ NoEntry.start = "none"
  BY SMTT(30) DEF NoEntry, SpanEntry, SoundEntry, Ways
<1>2. 0 \in 0..2 /\ 1 \in Entries
  BY SMTT(30) DEF Entries
<1>3. SpanTypeOK
  BY <1>1, <1>2 DEF SpanInit, SpanTypeOK, Ways
<1>4. EntriesAreSound /\ DirectIsReserved
  BY <1>1 DEF SpanInit, EntriesAreSound, DirectIsReserved
<1>5. RunIsOrderly
  BY <1>1, <1>2 DEF SpanInit, RunIsOrderly
<1>6. QED
  BY <1>3, <1>4, <1>5 DEF SpanInv

\* Every step of the middleware, its tasks and its callers keeps the invariant.
THEOREM SpanInvHolds == SpanSpec => []SpanInv
<1>1. SpanInit => SpanInv
  BY SpanInitInv
<1>2. SpanInv /\ [SpanNext]_spanVars => SpanInv'
  <2> SUFFICES ASSUME SpanInv, [SpanNext]_spanVars PROVE SpanInv'
    OBVIOUS
  <2>1. CASE \E i \in Entries : SpanTask(i)
    BY <2>1, SpanTaskKeepsInv
  <2>2. CASE Observation
    BY <2>2, ObservationKeepsInv
  <2>3. CASE \E c \in Callers : SpanCall(c)
    BY <2>3, SpanCallKeepsInv
  <2>4. CASE CloseOwnerLoop
    BY <2>4, CloseOwnerLoopKeepsInv
  <2>5. CASE ShutDispatcher \/ UNCHANGED spanVars
    <3>1. UNCHANGED <<tracer, current, entry, run, caller, ownerLoop>>
      BY <2>5 DEF ShutDispatcher, spanVars
    <3>2. QED
      BY <3>1, SMTT(30)
         DEF SpanInv, SpanTypeOK, EntriesAreSound, SoundEntry, DirectIsReserved, RunIsOrderly
  <2>6. QED
    BY <2>1, <2>2, <2>3, <2>4, <2>5 DEF SpanNext
<1>3. QED
  BY <1>1, <1>2, PTL DEF SpanSpec

\* However many threads call finish and abort, and whenever the owner loop is
\* closed: no span is ended twice, and none that was first asked to abort is
\* exported as finished.
THEOREM SpansEndOnce == SpanSpec => []SpanEndsOnceAsAsked
<1>1. SpanInv => SpanEndsOnceAsAsked
  <2> SUFFICES ASSUME SpanInv, NEW i \in Entries
               PROVE  entry[i].ends <= 1 /\ (entry[i].first = "abort" => entry[i].span # "finish")
    BY DEF SpanEndsOnceAsAsked
  <2>1. entry[i].ends \in 0..1
    BY DEF SpanInv, SpanTypeOK, SpanEntry
  <2>2. entry[i].span = "finish" => entry[i].first = "finish"
    BY DEF SpanInv, EntriesAreSound, SoundEntry
  <2>3. QED
    BY <2>1, <2>2, SMTT(30)
<1>2. QED
  BY <1>1, SpanInvHolds, PTL

-----------------------------------------------------------------------------
(* The laws of finite sets, and the theorems about the bulkhead.           *)

INSTANCE FiniteSetTheorems

\* The library's theorems give the laws the lemmas above assume.
LEMMA FiniteSetsObeyLaws == FiniteSetLaws
<1>1. \A S : IsFiniteSet(S) => Cardinality(S) \in Nat
  BY FS_CardinalityType
<1>2. \A S, x : IsFiniteSet(S) =>
        /\ IsFiniteSet(S \cup {x}) /\ IsFiniteSet(S \ {x})
        /\ Cardinality(S \cup {x}) = IF x \in S THEN Cardinality(S) ELSE Cardinality(S) + 1
        /\ Cardinality(S \ {x}) = IF x \in S THEN Cardinality(S) - 1 ELSE Cardinality(S)
  BY FS_AddElement, FS_RemoveElement
<1>3. \A S, T : IsFiniteSet(S) /\ T \subseteq S =>
        IsFiniteSet(T) /\ Cardinality(T) <= Cardinality(S)
  BY FS_Subset
<1>4. \A S, T : IsFiniteSet(S) /\ IsFiniteSet(T) =>
        /\ IsFiniteSet(S \cup T)
        /\ Cardinality(S \cup T) = Cardinality(S) + Cardinality(T) - Cardinality(S \cap T)
  BY FS_Union
<1> QED BY <1>1, <1>2, <1>3, <1>4, FS_EmptySet DEF FiniteSetLaws

\* The invariant of RuntimeBulkhead holds for any number of callers, loops and
\* permits.
THEOREM BulkheadInvHolds == Spec => []BulkheadInv
<1>1. BulkheadInv /\ [Next]_vars => BulkheadInv'
  BY StepKeepsBulkheadInv, FiniteSetsObeyLaws
<1>2. Init => BulkheadInv
  BY InitEstablishesBulkheadInv, FiniteSetsObeyLaws
<1>3. QED
  BY <1>1, <1>2, PTL DEF Spec

\* Permits, queue, futures and callers keep their types: the count of permits
\* never goes below zero.
THEOREM BulkheadTypeCorrect == Spec => []TypeOK
<1>1. BulkheadInv => TypeOK
  BY DEF BulkheadInv
<1>2. QED
  BY <1>1, BulkheadInvHolds, PTL

\* Permits are neither lost nor made by acquire, _withdraw, _deliver, _release
\* and _grant_next_locked, whatever the order in which loops run them.
THEOREM BulkheadConservesPermits == Spec => []PermitsConserved
<1>1. BulkheadInv => PermitsConserved
  BY DEF BulkheadInv
<1>2. QED
  BY <1>1, BulkheadInvHolds, PTL

\* No permit is free while somebody queues: no path of resilience.py that frees
\* a permit forgets to grant it.
THEOREM BulkheadLosesNoWakeup == Spec => []WaitersMeanFull
<1>1. BulkheadInv => WaitersMeanFull
  BY DEF BulkheadInv
<1>2. QED
  BY <1>1, BulkheadInvHolds, PTL

\* The callers between acquire and release are never more than the capacity.
THEOREM BulkheadLimitHolds == Spec => []LimitHolds
<1>1. BulkheadInv => LimitHolds
  BY InvLimits, FiniteSetsObeyLaws
<1>2. QED
  BY <1>1, BulkheadInvHolds, PTL

\* A granted waiter leaves nobody behind that arrived before it: acquire gives
\* no permit away while somebody queues, and _release and _withdraw grant in
\* the order of the queue, also when it has just lost a waiter.
THEOREM BulkheadServesInOrder == Spec => FirstComeFirstServed
<1>1. BulkheadInv /\ [Next]_vars => [ServesInOrder]_vars
  BY StepServesInOrder, FiniteSetsObeyLaws
<1>2. QED
  BY <1>1, BulkheadInvHolds, PTL DEF Spec, FirstComeFirstServed, ServesInOrder

-----------------------------------------------------------------------------
(* The circuit breaker.                                                    *)

CircuitTypeOK ==
    /\ failures \in Nat
    /\ opened \in {"never", "fresh", "ripe"}
    /\ probe \in BOOLEAN
    /\ call \in [Calls -> {"new", "running", "probing", "refused", "ended"}]
    /\ late \subseteq Calls

\* A call that reported late is over, so no report counts twice.
LateIsOver == \A c \in late : call[c] = "ended"

\* A probe whose flag is still set is not yet paid for by a late report: the
\* strengthening of ProbeOverlapBounded that a step keeps.
ProbesAreAccounted ==
    Cardinality(Probing) <= Cardinality(late) + (IF probe THEN 1 ELSE 0)

CircuitInv ==
    /\ CircuitTypeOK
    /\ LateIsOver
    /\ CircuitFollowsReports
    /\ ProbesAreAccounted

\* Probes and late reports can be counted.
LEMMA CircuitCounts ==
  ASSUME CircuitTypeOK
  PROVE  /\ IsFiniteSet(Probing) /\ Cardinality(Probing) \in Nat
         /\ IsFiniteSet(late) /\ Cardinality(late) \in Nat
<1>1. Probing \in SUBSET Calls /\ late \in SUBSET Calls
  BY DEF Probing, CircuitTypeOK
<1>2. IsFiniteSet(Probing) /\ IsFiniteSet(late)
  BY <1>1, CircuitConstants, FS_Subset
<1>3. QED
  BY <1>2, FS_CardinalityType

\* A circuit starts closed, with no call accounted for.
LEMMA CircuitInitInv == CircuitInit => CircuitInv
<1> SUFFICES ASSUME CircuitInit PROVE CircuitInv
  OBVIOUS
<1>1. CircuitTypeOK /\ LateIsOver
  BY DEF CircuitInit, CircuitTypeOK, LateIsOver
<1>2. Probing = {} /\ late = {} /\ ~probe
  BY DEF CircuitInit, Probing
<1>3. ProbesAreAccounted
  BY <1>2, FS_EmptySet, SMTT(30) DEF ProbesAreAccounted
<1>4. ~(failures >= FailureThreshold) /\ opened = "never"
  BY CircuitConstants, SMTT(30) DEF CircuitInit
<1>5. CircuitFollowsReports
  BY <1>2, <1>4, SMTT(30) DEF CircuitFollowsReports
<1>6. QED
  BY <1>1, <1>3, <1>5 DEF CircuitInv

\* _before_call() admits a probe only without a flag, and then sets it.
LEMMA BeforeCallKeepsInv ==
  ASSUME CircuitInv, NEW c \in Calls, BeforeCall(c)
  PROVE  CircuitInv'
<1> DEFINE to == call'[c]
<1>1. /\ call[c] = "new" /\ to \in {"running", "probing", "refused"}
      /\ to = "probing" => opened = "ripe" /\ ~probe
      /\ call' = [call EXCEPT ![c] = to]
      /\ probe' = (probe \/ to = "probing")
      /\ UNCHANGED <<failures, opened, late>>
  <2>1. call' = [call EXCEPT ![c] = to] /\ call[c] = "new"
    BY DEF BeforeCall, CircuitInv, CircuitTypeOK
  <2>2. CASE opened = "never"
    BY <2>1, <2>2 DEF BeforeCall, CircuitInv, CircuitTypeOK
  <2>3. CASE opened = "ripe" /\ ~probe
    BY <2>1, <2>3 DEF BeforeCall, CircuitInv, CircuitTypeOK
  <2>4. CASE opened # "never" /\ ~(opened = "ripe" /\ ~probe)
    BY <2>1, <2>4 DEF BeforeCall, CircuitInv, CircuitTypeOK
  <2>5. QED
    BY <2>2, <2>3, <2>4
<1> HIDE DEF to
<1>2. CircuitTypeOK' /\ LateIsOver'
  BY <1>1 DEF CircuitInv, CircuitTypeOK, LateIsOver
<1>3. Probing' = IF to = "probing" THEN Probing \cup {c} ELSE Probing
  BY <1>1 DEF Probing, CircuitInv, CircuitTypeOK
<1>4. CircuitFollowsReports'
  BY <1>1, <1>3 DEF CircuitInv, CircuitFollowsReports
<1>5. ProbesAreAccounted'
  <2>1. CASE to = "probing"
    <3>1. c \notin Probing
      BY <1>1 DEF Probing
    <3>2. Cardinality(Probing \cup {c}) = Cardinality(Probing) + 1
      BY <3>1, CircuitCounts, FS_AddElement DEF CircuitInv
    <3>3. ~probe /\ probe' /\ late' = late /\ Probing' = Probing \cup {c}
      BY <1>1, <1>3, <2>1
    <3>4. Cardinality(Probing) <= Cardinality(late)
      BY <3>3, CircuitCounts, SMTT(30) DEF CircuitInv, ProbesAreAccounted
    <3>5. QED
      BY <3>2, <3>3, <3>4, CircuitCounts, SMTT(30) DEF CircuitInv, ProbesAreAccounted
  <2>2. CASE to # "probing"
    <3>1. (probe' <=> probe) /\ Probing' = Probing /\ late' = late
      BY <1>1, <1>3, <2>2
    <3>2. QED
      BY <3>1 DEF CircuitInv, ProbesAreAccounted
  <2>3. QED
    BY <2>1, <2>2
<1>6. QED
  BY <1>2, <1>4, <1>5 DEF CircuitInv

\* A report of any kind takes the flag: either its call was a probe, or it was
\* admitted before the circuit opened and counts as late from now on, or the
\* circuit was closed and there was no flag.
LEMMA ReportKeepsCount ==
  ASSUME CircuitInv, NEW c \in Calls, End(c), probe' = FALSE
  PROVE  LateIsOver' /\ ProbesAreAccounted' /\ late' \subseteq Calls
         /\ call' \in [Calls -> {"new", "running", "probing", "refused", "ended"}]
<1>1. LateIsOver' /\ late' \subseteq Calls
      /\ call' \in [Calls -> {"new", "running", "probing", "refused", "ended"}]
  BY DEF End, LateIsOver, CircuitInv, CircuitTypeOK
<1>2. Probing' = Probing \ {c}
  BY DEF End, Probing, CircuitInv, CircuitTypeOK
<1>3. CASE call[c] = "probing"
  <2>1. Cardinality(Probing \ {c}) = Cardinality(Probing) - 1
    BY <1>3, CircuitCounts, FS_RemoveElement DEF Probing, CircuitInv
  <2>2. late' = late
    BY <1>3 DEF End
  <2>3. QED
    BY <1>1, <1>2, <2>1, <2>2, CircuitCounts, SMTT(30) DEF CircuitInv, ProbesAreAccounted
<1>4. CASE call[c] = "running" /\ opened # "never"
  <2>1. late' = late \cup {c} /\ c \notin late
    BY <1>4 DEF End, CircuitInv, LateIsOver
  <2>2. Cardinality(late') = Cardinality(late) + 1
    BY <2>1, CircuitCounts, FS_AddElement DEF CircuitInv
  <2>3. Probing' = Probing
    BY <1>2, <1>4 DEF Probing
  <2>4. QED
    BY <1>1, <2>2, <2>3, CircuitCounts, SMTT(30) DEF CircuitInv, ProbesAreAccounted
<1>5. CASE call[c] = "running" /\ opened = "never"
  <2>1. late' = late /\ Probing' = Probing /\ ~probe
    BY <1>2, <1>5 DEF End, Probing, CircuitInv, CircuitFollowsReports
  <2>2. QED
    BY <1>1, <2>1 DEF CircuitInv, ProbesAreAccounted
<1>6. QED
  BY <1>3, <1>4, <1>5 DEF End

\* _record_success(), _record_failure() and _record_cancelled().
LEMMA ReportKeepsInv ==
  ASSUME CircuitInv, NEW c \in Calls, Report(c)
  PROVE  CircuitInv'
<1>1. End(c) /\ probe' = FALSE
  BY DEF Report, RecordSuccess, RecordFailure, RecordCancelled
<1>2. CircuitTypeOK' /\ LateIsOver' /\ ProbesAreAccounted'
  <2>1. failures' \in Nat /\ opened' \in {"never", "fresh", "ripe"}
    BY SMTT(30) DEF Report, RecordSuccess, RecordFailure, RecordCancelled, CircuitInv, CircuitTypeOK
  <2>2. QED
    BY <1>1, <2>1, ReportKeepsCount DEF CircuitTypeOK
<1>3. CircuitFollowsReports'
  <2>1. (opened' # "never") <=> (failures' >= FailureThreshold)
    <3>1. CASE RecordSuccess(c)
      BY <3>1, CircuitConstants, SMTT(30) DEF RecordSuccess
    <3>2. CASE RecordFailure(c)
      BY <3>2, CircuitConstants, SMTT(30)
      DEF RecordFailure, CircuitInv, CircuitFollowsReports, CircuitTypeOK
    <3>3. CASE RecordCancelled(c)
      BY <3>3 DEF RecordCancelled, CircuitInv, CircuitFollowsReports
    <3>4. QED
      BY <3>1, <3>2, <3>3 DEF Report
  <2>2. QED
    BY <1>1, <2>1, SMTT(30) DEF CircuitFollowsReports
<1>4. QED
  BY <1>2, <1>3 DEF CircuitInv

\* The invariant of CircuitBreaker holds for any number of calls and any
\* threshold.
THEOREM CircuitInvHolds == CircuitSpec => []CircuitInv
<1>1. CircuitInv /\ [CircuitNext]_circuitVars => CircuitInv'
  <2> SUFFICES ASSUME CircuitInv, [CircuitNext]_circuitVars PROVE CircuitInv'
    OBVIOUS
  <2>1. CASE UNCHANGED circuitVars
    BY <2>1 DEF circuitVars, CircuitInv, CircuitTypeOK, LateIsOver, CircuitFollowsReports,
                ProbesAreAccounted, Probing
  <2>2. CASE Recover
    BY <2>2 DEF Recover, CircuitInv, CircuitTypeOK, LateIsOver, CircuitFollowsReports,
                ProbesAreAccounted, Probing
  <2>3. ASSUME NEW c \in Calls, BeforeCall(c) PROVE CircuitInv'
    BY <2>3, BeforeCallKeepsInv
  <2>4. ASSUME NEW c \in Calls, Report(c) PROVE CircuitInv'
    BY <2>4, ReportKeepsInv
  <2>5. QED
    BY <2>1, <2>2, <2>3, <2>4 DEF CircuitNext
<1>2. QED
  BY <1>1, CircuitInitInv, PTL DEF CircuitSpec

\* In whatever order calls are admitted and report, the circuit is open exactly
\* while the threshold is reached, and its probe flag belongs to a call that
\* will still report.
THEOREM CircuitIsNeverWedged == CircuitSpec => []CircuitFollowsReports
<1>1. CircuitInv => CircuitFollowsReports
  BY DEF CircuitInv
<1>2. QED
  BY <1>1, CircuitInvHolds, PTL

\* There is one probe, and at most one more for each call that was admitted
\* before the circuit opened and reported after it: the breaker does not tell
\* such a report from the probe's.
THEOREM ProbesAreBounded == CircuitSpec => []ProbeOverlapBounded
<1>1. ASSUME CircuitInv
      PROVE  ProbeOverlapBounded
  BY <1>1, CircuitCounts, SMTT(30) DEF CircuitInv, ProbesAreAccounted, ProbeOverlapBounded
<1>2. QED
  BY <1>1, CircuitInvHolds, PTL

-----------------------------------------------------------------------------
(* Runtime events.                                                         *)

EventTypeOK ==
    /\ subscribed \subseteq Nat /\ nextId \in Nat
    /\ delivery \in [Events -> [at : {"unscheduled", "next", "awaiting", "over"},
                                rest : SUBSET Nat]]
    /\ captured \in [Events -> SUBSET Nat]
    /\ offered \in [Events -> [called : SUBSET Nat, dropped : SUBSET Nat]]

\* The subscribers an event was scheduled for are those it was offered to and
\* those to come; only the one that is awaited is both.
DeliveryIsSound(e) ==
    /\ offered[e].called \cap offered[e].dropped = {}
    /\ delivery[e].at = "unscheduled" =>
        delivery[e].rest = {} /\ offered[e].called = {} /\ offered[e].dropped = {}
    /\ delivery[e].at # "unscheduled" =>
        offered[e].called \cup offered[e].dropped \cup delivery[e].rest = captured[e]
    /\ delivery[e].at = "next" =>
        delivery[e].rest \cap (offered[e].called \cup offered[e].dropped) = {}
    /\ delivery[e].at = "awaiting" =>
        /\ delivery[e].rest # {}
        /\ delivery[e].rest \cap (offered[e].called \cup offered[e].dropped) = {Recipient(e)}
        /\ Recipient(e) \in offered[e].called
    /\ delivery[e].at = "over" => delivery[e].rest = {}

EventInv == EventTypeOK /\ \A e \in Events : DeliveryIsSound(e)

\* The recipient is one of those that are left.
LEMMA SmallestIsMember ==
  ASSUME NEW S \in SUBSET Nat, S # {}
  PROVE  Min(S) \in S
<1> DEFINE less == {ss \in Nat \X Nat : ss[1] < ss[2]}
<1>1. IsWellFoundedOn(less, Nat)
  BY NatLessThanWellFounded DEF OpToRel
<1> HIDE DEF less
<1>2. PICK i \in S : \A j \in S : ~(<<j, i>> \in less)
  BY <1>1, WFMin
<1>3. \A j \in S : i <= j
  <2> SUFFICES ASSUME NEW j \in S PROVE i <= j
    OBVIOUS
  <2>1. i \in Nat /\ j \in Nat /\ ~(j < i)
    BY <1>2 DEF less
  <2>2. QED
    BY <2>1, SMTT(30)
<1>4. QED
  BY <1>3 DEF Min

\* Between two recipients the event is offered to none of those that are left.
LEMMA DeliveryMovesOn ==
  ASSUME NEW e \in Events, EventInv, MoveOn(e), captured' = captured,
         offered' \in [Events -> [called : SUBSET Nat, dropped : SUBSET Nat]],
         \A f \in Events \ {e} : offered'[f] = offered[f],
         delivery[e].at # "unscheduled", delivery[e].rest # {},
         offered'[e].called \cap offered'[e].dropped = {},
         offered'[e].called \cup offered'[e].dropped
            = offered[e].called \cup offered[e].dropped \cup {Recipient(e)},
         delivery[e].rest \cap (offered'[e].called \cup offered'[e].dropped) = {Recipient(e)},
         UNCHANGED <<subscribed, nextId>>
  PROVE  EventInv'
<1>1. Recipient(e) \in delivery[e].rest
  BY SmallestIsMember DEF Recipient, EventInv, EventTypeOK
<1>2. /\ delivery' = [delivery EXCEPT ![e] = [at |-> "next", rest |-> @.rest \ {Recipient(e)}]]
      /\ delivery \in [Events -> [at : {"unscheduled", "next", "awaiting", "over"},
                                  rest : SUBSET Nat]]
  BY DEF MoveOn, EventInv, EventTypeOK
<1>3. EventTypeOK'
  BY <1>2 DEF EventInv, EventTypeOK
<1>4. ASSUME NEW f \in Events, f # e PROVE DeliveryIsSound(f)'
  BY <1>2, <1>4 DEF EventInv, DeliveryIsSound, Recipient
<1>5. DeliveryIsSound(e)'
  <2>1. delivery'[e] = [at |-> "next", rest |-> delivery[e].rest \ {Recipient(e)}]
    BY <1>2
  <2>2. offered[e].called \cup offered[e].dropped \cup delivery[e].rest = captured[e]
    BY DEF EventInv, DeliveryIsSound
  <2>3. QED
    BY <1>1, <2>1, <2>2, SMTT(30) DEF DeliveryIsSound
<1>6. QED
  BY <1>3, <1>4, <1>5 DEF EventInv

\* Every step keeps the account of each event.
THEOREM EventInvHolds == EventSpec => []EventInv
<1>1. EventInit => EventInv
  BY SMTT(30) DEF EventInit, EventInv, EventTypeOK, DeliveryIsSound
<1>2. EventInv /\ [EventNext]_eventVars => EventInv'
  <2> SUFFICES ASSUME EventInv, [EventNext]_eventVars PROVE EventInv'
    OBVIOUS
  <2>1. CASE Subscribe \/ (\E s \in subscribed : Unsubscribe(s)) \/ UNCHANGED eventVars
    <3>1. subscribed' \subseteq Nat /\ nextId' \in Nat /\ UNCHANGED <<delivery, captured, offered>>
      <4>1. subscribed \subseteq Nat /\ nextId \in Nat
        BY DEF EventInv, EventTypeOK
      <4>2. CASE Subscribe
        BY <4>1, <4>2, SMTT(30) DEF Subscribe
      <4>3. CASE \E s \in subscribed : Unsubscribe(s)
        BY <4>1, <4>3 DEF Unsubscribe
      <4>4. CASE UNCHANGED eventVars
        BY <4>1, <4>4 DEF eventVars
      <4>5. QED
        BY <2>1, <4>2, <4>3, <4>4
    <3>2. QED
      BY <3>1 DEF EventInv, EventTypeOK, DeliveryIsSound, Recipient
  <2>2. ASSUME NEW e \in Events, ScheduleRuntimeEvent(e) PROVE EventInv'
    <3>1. EventTypeOK'
      BY <2>2 DEF ScheduleRuntimeEvent, EventInv, EventTypeOK
    <3>2. \A f \in Events : DeliveryIsSound(f)'
      BY <2>2 DEF ScheduleRuntimeEvent, EventInv, EventTypeOK, DeliveryIsSound, Recipient
    <3>3. QED
      BY <3>1, <3>2 DEF EventInv
  <2>3. ASSUME NEW e \in Events, DispatchRuntimeEvent(e) PROVE EventInv'
    <3>1. Recipient(e) \in delivery[e].rest
      BY <2>3, SmallestIsMember DEF DispatchRuntimeEvent, Recipient, EventInv, EventTypeOK
    <3>2. Recipient(e) \in Nat
      BY <3>1 DEF EventInv, EventTypeOK
    <3> DEFINE called == offered' = [offered EXCEPT ![e].called = @ \cup {Recipient(e)}]
               dropped == offered' = [offered EXCEPT ![e].dropped = @ \cup {Recipient(e)}]
    <3>3. CASE called /\ Await(e)
      <4>1. /\ offered' = [offered EXCEPT ![e].called = @ \cup {Recipient(e)}]
            /\ delivery' = [delivery EXCEPT ![e].at = "awaiting"]
            /\ delivery[e].at = "next" /\ delivery[e].rest # {}
            /\ UNCHANGED <<subscribed, nextId, captured>>
        BY <2>3, <3>3 DEF DispatchRuntimeEvent, Await
      <4>2. EventTypeOK'
        BY <3>2, <4>1 DEF EventInv, EventTypeOK
      <4>3. ASSUME NEW f \in Events, f # e PROVE DeliveryIsSound(f)'
        BY <4>1, <4>3 DEF EventInv, EventTypeOK, DeliveryIsSound, Recipient
      <4>4. DeliveryIsSound(e)'
        <5>1. /\ delivery'[e].at = "awaiting" /\ delivery'[e].rest = delivery[e].rest
              /\ offered'[e].called = offered[e].called \cup {Recipient(e)}
              /\ offered'[e].dropped = offered[e].dropped
          BY <4>1 DEF EventInv, EventTypeOK
        <5>2. Recipient(e)' = Recipient(e)
          BY <5>1 DEF Recipient
        <5>3. DeliveryIsSound(e)
          BY DEF EventInv
        <5>4. QED
          BY <3>1, <4>1, <5>1, <5>2, <5>3 DEF DeliveryIsSound
      <4>5. QED
        BY <4>2, <4>3, <4>4 DEF EventInv
    <3>4. CASE (called \/ dropped) /\ MoveOn(e)
      <4>1. /\ (called \/ dropped) /\ MoveOn(e)
            /\ delivery[e].at = "next" /\ delivery[e].rest # {}
            /\ UNCHANGED <<subscribed, nextId, captured>>
        BY <2>3, <3>4 DEF DispatchRuntimeEvent
      <4>2. /\ offered' \in [Events -> [called : SUBSET Nat, dropped : SUBSET Nat]]
            /\ \A f \in Events \ {e} : offered'[f] = offered[f]
            /\ \/ /\ offered'[e].called = offered[e].called \cup {Recipient(e)}
                  /\ offered'[e].dropped = offered[e].dropped
               \/ /\ offered'[e].called = offered[e].called
                  /\ offered'[e].dropped = offered[e].dropped \cup {Recipient(e)}
        <5>1. CASE called
          BY <3>2, <5>1 DEF EventInv, EventTypeOK
        <5>2. CASE dropped
          BY <3>2, <5>2 DEF EventInv, EventTypeOK
        <5>3. QED
          BY <4>1, <5>1, <5>2
      <4>3. DeliveryIsSound(e)
        BY DEF EventInv
      <4>4. /\ offered'[e].called \cap offered'[e].dropped = {}
            /\ delivery[e].rest \cap (offered'[e].called \cup offered'[e].dropped) = {Recipient(e)}
        BY <3>1, <4>1, <4>2, <4>3 DEF DeliveryIsSound
      <4>5. QED
        BY <4>1, <4>2, <4>4, DeliveryMovesOn
    <3>5. QED
      BY <2>3, <3>3, <3>4 DEF DispatchRuntimeEvent
  <2>4. ASSUME NEW e \in Events, SubscriberReturns(e) \/ SubscriberTimesOut(e) PROVE EventInv'
    <3>1. /\ delivery[e].at = "awaiting" /\ MoveOn(e)
          /\ UNCHANGED <<subscribed, nextId, captured, offered>>
      BY <2>4 DEF SubscriberReturns, SubscriberTimesOut
    <3>2. DeliveryIsSound(e) /\ offered \in [Events -> [called : SUBSET Nat, dropped : SUBSET Nat]]
      BY DEF EventInv, EventTypeOK
    <3>3. QED
      BY <3>1, <3>2, DeliveryMovesOn DEF DeliveryIsSound
  <2>5. ASSUME NEW c \in working, CallbackEnds(c) PROVE EventInv'
    BY <2>5 DEF CallbackEnds, EventInv, EventTypeOK, DeliveryIsSound, Recipient
  <2>6. ASSUME NEW e \in Events, EndDelivery(e) PROVE EventInv'
    BY <2>6, SMTT(30) DEF EndDelivery, EventInv, EventTypeOK, DeliveryIsSound, Recipient
  <2>7. QED
    BY <2>1, <2>2, <2>3, <2>4, <2>5, <2>6 DEF EventNext
<1>3. QED
  BY <1>1, <1>2, PTL DEF EventSpec

\* The slot is taken as long as the one callback it is taken for is at work.
SlotIsSound ==
    /\ slot \in BOOLEAN
    /\ slot <=> working # {}
    /\ \A c, d \in working : c = d

\* Whoever ends a callback, or gives up on it, leaves slot and callback in step.
THEOREM SlotFollowsCallback == EventSpec => []SlotIsSound
<1>1. EventInit => SlotIsSound
  BY DEF EventInit, SlotIsSound
<1>2. SlotIsSound /\ [EventNext]_eventVars => SlotIsSound'
  <2> SUFFICES ASSUME SlotIsSound, [EventNext]_eventVars PROVE SlotIsSound'
    OBVIOUS
  <2>1. CASE UNCHANGED <<slot, working>>
    BY <2>1 DEF SlotIsSound
  <2>2. ASSUME NEW c \in working, slot' = FALSE, working' = working \ {c} PROVE SlotIsSound'
    BY <2>2 DEF SlotIsSound
  <2>3. ASSUME NEW e \in Events, DispatchRuntimeEvent(e), ~UNCHANGED <<slot, working>>
        PROVE  SlotIsSound'
    <3>1. ~slot /\ slot' = TRUE /\ working' = working \cup {<<e, Recipient(e)>>}
      BY <2>3 DEF DispatchRuntimeEvent
    <3>2. QED
      BY <3>1 DEF SlotIsSound
  <2>4. ASSUME NEW e \in Events, SubscriberTimesOut(e) PROVE SlotIsSound'
    BY <2>1, <2>2, <2>4 DEF SubscriberTimesOut
  <2>5. ASSUME NEW c \in working, CallbackEnds(c) PROVE SlotIsSound'
    BY <2>2, <2>5 DEF CallbackEnds
  <2>6. QED
    BY <2>1, <2>3, <2>4, <2>5
       DEF EventNext, Subscribe, Unsubscribe, ScheduleRuntimeEvent, SubscriberReturns,
           EndDelivery, eventVars
<1>3. QED
  BY <1>1, <1>2, PTL DEF EventSpec

\* A finished delivery has offered its event to exactly those it was scheduled
\* for, whatever the subscribers do and whoever comes or goes meanwhile, and
\* the slot that decides who is dropped is taken only by the callback at work.
THEOREM EventsAreOfferedToAll == EventSpec => []OfferedToAll
<1>1. EventInv /\ SlotIsSound => OfferedToAll
  BY DEF EventInv, DeliveryIsSound, SlotIsSound, OfferedToAll
<1>2. QED
  BY <1>1, EventInvHolds, SlotFollowsCallback, PTL

=============================================================================
