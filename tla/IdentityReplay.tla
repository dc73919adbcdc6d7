---------------------------- MODULE IdentityReplay ----------------------------
(***************************************************************************)
(* HMACClaimsIdentityProvider.verify and its replay store.  An envelope      *)
(* whose signature, issuer, audience and fields are right is known by its    *)
(* jti and its times; any other is refused without touching the store.       *)
(* Several verifications run at once, in processes that share a SQLite       *)
(* replay store or have one in memory each.                                  *)
(***************************************************************************)
EXTENDS Integers, FiniteSets

CONSTANTS
    Envelopes,      \* signed envelopes, each with a jti of its own
    IssuedAt, NotBefore, ExpiresAt,
    Hosts,          \* processes
    Verifiers,      \* threads that verify
    HostOf,
    Skew, MaxLifetime,
    MaxClock        \* bound: the last instant

ASSUME IdentityConstants ==
    /\ IssuedAt \in [Envelopes -> Nat] /\ NotBefore \in [Envelopes -> Nat]
    /\ ExpiresAt \in [Envelopes -> Nat]
    /\ HostOf \in [Verifiers -> Hosts]
    /\ Skew \in Nat /\ MaxLifetime \in Nat /\ MaxClock \in Nat
    /\ "database" \notin Hosts

VARIABLES
    clock,
    durable,    \* the processes share a SQLite replay store
    claims,     \* identity_replay_claims or _claims: envelopes with their expiry
    verifying,  \* what each verifier works on, and the time claim() has read
    spent       \* acceptances by a store while the envelope was acceptable

identityVars == <<clock, durable, claims, verifying, spent>>

ReplayStores == Hosts \union {"database"}
ReplayStoreOf(v) == IF durable THEN "database" ELSE HostOf[v]
NoVerification == <<>>

IdentityInit ==
    /\ clock = 0
    /\ durable \in BOOLEAN
    /\ claims = [s \in ReplayStores |-> {}]
    /\ verifying = [v \in Verifiers |-> NoVerification]
    /\ spent = [s \in ReplayStores |-> [e \in Envelopes |-> 0]]

Acceptable(e, now) ==
    /\ IssuedAt[e] <= now + Skew
    /\ NotBefore[e] <= now + Skew
    /\ ExpiresAt[e] > now - Skew
    /\ ExpiresAt[e] > IssuedAt[e]
    /\ NotBefore[e] < ExpiresAt[e]
    /\ ExpiresAt[e] - IssuedAt[e] <= MaxLifetime

\* Mutant: the record lives as long as the envelope, without the skew.
ReplayExpiryUnskewed(e) == ExpiresAt[e]

ReplayExpiry(e) == ExpiresAt[e] + Skew

\* verify up to its call of the store.
Verify(v) ==
    /\ verifying[v] = NoVerification
    /\ \E e \in Envelopes :
        /\ Acceptable(e, clock)
        /\ verifying' = [verifying EXCEPT ![v] = <<e, -1>>]
    /\ UNCHANGED <<clock, durable, claims, spent>>

\* claim reads the clock before it has the lock of the store.
ReadClaimTime(v) ==
    /\ verifying[v] # NoVerification
    /\ verifying[v][2] = -1
    /\ verifying' = [verifying EXCEPT ![v][2] = clock]
    /\ UNCHANGED <<clock, durable, claims, spent>>

\* Under the lock: expired records go, then the envelope is recorded unless it
\* already is.
Purged(s, now) == {c \in claims[s] : c[2] > now}

Claim(v) ==
    /\ verifying[v] # NoVerification
    /\ verifying[v][2] # -1
    /\ LET e == verifying[v][1]
           s == ReplayStoreOf(v)
           left == Purged(s, verifying[v][2])
       IN IF e \in {c[1] : c \in left}
          THEN \* SQLite rolls the purge back with the refused insert.
               /\ claims' = IF durable THEN claims ELSE [claims EXCEPT ![s] = left]
               /\ UNCHANGED spent
          ELSE /\ claims' = [claims EXCEPT ![s] = left \union {<<e, ReplayExpiry(e)>>}]
               /\ spent' = IF clock < ExpiresAt[e] + Skew
                           THEN [spent EXCEPT ![s][e] = @ + 1] ELSE spent
    /\ verifying' = [verifying EXCEPT ![v] = NoVerification]
    /\ UNCHANGED <<clock, durable>>

Tick ==
    /\ clock < MaxClock
    /\ clock' = clock + 1
    /\ UNCHANGED <<durable, claims, verifying, spent>>

\* A process dies; a store in memory goes with it.
HostRestarts(h) ==
    /\ verifying' = [v \in Verifiers |-> IF HostOf[v] = h THEN NoVerification ELSE verifying[v]]
    /\ claims' = [claims EXCEPT ![h] = {}]
    /\ spent' = [spent EXCEPT ![h] = [e \in Envelopes |-> 0]]
    /\ UNCHANGED <<clock, durable>>

IdentityNext ==
    \/ \E v \in Verifiers : Verify(v) \/ ReadClaimTime(v) \/ Claim(v)
    \/ \E h \in Hosts : HostRestarts(h)
    \/ Tick

IdentitySpec == IdentityInit /\ [][IdentityNext]_identityVars

-----------------------------------------------------------------------------

\* As long as an envelope is acceptable, a replay store lets it pass once:
\* for all processes that share a database, restarts included, and for the
\* life of a process that keeps its records in memory.  A claim that is made
\* in time but recorded after the envelope and its skew have run out is not
\* counted (identity.py:94, 130, 263).
OncePerEnvelope ==
    \A s \in ReplayStores, e \in Envelopes : spent[s][e] <= 1
===============================================================================
