---------------------------- MODULE RuntimeEvents ----------------------------
(* Delivery of terminal runtime events: each event is a detached cleanup task  *)
(* that offers it to the subscribers of that moment, one after the other.      *)
(* Synchronous subscribers share one slot and one worker; a callback that      *)
(* outlives its timeout keeps both.                                            *)
EXTENDS Naturals, FiniteSets, FiniteSetsExt

CONSTANTS
    Events,
    MaxSubscribers,     \* bound on the subscriber ids handed out
    AsyncSubscribers    \* ids of the subscribers that are coroutine functions

ASSUME SubscriberConstants ==
    MaxSubscribers \in Nat /\ AsyncSubscribers \subseteq 0..(MaxSubscribers - 1)

VARIABLES
    subscribed,     \* ids in _RuntimeEventHub._subscribers, delivered in order
    nextId,         \* _next_subscriber_id
    delivery,       \* what each delivery task has still to offer
    captured,       \* whom it was scheduled for
    offered,        \* by event: the subscribers called or tried, and those dropped
    slot,           \* _runtime_event_sync_slot is taken
    working         \* the synchronous callbacks submitted to the executor and not done

eventVars == <<subscribed, nextId, delivery, captured, offered, slot, working>>

EventInit ==
    /\ subscribed = {}
    /\ nextId = 0
    /\ delivery = [e \in Events |-> [at |-> "unscheduled", rest |-> {}]]
    /\ captured = [e \in Events |-> {}]
    /\ offered = [e \in Events |-> [called |-> {}, dropped |-> {}]]
    /\ slot = FALSE
    /\ working = {}

Subscribe ==
    /\ nextId < MaxSubscribers
    /\ subscribed' = subscribed \cup {nextId}
    /\ nextId' = nextId + 1
    /\ UNCHANGED <<delivery, captured, offered, slot, working>>

Unsubscribe(s) ==
    /\ subscribed' = subscribed \ {s}
    /\ UNCHANGED <<nextId, delivery, captured, offered, slot, working>>

\* An execution ends: its event is scheduled for whoever is subscribed now.
ScheduleRuntimeEvent(e) ==
    /\ delivery[e].at = "unscheduled"
    /\ delivery' = [delivery EXCEPT ![e] = [at |-> "next", rest |-> subscribed]]
    /\ captured' = [captured EXCEPT ![e] = subscribed]
    /\ UNCHANGED <<subscribed, nextId, offered, slot, working>>

Recipient(e) == Min(delivery[e].rest)

MoveOn(e) == delivery' = [delivery EXCEPT ![e] = [at |-> "next", rest |-> @.rest \ {Recipient(e)}]]

Await(e) == delivery' = [delivery EXCEPT ![e].at = "awaiting"]

\* A synchronous subscriber is called if the slot is free and dropped if not;
\* a submission that fails gives the slot back.
DispatchRuntimeEvent(e) ==
    /\ delivery[e].at = "next" /\ delivery[e].rest # {}
    /\ LET s == Recipient(e)
       IN  IF s \in AsyncSubscribers \/ ~slot
           THEN /\ offered' = [offered EXCEPT ![e].called = @ \cup {s}]
                /\ \/ s \in AsyncSubscribers /\ Await(e) /\ UNCHANGED <<slot, working>>
                   \/ /\ s \notin AsyncSubscribers /\ Await(e)
                      /\ slot' = TRUE
                      /\ working' = working \cup {<<e, s>>}
                   \/ s \notin AsyncSubscribers /\ MoveOn(e) /\ UNCHANGED <<slot, working>>
           ELSE /\ offered' = [offered EXCEPT ![e].dropped = @ \cup {s}]
                /\ MoveOn(e)
                /\ UNCHANGED <<slot, working>>
    /\ UNCHANGED <<subscribed, nextId, captured>>

\* Mutant: only the wait for the callback would give the slot back.
CallbackKeepsSlot(c) ==
    /\ c \in working
    /\ working' = working \ {c}
    /\ UNCHANGED <<subscribed, nextId, delivery, captured, offered, slot>>

\* The future is done, awaited or not: its done callback releases the slot.
CallbackEnds(c) ==
    /\ c \in working
    /\ working' = working \ {c}
    /\ slot' = FALSE
    /\ UNCHANGED <<subscribed, nextId, delivery, captured, offered>>

\* The subscriber returns or raises, and the next one is served.
SubscriberReturns(e) ==
    /\ delivery[e].at = "awaiting"
    /\ <<e, Recipient(e)>> \notin working
    /\ MoveOn(e)
    /\ UNCHANGED <<subscribed, nextId, captured, offered, slot, working>>

\* The stage of the subscriber times out: a synchronous callback that runs goes
\* on, one that no worker has taken yet is cancelled.
SubscriberTimesOut(e) ==
    /\ delivery[e].at = "awaiting"
    /\ MoveOn(e)
    /\ \/ UNCHANGED <<slot, working>>
       \/ /\ <<e, Recipient(e)>> \in working
          /\ working' = working \ {<<e, Recipient(e)>>}
          /\ slot' = FALSE
    /\ UNCHANGED <<subscribed, nextId, captured, offered>>

EndDelivery(e) ==
    /\ delivery[e] = [at |-> "next", rest |-> {}]
    /\ delivery' = [delivery EXCEPT ![e].at = "over"]
    /\ UNCHANGED <<subscribed, nextId, captured, offered, slot, working>>

EventNext ==
    \/ Subscribe
    \/ \E s \in subscribed : Unsubscribe(s)
    \/ \E e \in Events :
          \/ ScheduleRuntimeEvent(e) \/ DispatchRuntimeEvent(e) \/ SubscriberReturns(e)
          \/ SubscriberTimesOut(e) \/ EndDelivery(e)
    \/ \E c \in working : CallbackEnds(c)

EventSpec == EventInit /\ [][EventNext]_eventVars

-----------------------------------------------------------------------------

\* Whatever the subscribers do, and whoever comes or goes meanwhile, a finished
\* delivery has offered its event to exactly those it was scheduled for, and
\* who was dropped found another callback at work: no hung, cancelled or failed
\* call leaves the slot taken behind it, nor lets a second callback queue up
\* (runtime.py:946-970, runtime_events.py:232).
OfferedToAll ==
    /\ \A e \in Events :
        delivery[e].at = "over" =>
            /\ offered[e].called \cup offered[e].dropped = captured[e]
            /\ offered[e].called \cap offered[e].dropped = {}
    /\ slot => working # {}
    /\ \A c, d \in working : c = d
=============================================================================
