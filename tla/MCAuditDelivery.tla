-------------------------- MODULE MCAuditDelivery --------------------------
(* Outbox delivery on a small instance, for TLC. *)
EXTENDS AuditDelivery, TLC

CONSTANTS w1, w2, p1

\* Both workflows belong to one process and meet in its channel; a restart
\* makes them workflows of the process that takes its place.
OneProcess == (w1 :> p1) @@ (w2 :> p1)
============================================================================
