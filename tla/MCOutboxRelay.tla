---------------------------- MODULE MCOutboxRelay ----------------------------
(* Two replicas and three events: a batch of two leaves out the youngest as *)
(* long as the older two are pending and due, among them those that failed  *)
(* before, and one connection per replica makes coroutines time out.        *)
EXTENDS OutboxRelay
=============================================================================
