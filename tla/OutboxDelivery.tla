--------------------------- MODULE OutboxDelivery ---------------------------
(***************************************************************************)
(* What the transactional outbox promises for each event: it is handed to  *)
(* the broker at least once before it counts as sent, it may be handed     *)
(* over more than once while it is pending, and once it is sent or given   *)
(* up no handover of it begins any more.  A sender that loses its          *)
(* transaction in the middle of a handover still completes it, once, or    *)
(* not at all: such a message may arrive at any later time.                *)
(***************************************************************************)
EXTENDS Naturals

CONSTANTS Event, Sender

VARIABLES status,    \* of each event: none, PENDING, SENT or FAILED
          delivered, \* how many times the broker received it
          late       \* senders in the middle of a handover nobody can record

vars == <<status, delivered, late>>

Init ==
  /\ status = [e \in Event |-> "none"]
  /\ delivered = [e \in Event |-> 0]
  /\ late = [e \in Event |-> {}]

Emit(e) ==
  /\ status[e] = "none"
  /\ status' = [status EXCEPT ![e] = "PENDING"]
  /\ UNCHANGED <<delivered, late>>

Deliver(e) ==
  /\ status[e] = "PENDING"
  /\ delivered' = [delivered EXCEPT ![e] = @ + 1]
  /\ UNCHANGED <<status, late>>

MarkSent(e) ==
  /\ status[e] = "PENDING" /\ delivered[e] > 0
  /\ status' = [status EXCEPT ![e] = "SENT"]
  /\ UNCHANGED <<delivered, late>>

GiveUp(e) ==
  /\ status[e] = "PENDING"
  /\ status' = [status EXCEPT ![e] = "FAILED"]
  /\ UNCHANGED <<delivered, late>>

(* A sender loses transactions: D are the events it goes on handing over,   *)
(* pending ones and those it had lost before.                               *)
Detach(s) ==
  \E D \in SUBSET Event :
    /\ \A e \in D : status[e] = "PENDING" \/ s \in late[e]
    /\ late' = [e \in Event |-> IF e \in D THEN late[e] \cup {s} ELSE late[e] \ {s}]
    /\ UNCHANGED <<status, delivered>>

DeliverLate(s, e) ==
  /\ s \in late[e]
  /\ delivered' = [delivered EXCEPT ![e] = @ + 1]
  /\ late' = [late EXCEPT ![e] = @ \ {s}]
  /\ UNCHANGED status

Next ==
  \/ \E e \in Event : Emit(e) \/ Deliver(e) \/ MarkSent(e) \/ GiveUp(e)
  \/ \E s \in Sender : Detach(s) \/ (\E e \in Event : DeliverLate(s, e))

Spec == Init /\ [][Next]_vars
=============================================================================
