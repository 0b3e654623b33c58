----------------------------- MODULE OutboxRelay -----------------------------
(***************************************************************************)
(* The outbox relay daemon, infrastructure/outbox.py, run by any number of *)
(* replicas against one event_outbox table.                                *)
(*                                                                         *)
(* A replica polls a list of event ids, then starts one coroutine per id.  *)
(* Each coroutine claims its row (SELECT ... FOR UPDATE SKIP LOCKED), hands *)
(* the event to Celery in a thread and records the outcome, all in one     *)
(* database transaction that holds the row lock.  The id list is stale from *)
(* the moment it is read.  The clock is abstracted to whether next_retry_at *)
(* has passed.  A replica may die, and a transaction or a reply of the      *)
(* broker may be lost, at any point; MaxLosses bounds how often.  A lost    *)
(* transaction frees its row at once, but the thread that hands the event   *)
(* over knows nothing of it.                                               *)
(***************************************************************************)
EXTENDS Naturals, FiniteSets

CONSTANTS NumEvents,  \* events, numbered by created_at
          Relay,      \* replicas of the daemon
          NoRelay,    \* "row not locked"
          MAX_RETRY,
          BATCH_SIZE,
          Slots,      \* coroutines of a replica that hold a connection at once
          MaxLosses   \* bound: crashes, lost transactions, lost broker replies

ASSUME RelayAssumption == NoRelay \notin Relay
ASSUME BoundAssumption ==
  /\ NumEvents \in Nat /\ MaxLosses \in Nat
  /\ MAX_RETRY \in Nat \ {0} /\ BATCH_SIZE \in Nat \ {0} /\ Slots \in Nat \ {0}

VARIABLES status,     \* none (not committed yet), PENDING, SENT or FAILED
          retry,      \* retry_count
          due,        \* next_retry_at is null or has passed
          lock,       \* the replica whose transaction holds the row
          batch,      \* ids a replica has read and not started
          task,       \* the coroutine of each id: idle, claimed, sent, failed,
                      \* or cut: still handing over, its transaction gone
          delivered,  \* messages the broker received, per event
          unrecorded, \* those whose delivery no commit can record
          losses

vars == <<status, retry, due, lock, batch, task, delivered, unrecorded, losses>>

Event == 1..NumEvents

Busy(r) == {e \in Event : task[r][e] # "idle"}

-----------------------------------------------------------------------------
(* A unit of work commits the row. *)
Emit(e) ==
  /\ status[e] = "none"
  /\ status' = [status EXCEPT ![e] = "PENDING"]
  /\ UNCHANGED <<retry, due, lock, batch, task, delivered, unrecorded, losses>>

(* The backoff of an event elapses. *)
BackoffElapses(e) ==
  /\ status[e] = "PENDING" /\ ~due[e]
  /\ due' = [due EXCEPT ![e] = TRUE]
  /\ UNCHANGED <<status, retry, lock, batch, task, delivered, unrecorded, losses>>

-----------------------------------------------------------------------------
(* The polling loop. *)

\* Variant: the poll forgets events that were tried before.
EligibleFirstTry == {e \in Event : status[e] = "PENDING" /\ retry[e] = 0}
Eligible == {e \in Event : status[e] = "PENDING" /\ due[e]}

\* ORDER BY created_at LIMIT BATCH_SIZE
Oldest == {e \in Eligible : Cardinality({x \in Eligible : x < e}) < BATCH_SIZE}

\* The loop sleeps and reads again only when its task group has finished.
Poll(r) ==
  /\ batch[r] = {} /\ Busy(r) = {}
  /\ Oldest # {}
  /\ batch' = [batch EXCEPT ![r] = Oldest]
  /\ UNCHANGED <<status, retry, due, lock, task, delivered, unrecorded, losses>>

-----------------------------------------------------------------------------
(* process_outbox_event. *)

\* Variant: the claim trusts the polled status.
ClaimableUnchecked(e) == lock[e] = NoRelay
Claimable(e) == status[e] = "PENDING" /\ lock[e] = NoRelay

Claim(r, e) ==
  /\ e \in batch[r] /\ Cardinality(Busy(r)) < Slots
  /\ Claimable(e)
  /\ lock' = [lock EXCEPT ![e] = r]
  /\ task' = [task EXCEPT ![r][e] = "claimed"]
  /\ batch' = [batch EXCEPT ![r] = @ \ {e}]
  /\ UNCHANGED <<status, retry, due, delivered, unrecorded, losses>>

\* The row is no longer PENDING, or another transaction holds it.
Skip(r, e) ==
  /\ e \in batch[r] /\ Cardinality(Busy(r)) < Slots
  /\ ~Claimable(e)
  /\ batch' = [batch EXCEPT ![r] = @ \ {e}]
  /\ UNCHANGED <<status, retry, due, lock, task, delivered, unrecorded, losses>>

\* No connection comes free in time: the coroutine logs the error and ends.
ClaimTimesOut(r, e) ==
  /\ e \in batch[r] /\ Cardinality(Busy(r)) >= Slots
  /\ batch' = [batch EXCEPT ![r] = @ \ {e}]
  /\ UNCHANGED <<status, retry, due, lock, task, delivered, unrecorded, losses>>

Dispatch(r, e) ==
  /\ task[r][e] = "claimed"
  /\ task' = [task EXCEPT ![r][e] = "sent"]
  /\ delivered' = [delivered EXCEPT ![e] = @ + 1]
  /\ UNCHANGED <<status, retry, due, lock, batch, unrecorded, losses>>

\* send_task raises; the broker may have received the message all the same.
DispatchFails(r, e) ==
  /\ task[r][e] = "claimed"
  /\ task' = [task EXCEPT ![r][e] = "failed"]
  /\ \E n \in {0, 1} :
       /\ losses + n <= MaxLosses
       /\ losses' = losses + n
       /\ delivered' = [delivered EXCEPT ![e] = @ + n]
       /\ unrecorded' = [unrecorded EXCEPT ![e] = @ + n]
  /\ UNCHANGED <<status, retry, due, lock, batch>>

EndTransaction(r, e) ==
  /\ lock' = [lock EXCEPT ![e] = NoRelay]
  /\ task' = [task EXCEPT ![r][e] = "idle"]

RecordSent(r, e) ==
  /\ task[r][e] = "sent"
  /\ status' = [status EXCEPT ![e] = "SENT"]
  /\ EndTransaction(r, e)
  /\ UNCHANGED <<retry, due, batch, delivered, unrecorded, losses>>

\* Variant: one attempt too many before the event is given up.
ExhaustedLate(n) == n > MAX_RETRY
Exhausted(n) == n >= MAX_RETRY

\* Variant: the outcome of a failed dispatch is recorded as sent.
RecordFailureAsSent(r, e) ==
  /\ task[r][e] = "failed"
  /\ status' = [status EXCEPT ![e] = "SENT"]
  /\ EndTransaction(r, e)
  /\ UNCHANGED <<retry, due, batch, delivered, unrecorded, losses>>

RecordFailure(r, e) ==
  /\ task[r][e] = "failed"
  /\ retry' = [retry EXCEPT ![e] = @ + 1]
  /\ \/ /\ Exhausted(retry[e] + 1)
        /\ status' = [status EXCEPT ![e] = "FAILED"]
        /\ UNCHANGED due
     \/ /\ ~Exhausted(retry[e] + 1)
        /\ due' = [due EXCEPT ![e] = FALSE]
        /\ UNCHANGED status
  /\ EndTransaction(r, e)
  /\ UNCHANGED <<batch, delivered, unrecorded, losses>>

-----------------------------------------------------------------------------
(* Failures: what a replica sent and did not record is forgotten. *)

Lost(r, e) == IF task[r][e] = "sent" THEN 1 ELSE 0

(* The connection of one coroutine drops before its commit: the row is free. *)
(* A coroutine in the middle of its handover does not notice; any other does *)
(* at its next statement, and ends.                                          *)
CommitLost(r, e) ==
  /\ task[r][e] \in {"claimed", "sent", "failed"} /\ losses < MaxLosses
  /\ losses' = losses + 1
  /\ unrecorded' = [unrecorded EXCEPT ![e] = @ + Lost(r, e)]
  /\ lock' = [lock EXCEPT ![e] = NoRelay]
  /\ task' = [task EXCEPT ![r][e] = IF @ = "claimed" THEN "cut" ELSE "idle"]
  /\ UNCHANGED <<status, retry, due, batch, delivered>>

\* The late handover reaches the broker or fails; its commit fails anyway.
SendLate(r, e) ==
  /\ task[r][e] = "cut"
  /\ \E n \in {0, 1} :
       /\ delivered' = [delivered EXCEPT ![e] = @ + n]
       /\ unrecorded' = [unrecorded EXCEPT ![e] = @ + n]
  /\ task' = [task EXCEPT ![r][e] = "idle"]
  /\ UNCHANGED <<status, retry, due, lock, batch, losses>>

Handing(r) == {e \in Event : task[r][e] \in {"claimed", "cut"}}

(* The daemon dies; the database releases its rows, and it starts over.      *)
(* Stopped in order, the process waits for the threads in which it hands     *)
(* events over; killed, it takes some or all of them along.                  *)
Crash(r) ==
  /\ batch[r] # {} \/ Busy(r) # {}
  /\ losses < MaxLosses
  /\ losses' = losses + 1
  /\ unrecorded' = [e \in Event |-> unrecorded[e] + Lost(r, e)]
  /\ lock' = [e \in Event |-> IF lock[e] = r THEN NoRelay ELSE lock[e]]
  /\ \E D \in SUBSET Handing(r) :
       task' = [task EXCEPT ![r] = [e \in Event |-> IF e \in D THEN "cut" ELSE "idle"]]
  /\ batch' = [batch EXCEPT ![r] = {}]
  /\ UNCHANGED <<status, retry, due, delivered>>

-----------------------------------------------------------------------------
Init ==
  /\ status = [e \in Event |-> "none"]
  /\ retry = [e \in Event |-> 0]
  /\ due = [e \in Event |-> TRUE]
  /\ lock = [e \in Event |-> NoRelay]
  /\ batch = [r \in Relay |-> {}]
  /\ task = [r \in Relay |-> [e \in Event |-> "idle"]]
  /\ delivered = [e \in Event |-> 0]
  /\ unrecorded = [e \in Event |-> 0]
  /\ losses = 0

Finish(r, e) == RecordSent(r, e) \/ RecordFailure(r, e)
Send(r, e) == Dispatch(r, e) \/ DispatchFails(r, e) \/ SendLate(r, e)
Leave(r, e) == Skip(r, e) \/ ClaimTimesOut(r, e)

Next ==
  \/ \E e \in Event : Emit(e) \/ BackoffElapses(e)
  \/ \E r \in Relay : Poll(r) \/ Crash(r)
  \/ \E r \in Relay, e \in Event :
       Claim(r, e) \/ Leave(r, e) \/ Send(r, e) \/ Finish(r, e) \/ CommitLost(r, e)

Spec == Init /\ [][Next]_vars

(* The daemon's loop never exits and its coroutines run: weak fairness of    *)
(* what a replica does next.  Whether a coroutine gets its connection before *)
(* the pool times out is a race that some coroutine of the event wins at     *)
(* some poll: strong fairness of its claim, by whichever replica.            *)
Fairness ==
  /\ \A e \in Event :
       WF_vars(BackoffElapses(e)) /\ SF_vars(\E r \in Relay : Claim(r, e))
  /\ \A r \in Relay :
       WF_vars(Poll(r) \/ \E e \in Event : Skip(r, e) \/ Send(r, e) \/ Finish(r, e))

FairSpec == Spec /\ Fairness

-----------------------------------------------------------------------------
TypeOK ==
  /\ status \in [Event -> {"none", "PENDING", "SENT", "FAILED"}]
  /\ retry \in [Event -> 0..MAX_RETRY]
  /\ due \in [Event -> BOOLEAN]
  /\ lock \in [Event -> Relay \cup {NoRelay}]
  /\ batch \in [Relay -> SUBSET Event]
  /\ task \in [Relay -> [Event -> {"idle", "claimed", "sent", "failed", "cut"}]]
  /\ delivered \in [Event -> Nat]
  /\ unrecorded \in [Event -> Nat]
  /\ losses \in Nat

(* A coroutine that can still record something holds its row's lock, and the *)
(* row stays PENDING all that time, however many replicas polled it          *)
(* (outbox.py:39-52).                                                        *)
LockDiscipline ==
  \A r \in Relay, e \in Event :
    /\ task[r][e] \notin {"idle", "cut"} <=> lock[e] = r
    /\ lock[e] = r => status[e] = "PENDING"

(* The broker holds one message per event, plus the ones a lost transaction, *)
(* a crash or an ambiguous error failed to record: replicas running side by  *)
(* side never duplicate a delivery by themselves (outbox.py:41-64).          *)
DeliveriesAccounted ==
  \A e \in Event :
    delivered[e] = unrecorded[e] +
      (IF status[e] = "SENT" \/ (\E r \in Relay : task[r][e] = "sent") THEN 1 ELSE 0)

(* An event is given up after MAX_RETRY recorded attempts, neither earlier  *)
(* nor later (outbox.py:66-75).                                              *)
GivenUpWhenExhausted ==
  \A e \in Event : IF status[e] = "FAILED" THEN retry[e] = MAX_RETRY
                                           ELSE retry[e] < MAX_RETRY

(* The relay keeps the outbox's promise (see OutboxDelivery): once an event  *)
(* is recorded SENT or FAILED, only handovers that were already under way    *)
(* and whose transaction was lost still reach the broker (outbox.py:39-72).  *)
Delivery == INSTANCE OutboxDelivery
              WITH Event <- Event, Sender <- Relay,
                   status <- status, delivered <- delivered,
                   late <- [e \in Event |-> {r \in Relay : task[r][e] = "cut"}]
ImplementsDelivery == Delivery!Spec

(* Every committed event ends up sent or given up, even if its delivery is  *)
(* interrupted by crashes, skipped by one replica and claimed by another, or *)
(* pushed out of a batch by older events (outbox.py:78-121).                 *)
EventsSettle == <>[](\A e \in Event : status[e] # "PENDING")
=============================================================================
