-------------------------- MODULE OutboxRelayProofs --------------------------
(***************************************************************************)
(* The safety of the outbox relay, for any number of events and replicas,  *)
(* any retry limit, batch size and number of connections, and any number   *)
(* of crashes.                                                             *)
(***************************************************************************)
EXTENDS OutboxRelay, TLAPS

(* An event a replica has yet to start has no coroutine there, not even one  *)
(* that is still handing it over.                                            *)
StartedOnce == \A r \in Relay, e \in Event : e \in batch[r] => task[r][e] = "idle"

(* The invariants are inductive together: the accounting of deliveries needs *)
(* that only the lock holder is between dispatch and commit, and the retry   *)
(* bound needs that a row being worked on is still PENDING.                  *)
IInv ==
  /\ TypeOK /\ LockDiscipline /\ StartedOnce
  /\ DeliveriesAccounted /\ GivenUpWhenExhausted

LEMMA InitIInv == Init => IInv
<1> SUFFICES ASSUME Init PROVE IInv
  OBVIOUS
<1> USE RelayAssumption, BoundAssumption DEF Init, Event
<1>1. TypeOK
  BY DEF TypeOK
<1>2. LockDiscipline
  BY DEF LockDiscipline
<1>3. StartedOnce
  BY DEF StartedOnce
<1>4. DeliveriesAccounted
  BY DEF DeliveriesAccounted
<1>5. GivenUpWhenExhausted
  BY DEF GivenUpWhenExhausted
<1> QED
  BY <1>1, <1>2, <1>3, <1>4, <1>5 DEF IInv

LEMMA TypePreserved == IInv /\ [Next]_vars => TypeOK'
<1> SUFFICES ASSUME IInv, [Next]_vars PROVE TypeOK'
  OBVIOUS
<1> USE BoundAssumption DEF IInv, TypeOK
<1>1. ASSUME NEW e \in Event, Emit(e) \/ BackoffElapses(e)
      PROVE  TypeOK'
  BY <1>1 DEF Emit, BackoffElapses
<1>2. ASSUME NEW r \in Relay, Poll(r)
      PROVE  TypeOK'
  BY <1>2 DEF Poll, Oldest, Eligible
<1>3. ASSUME NEW r \in Relay, Crash(r)
      PROVE  TypeOK'
  <2>1. PICK D \in SUBSET Handing(r) :
          task' = [task EXCEPT ![r] = [e \in Event |-> IF e \in D THEN "cut" ELSE "idle"]]
    BY <1>3 DEF Crash
  <2>2. task' \in [Relay -> [Event -> {"idle", "claimed", "sent", "failed", "cut"}]]
    BY <2>1
  <2> QED
    BY <1>3, <2>2 DEF Crash, Lost
<1>4. ASSUME NEW r \in Relay, NEW e \in Event, Claim(r, e)
      PROVE  TypeOK'
  BY <1>4 DEF Claim
<1>5. ASSUME NEW r \in Relay, NEW e \in Event, Leave(r, e)
      PROVE  TypeOK'
  BY <1>5 DEF Leave, Skip, ClaimTimesOut
<1>6. ASSUME NEW r \in Relay, NEW e \in Event, Send(r, e)
      PROVE  TypeOK'
  <2>1. CASE Dispatch(r, e)
    BY <2>1 DEF Dispatch
  <2>2. CASE DispatchFails(r, e)
    BY <2>2 DEF DispatchFails
  <2>3. CASE SendLate(r, e)
    BY <2>3 DEF SendLate
  <2> QED
    BY <1>6, <2>1, <2>2, <2>3 DEF Send
<1>7. ASSUME NEW r \in Relay, NEW e \in Event, RecordSent(r, e)
      PROVE  TypeOK'
  BY <1>7 DEF RecordSent, EndTransaction
<1>8. ASSUME NEW r \in Relay, NEW e \in Event, RecordFailure(r, e)
      PROVE  TypeOK'
  <2>1. retry[e] + 1 \in 0..MAX_RETRY
    BY <1>8 DEF RecordFailure, LockDiscipline, GivenUpWhenExhausted
  <2>2. retry' \in [Event -> 0..MAX_RETRY]
    BY <1>8, <2>1 DEF RecordFailure
  <2>3. task' \in [Relay -> [Event -> {"idle", "claimed", "sent", "failed", "cut"}]]
    BY <1>8 DEF RecordFailure, EndTransaction
  <2> QED
    BY <1>8, <2>2, <2>3 DEF RecordFailure, EndTransaction
<1>9. ASSUME NEW r \in Relay, NEW e \in Event, CommitLost(r, e)
      PROVE  TypeOK'
  BY <1>9 DEF CommitLost, Lost
<1>10. CASE UNCHANGED vars
  BY <1>10 DEF vars
<1> QED
  BY <1>1, <1>2, <1>3, <1>4, <1>5, <1>6, <1>7, <1>8, <1>9, <1>10
     DEF Next, Finish

(* A claim takes a free PENDING row, and nothing else changes the status of *)
(* a row but the transaction that holds it.                                 *)
LEMMA LockPreserved == IInv /\ [Next]_vars => LockDiscipline'
<1> SUFFICES ASSUME IInv, [Next]_vars PROVE LockDiscipline'
  OBVIOUS
<1> USE RelayAssumption, BoundAssumption DEF IInv, TypeOK, LockDiscipline
<1>1. ASSUME NEW e \in Event, Emit(e) \/ BackoffElapses(e)
      PROVE  LockDiscipline'
  BY <1>1 DEF Emit, BackoffElapses
<1>2. ASSUME NEW r \in Relay, Poll(r)
      PROVE  LockDiscipline'
  BY <1>2 DEF Poll
<1>3. ASSUME NEW r \in Relay, Crash(r)
      PROVE  LockDiscipline'
  BY <1>3 DEF Crash, Lost
<1>4. ASSUME NEW r \in Relay, NEW e \in Event, Claim(r, e)
      PROVE  LockDiscipline'
  BY <1>4 DEF Claim, Claimable
<1>5. ASSUME NEW r \in Relay, NEW e \in Event, Leave(r, e)
      PROVE  LockDiscipline'
  BY <1>5 DEF Leave, Skip, ClaimTimesOut
<1>6. ASSUME NEW r \in Relay, NEW e \in Event, Dispatch(r, e)
      PROVE  LockDiscipline'
  BY <1>6 DEF Dispatch
<1>7. ASSUME NEW r \in Relay, NEW e \in Event, DispatchFails(r, e)
      PROVE  LockDiscipline'
  BY <1>7 DEF DispatchFails
<1>8. ASSUME NEW r \in Relay, NEW e \in Event, RecordSent(r, e)
      PROVE  LockDiscipline'
  BY <1>8 DEF RecordSent, EndTransaction
<1>9. ASSUME NEW r \in Relay, NEW e \in Event, RecordFailure(r, e)
      PROVE  LockDiscipline'
  BY <1>9 DEF RecordFailure, EndTransaction, Exhausted
<1>10. ASSUME NEW r \in Relay, NEW e \in Event, CommitLost(r, e)
      PROVE  LockDiscipline'
  BY <1>10 DEF CommitLost, Lost
<1>11. ASSUME NEW r \in Relay, NEW e \in Event, SendLate(r, e)
      PROVE  LockDiscipline'
  BY <1>11 DEF SendLate
<1>12. CASE UNCHANGED vars
  BY <1>12 DEF vars
<1> QED
  BY <1>1, <1>2, <1>3, <1>4, <1>5, <1>6, <1>7, <1>8, <1>9, <1>10, <1>11, <1>12
     DEF Next, Send, Finish

(* A replica polls again when none of its coroutines is left.                *)
LEMMA StartedPreserved == IInv /\ [Next]_vars => StartedOnce'
<1> SUFFICES ASSUME IInv, [Next]_vars PROVE StartedOnce'
  OBVIOUS
<1> USE DEF IInv, TypeOK, StartedOnce
<1>1. ASSUME NEW e \in Event, Emit(e) \/ BackoffElapses(e)
      PROVE  StartedOnce'
  BY <1>1 DEF Emit, BackoffElapses
<1>2. ASSUME NEW r \in Relay, Poll(r)
      PROVE  StartedOnce'
  BY <1>2 DEF Poll, Busy
<1>3. ASSUME NEW r \in Relay, Crash(r)
      PROVE  StartedOnce'
  BY <1>3 DEF Crash
<1>4. ASSUME NEW r \in Relay, NEW e \in Event, Claim(r, e)
      PROVE  StartedOnce'
  BY <1>4 DEF Claim
<1>5. ASSUME NEW r \in Relay, NEW e \in Event, Leave(r, e)
      PROVE  StartedOnce'
  BY <1>5 DEF Leave, Skip, ClaimTimesOut
<1>6. ASSUME NEW r \in Relay, NEW e \in Event, Send(r, e)
      PROVE  StartedOnce'
  BY <1>6 DEF Send, Dispatch, DispatchFails, SendLate
<1>7. ASSUME NEW r \in Relay, NEW e \in Event, Finish(r, e)
      PROVE  StartedOnce'
  BY <1>7 DEF Finish, RecordSent, RecordFailure, EndTransaction
<1>8. ASSUME NEW r \in Relay, NEW e \in Event, CommitLost(r, e)
      PROVE  StartedOnce'
  BY <1>8 DEF CommitLost
<1>9. CASE UNCHANGED vars
  BY <1>9 DEF vars
<1> QED
  BY <1>1, <1>2, <1>3, <1>4, <1>5, <1>6, <1>7, <1>8, <1>9 DEF Next

(* Only the lock holder is past its dispatch, so at most one message of an   *)
(* event is waiting to be recorded.                                          *)
LEMMA AccountsPreserved == IInv /\ [Next]_vars => DeliveriesAccounted'
<1> SUFFICES ASSUME IInv, [Next]_vars PROVE DeliveriesAccounted'
  OBVIOUS
<1> USE RelayAssumption, BoundAssumption DEF IInv, TypeOK, LockDiscipline, DeliveriesAccounted
<1>1. ASSUME NEW e \in Event, Emit(e) \/ BackoffElapses(e)
      PROVE  DeliveriesAccounted'
  BY <1>1 DEF Emit, BackoffElapses
<1>2. ASSUME NEW r \in Relay, Poll(r)
      PROVE  DeliveriesAccounted'
  BY <1>2 DEF Poll
<1>3. ASSUME NEW r \in Relay, Crash(r)
      PROVE  DeliveriesAccounted'
  BY <1>3 DEF Crash, Lost
<1>4. ASSUME NEW r \in Relay, NEW e \in Event, Claim(r, e)
      PROVE  DeliveriesAccounted'
  BY <1>4 DEF Claim, Claimable
<1>5. ASSUME NEW r \in Relay, NEW e \in Event, Leave(r, e)
      PROVE  DeliveriesAccounted'
  BY <1>5 DEF Leave, Skip, ClaimTimesOut
<1>6. ASSUME NEW r \in Relay, NEW e \in Event, Dispatch(r, e)
      PROVE  DeliveriesAccounted'
  <2>1. status[e] = "PENDING" /\ (\A w \in Relay : task[w][e] # "sent")
    <3>1. lock[e] = r
      BY <1>6 DEF Dispatch
    <3>2. \A w \in Relay : task[w][e] = "sent" => w = r
      BY <3>1
    <3> QED
      BY <1>6, <3>1, <3>2 DEF Dispatch
  <2>2. delivered'[e] = unrecorded'[e] + 1 /\ task'[r][e] = "sent"
    BY <1>6, <2>1 DEF Dispatch
  <2>3. \A x \in Event \ {e} : /\ delivered'[x] = delivered[x]
                                /\ \A w \in Relay : task'[w][x] = task[w][x]
    BY <1>6 DEF Dispatch
  <2> QED
    BY <1>6, <2>2, <2>3 DEF Dispatch
<1>7. ASSUME NEW r \in Relay, NEW e \in Event, DispatchFails(r, e)
      PROVE  DeliveriesAccounted'
  BY <1>7 DEF DispatchFails
<1>8. ASSUME NEW r \in Relay, NEW e \in Event, RecordSent(r, e)
      PROVE  DeliveriesAccounted'
  BY <1>8 DEF RecordSent, EndTransaction
<1>9. ASSUME NEW r \in Relay, NEW e \in Event, RecordFailure(r, e)
      PROVE  DeliveriesAccounted'
  BY <1>9 DEF RecordFailure, EndTransaction, Exhausted
<1>10. ASSUME NEW r \in Relay, NEW e \in Event, CommitLost(r, e)
      PROVE  DeliveriesAccounted'
  BY <1>10 DEF CommitLost, Lost
<1>11. ASSUME NEW r \in Relay, NEW e \in Event, SendLate(r, e)
      PROVE  DeliveriesAccounted'
  BY <1>11 DEF SendLate
<1>12. CASE UNCHANGED vars
  BY <1>12 DEF vars
<1> QED
  BY <1>1, <1>2, <1>3, <1>4, <1>5, <1>6, <1>7, <1>8, <1>9, <1>10, <1>11, <1>12
     DEF Next, Send, Finish

(* An attempt is recorded on a row that is still PENDING.                    *)
LEMMA RetryPreserved == IInv /\ [Next]_vars => GivenUpWhenExhausted'
<1> SUFFICES ASSUME IInv, [Next]_vars PROVE GivenUpWhenExhausted'
  OBVIOUS
<1> USE RelayAssumption, BoundAssumption DEF IInv, TypeOK, LockDiscipline, GivenUpWhenExhausted
<1>1. ASSUME NEW e \in Event, Emit(e) \/ BackoffElapses(e)
      PROVE  GivenUpWhenExhausted'
  BY <1>1 DEF Emit, BackoffElapses
<1>2. ASSUME NEW r \in Relay, Poll(r)
      PROVE  GivenUpWhenExhausted'
  BY <1>2 DEF Poll
<1>3. ASSUME NEW r \in Relay, Crash(r)
      PROVE  GivenUpWhenExhausted'
  BY <1>3 DEF Crash, Lost
<1>4. ASSUME NEW r \in Relay, NEW e \in Event, Claim(r, e)
      PROVE  GivenUpWhenExhausted'
  BY <1>4 DEF Claim, Claimable
<1>5. ASSUME NEW r \in Relay, NEW e \in Event, Leave(r, e)
      PROVE  GivenUpWhenExhausted'
  BY <1>5 DEF Leave, Skip, ClaimTimesOut
<1>6. ASSUME NEW r \in Relay, NEW e \in Event, Dispatch(r, e)
      PROVE  GivenUpWhenExhausted'
  BY <1>6 DEF Dispatch
<1>7. ASSUME NEW r \in Relay, NEW e \in Event, DispatchFails(r, e)
      PROVE  GivenUpWhenExhausted'
  BY <1>7 DEF DispatchFails
<1>8. ASSUME NEW r \in Relay, NEW e \in Event, RecordSent(r, e)
      PROVE  GivenUpWhenExhausted'
  BY <1>8 DEF RecordSent, EndTransaction
<1>9. ASSUME NEW r \in Relay, NEW e \in Event, RecordFailure(r, e)
      PROVE  GivenUpWhenExhausted'
  <2>1. status[e] = "PENDING" /\ retry[e] < MAX_RETRY
    BY <1>9 DEF RecordFailure
  <2>2. retry[e] \in Nat /\ retry'[e] = retry[e] + 1
    BY <1>9 DEF RecordFailure
  <2>3. IF status'[e] = "FAILED" THEN retry'[e] = MAX_RETRY
                                 ELSE retry'[e] < MAX_RETRY
    <3>1. CASE Exhausted(retry[e] + 1)
      <4>1. status'[e] = "FAILED"
        BY <1>9, <3>1 DEF RecordFailure
      <4> QED
        BY <2>1, <2>2, <3>1, <4>1 DEF Exhausted
    <3>2. CASE ~Exhausted(retry[e] + 1)
      <4>1. status'[e] = "PENDING"
        BY <1>9, <2>1, <3>2 DEF RecordFailure
      <4> QED
        BY <2>2, <3>2, <4>1 DEF Exhausted
    <3> QED
      BY <3>1, <3>2
  <2>4. \A x \in Event \ {e} : status'[x] = status[x] /\ retry'[x] = retry[x]
    BY <1>9 DEF RecordFailure
  <2> QED
    BY <2>3, <2>4
<1>10. ASSUME NEW r \in Relay, NEW e \in Event, CommitLost(r, e)
      PROVE  GivenUpWhenExhausted'
  BY <1>10 DEF CommitLost, Lost
<1>11. ASSUME NEW r \in Relay, NEW e \in Event, SendLate(r, e)
      PROVE  GivenUpWhenExhausted'
  BY <1>11 DEF SendLate
<1>12. CASE UNCHANGED vars
  BY <1>12 DEF vars
<1> QED
  BY <1>1, <1>2, <1>3, <1>4, <1>5, <1>6, <1>7, <1>8, <1>9, <1>10, <1>11, <1>12
     DEF Next, Send, Finish

-----------------------------------------------------------------------------
LEMMA RelayHolds ==
  Spec => []IInv
<1>1. IInv /\ [Next]_vars => IInv'
  BY TypePreserved, LockPreserved, StartedPreserved, AccountsPreserved, RetryPreserved
     DEF IInv
<1> QED
  BY InitIInv, <1>1, PTL DEF Spec

(* Types hold, a coroutine works on a row exactly while it has it locked and  *)
(* PENDING, and the broker has one message per event besides those that a     *)
(* crash, a lost commit or an ambiguous error left unrecorded                 *)
(* (outbox.py:39-64).                                                         *)
THEOREM RelaySafe ==
  Spec => [](TypeOK /\ LockDiscipline /\ DeliveriesAccounted)
<1>1. IInv => TypeOK /\ LockDiscipline /\ DeliveriesAccounted
  BY DEF IInv
<1> QED
  BY RelayHolds, <1>1, PTL

(* A row is given up exactly when its recorded attempts reach MAX_RETRY,      *)
(* whichever replicas made them (outbox.py:66-75).                            *)
THEOREM RetriesBounded ==
  Spec => []GivenUpWhenExhausted
<1>1. IInv => GivenUpWhenExhausted
  BY DEF IInv
<1> QED
  BY RelayHolds, <1>1, PTL

(* The relay implements OutboxDelivery: whatever the replicas, their crashes *)
(* and the broker do, an event is sent only after the broker received it,    *)
(* and once it is sent or given up nobody begins to hand it over; what still *)
(* arrives was under way when its transaction was lost (outbox.py:39-72).    *)
THEOREM RelayImplementsDelivery == Spec => ImplementsDelivery
<1> DEFINE Cut(e) == {r \in Relay : task[r][e] = "cut"}
           Late == [e \in Event |-> Cut(e)]
<1>1. Init => Delivery!Init
  BY DEF Init, Delivery!Init
<1>2. ASSUME IInv, [Next]_vars PROVE [Delivery!Next]_(Delivery!vars)
  <2> USE <1>2 DEF IInv, TypeOK
  <2> SUFFICES Delivery!Next \/ (status' = status /\ delivered' = delivered /\ Late' = Late)
    BY DEF Delivery!vars
  <2>1. ASSUME NEW e \in Event, Emit(e) PROVE Delivery!Emit(e)
    BY <2>1 DEF Emit, Delivery!Emit
  <2>2. ASSUME NEW r \in Relay, NEW e \in Event, Dispatch(r, e)
        PROVE  Delivery!Deliver(e)
    <3>1. \A w \in Relay, x \in Event : task'[w][x] = "cut" <=> task[w][x] = "cut"
      BY <2>2 DEF Dispatch
    <3>2. Late' = Late
      BY <3>1
    <3> QED
      BY <2>2, <3>2 DEF Dispatch, Delivery!Deliver, LockDiscipline
  <2>3. ASSUME NEW r \in Relay, NEW e \in Event, DispatchFails(r, e)
        PROVE  Delivery!Deliver(e) \/ (status' = status /\ delivered' = delivered /\ Late' = Late)
    <3>1. PICK n \in {0, 1} : delivered' = [delivered EXCEPT ![e] = @ + n]
      BY <2>3 DEF DispatchFails
    <3>2. \A w \in Relay, x \in Event : task'[w][x] = "cut" <=> task[w][x] = "cut"
      BY <2>3 DEF DispatchFails
    <3>3. Late' = Late
      BY <3>2
    <3>4. CASE n = 1
      BY <2>3, <3>1, <3>3, <3>4 DEF DispatchFails, Delivery!Deliver, LockDiscipline
    <3>5. CASE n = 0
      <4>1. delivered[e] + 0 = delivered[e]
        OBVIOUS
      <4> QED
        BY <2>3, <3>1, <3>3, <3>5, <4>1 DEF DispatchFails
    <3> QED
      BY <3>4, <3>5
  <2>4. ASSUME NEW r \in Relay, NEW e \in Event, SendLate(r, e)
        PROVE  Delivery!DeliverLate(r, e) \/ Delivery!Detach(r)
    <3>1. PICK n \in {0, 1} : delivered' = [delivered EXCEPT ![e] = @ + n]
      BY <2>4 DEF SendLate
    <3>2. \A w \in Relay, x \in Event :
            task'[w][x] = "cut" <=> task[w][x] = "cut" /\ <<w, x>> # <<r, e>>
      BY <2>4 DEF SendLate
    <3>3. CASE n = 1
      <4>1. r \in Late[e]
        BY <2>4 DEF SendLate
      <4>2. \A x \in Event : Cut(x)' = IF x = e THEN Cut(x) \ {r} ELSE Cut(x)
        BY <3>2
      <4>3. Late' = [Late EXCEPT ![e] = @ \ {r}]
        BY <4>2
      <4> QED
        BY <2>4, <3>1, <3>3, <4>1, <4>3 DEF SendLate, Delivery!DeliverLate
    <3>4. CASE n = 0
      <4> DEFINE D == {x \in Event : task'[r][x] = "cut"}
      <4>1. delivered' = delivered
        BY <3>1, <3>4
      <4>2. \A x \in D : r \in Late[x]
        BY <3>2
      <4>3. Late' = [x \in Event |-> IF x \in D THEN Late[x] \cup {r} ELSE Late[x] \ {r}]
        BY <3>2
      <4>4. D \in SUBSET Event
        OBVIOUS
      <4> QED
        BY <2>4, <4>1, <4>2, <4>3, <4>4 DEF SendLate, Delivery!Detach
    <3> QED
      BY <3>3, <3>4
  <2>5. ASSUME NEW r \in Relay, NEW e \in Event, RecordSent(r, e)
        PROVE  Delivery!MarkSent(e)
    <3>1. status[e] = "PENDING" /\ delivered[e] > 0
      BY <2>5 DEF RecordSent, LockDiscipline, DeliveriesAccounted
    <3>2. \A w \in Relay, x \in Event : task'[w][x] = "cut" <=> task[w][x] = "cut"
      BY <2>5 DEF RecordSent, EndTransaction
    <3>3. Late' = Late
      BY <3>2
    <3> QED
      BY <2>5, <3>1, <3>3 DEF RecordSent, Delivery!MarkSent
  <2>6. ASSUME NEW r \in Relay, NEW e \in Event, RecordFailure(r, e)
        PROVE  Delivery!GiveUp(e) \/ (status' = status /\ delivered' = delivered /\ Late' = Late)
    <3>1. \A w \in Relay, x \in Event : task'[w][x] = "cut" <=> task[w][x] = "cut"
      BY <2>6 DEF RecordFailure, EndTransaction
    <3>2. Late' = Late
      BY <3>1
    <3> QED
      BY <2>6, <3>2 DEF RecordFailure, Delivery!GiveUp, LockDiscipline
  \* Whoever lost its transaction held the lock of a pending row until then.
  <2>7. ASSUME NEW r \in Relay, Crash(r) \/ (\E e \in Event : CommitLost(r, e))
        PROVE  Delivery!Detach(r)
    <3> DEFINE D == {x \in Event : task'[r][x] = "cut"}
    <3>1. \A x \in D : task[r][x] \in {"claimed", "cut"}
      BY <2>7 DEF Crash, CommitLost, Handing
    <3>2. \A x \in D : status[x] = "PENDING" \/ r \in Late[x]
      BY <3>1 DEF LockDiscipline
    <3>3. \A w \in Relay \ {r}, x \in Event : task'[w][x] = task[w][x]
      BY <2>7 DEF Crash, CommitLost
    <3>4. Late' = [x \in Event |-> IF x \in D THEN Late[x] \cup {r} ELSE Late[x] \ {r}]
      BY <3>3
    <3>5. UNCHANGED <<status, delivered>> /\ D \in SUBSET Event
      BY <2>7 DEF Crash, CommitLost
    <3> QED
      BY <3>2, <3>4, <3>5 DEF Delivery!Detach
  <2>8. ASSUME NEW e \in Event, BackoffElapses(e)
        PROVE  status' = status /\ delivered' = delivered /\ Late' = Late
    BY <2>8 DEF BackoffElapses
  <2>9. ASSUME NEW r \in Relay, Poll(r)
        PROVE  status' = status /\ delivered' = delivered /\ Late' = Late
    BY <2>9 DEF Poll
  <2>10. ASSUME NEW r \in Relay, NEW e \in Event, Claim(r, e) \/ Leave(r, e)
         PROVE  status' = status /\ delivered' = delivered /\ Late' = Late
    <3>1. \A w \in Relay, x \in Event : task'[w][x] = "cut" <=> task[w][x] = "cut"
      BY <2>10 DEF Claim, StartedOnce, Leave, Skip, ClaimTimesOut
    <3> QED
      BY <2>10, <3>1 DEF Claim, Leave, Skip, ClaimTimesOut
  <2>11. CASE UNCHANGED vars
    BY <2>11 DEF vars
  <2> QED
    BY <2>1, <2>2, <2>3, <2>4, <2>5, <2>6, <2>7, <2>8, <2>9, <2>10, <2>11
       DEF Next, Send, Finish, Delivery!Next
<1> QED
  BY <1>1, <1>2, RelayHolds, PTL DEF Spec, ImplementsDelivery, Delivery!Spec
==============================================================================
