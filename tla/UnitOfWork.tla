----------------------------- MODULE UnitOfWork -----------------------------
(***************************************************************************)
(* The transactional boundary of every request and of every worker task:   *)
(* core/uow.py over a SQLAlchemy session, with the domain events that      *)
(* core/events.py lets an entity record, and the tenant setting row-level  *)
(* security reads from the connection.                                     *)
(*                                                                         *)
(* A unit of work runs one script: the calls one service method and its    *)
(* caller make on the session, in source order.  A script touches one      *)
(* entity that can record events.  The entity's successive changes are     *)
(* numbered, so that an outbox row can be compared with the change it      *)
(* announces.  A connection is checked out when a transaction first needs  *)
(* one and goes back to its pool when the transaction ends.                *)
(***************************************************************************)
EXTENDS Naturals, Sequences

CONSTANTS Unit,       \* units of work (requests and worker tasks)
          Tenant,     \* tenants
          TenantOf,   \* the tenant of the RequestContext each unit is given
          AppConn,    \* connections of the app engine, row-level security on
          OwnerConn,  \* connections of the owner engine, row-level security off
          NoConn,     \* "no connection checked out"
          NoTenant    \* "app.tenant_id is not set"

ASSUME TenantOfAssumption == TenantOf \in [Unit -> Tenant] /\ NoTenant \notin Tenant
ASSUME ConnAssumption == AppConn \cap OwnerConn = {} /\ NoConn \notin AppConn \cup OwnerConn

VARIABLES stage,   \* where the unit is: idle, main, handler (except branch), ended
          kind,    \* the script it runs
          pc,      \* the next call of the script
          object,  \* the state of its entity in the session
          made,    \* changes made to the entity so far
          memory,  \* changes not yet flushed
          inTx,    \* changes flushed in the open transaction
          events,  \* recorded events not yet pulled, by the change they announce
          conn,    \* the connection of the open transaction
          guc,     \* app.tenant_id of each connection
          stored,  \* changes of each unit's entity that are committed
          outbox   \* committed outbox rows of each change

session == <<kind, object, made, memory, inTx, events>>
vars == <<stage, pc, session, conn, guc, stored, outbox>>

Kind == {"upload", "reingest", "delete", "chat", "ingest"}
Change == 1..3
Conn == AppConn \cup OwnerConn

-----------------------------------------------------------------------------
(* The scripts.  "record" is record_event; the rest are session calls, with *)
(* "modify" for attribute assignments and "construct" for a new entity.     *)

UploadCalls   == <<"select", "construct", "record", "add", "flush", "commit">>
ReingestCalls == <<"select", "modify", "record", "flush", "commit">>
DeleteCalls   == <<"select", "delete", "flush", "commit">>

\* A first turn: the session row is committed before the answer is streamed.
ChatCalls     == <<"select", "construct", "add", "flush", "commit",
                   "select", "modify", "flush", "commit">>
IngestCalls   == <<"select", "modify", "flush", "modify", "record", "commit">>

Script == [upload |-> UploadCalls, reingest |-> ReingestCalls, delete |-> DeleteCalls,
           chat |-> ChatCalls, ingest |-> IngestCalls]

\* process_document's except branch, after its rollback.
Handler == <<"select", "modify", "commit">>

Calls(u) == IF stage[u] = "handler" THEN Handler ELSE Script[kind[u]]
Running(u) == stage[u] \in {"main", "handler"}
Calling(u, call) == Running(u) /\ pc[u] <= Len(Calls(u)) /\ Calls(u)[pc[u]] = call

\* The worker task opens its unit with is_admin=True on the owner engine.
IsAdmin(u) == kind[u] = "ingest"
Pool(u) == IF IsAdmin(u) THEN OwnerConn ELSE AppConn

\* Variant: the tenant is set once, in __aenter__, and not on every begin.
BoundOnEnter(u, c) == IF IsAdmin(u) \/ stored[u] # {} THEN guc[c] ELSE TenantOf[u]

\* What the after_begin listener leaves in the connection's app.tenant_id.
Bound(u, c) == IF IsAdmin(u) THEN guc[c] ELSE TenantOf[u]

\* Variant: set_config(..., false), a setting that outlives the transaction.
AfterTransactionSessionWide(c) == guc[c]

\* set_config(..., true) is local to the transaction.
AfterTransaction(c) == NoTenant

Release(u) ==
  /\ conn' = [conn EXCEPT ![u] = NoConn]
  /\ guc' = [c \in Conn |-> IF c = conn[u] THEN AfterTransaction(c) ELSE guc[c]]

Advance(u) == pc' = [pc EXCEPT ![u] = @ + 1] /\ UNCHANGED stage

-----------------------------------------------------------------------------
Start(u) ==
  /\ stage[u] = "idle"
  /\ \E k \in Kind : kind' = [kind EXCEPT ![u] = k]
  /\ stage' = [stage EXCEPT ![u] = "main"]
  /\ UNCHANGED <<pc, object, made, memory, inTx, events, conn, guc, stored, outbox>>

NeedsConnection(u) ==
  \/ Calling(u, "select")
  \/ Calling(u, "flush") /\ memory[u] # {}
  \/ Calling(u, "commit") /\ memory[u] # {}

\* The first statement of a transaction checks a connection out.
Begin(u) ==
  /\ NeedsConnection(u) /\ conn[u] = NoConn
  /\ \E c \in Pool(u) :
       /\ \A other \in Unit : conn[other] # c
       /\ conn' = [conn EXCEPT ![u] = c]
       /\ guc' = [guc EXCEPT ![c] = Bound(u, c)]
  /\ UNCHANGED <<stage, pc, session, stored, outbox>>

Ready(u) == NeedsConnection(u) => conn[u] # NoConn

Select(u) ==
  /\ Calling(u, "select") /\ Ready(u)
  /\ object' = [object EXCEPT ![u] = IF @ = "none" THEN "clean" ELSE @]
  /\ Advance(u)
  /\ UNCHANGED <<kind, made, memory, inTx, events, conn, guc, stored, outbox>>

\* Changes are numbered in script order; the except branch's is the last.
NewChange(u) == IF stage[u] = "handler" THEN 3 ELSE made[u] + 1

Mutate(u, state) ==
  /\ made' = [made EXCEPT ![u] = NewChange(u)]
  /\ memory' = [memory EXCEPT ![u] = @ \cup {NewChange(u)}]
  /\ object' = [object EXCEPT ![u] = state]
  /\ Advance(u)
  /\ UNCHANGED <<kind, inTx, events, conn, guc, stored, outbox>>

Construct(u) == Calling(u, "construct") /\ Mutate(u, "transient")
Modify(u) == Calling(u, "modify") /\ Mutate(u, "dirty")
Delete(u) == Calling(u, "delete") /\ Mutate(u, "deleted")

Add(u) ==
  /\ Calling(u, "add")
  /\ object' = [object EXCEPT ![u] = "new"]
  /\ Advance(u)
  /\ UNCHANGED <<kind, made, memory, inTx, events, conn, guc, stored, outbox>>

\* The event goes to a plain attribute: the session does not see it.
RecordEvent(u) ==
  /\ Calling(u, "record")
  /\ events' = [events EXCEPT ![u] = @ \cup {made[u]}]
  /\ Advance(u)
  /\ UNCHANGED <<kind, object, made, memory, inTx, conn, guc, stored, outbox>>

Flush(u) ==
  /\ Calling(u, "flush") /\ Ready(u)
  /\ inTx' = [inTx EXCEPT ![u] = @ \cup memory[u]]
  /\ memory' = [memory EXCEPT ![u] = {}]
  /\ object' = [object EXCEPT ![u] = IF @ = "deleted" THEN "gone" ELSE "clean"]
  /\ Advance(u)
  /\ UNCHANGED <<kind, made, events, conn, guc, stored, outbox>>

-----------------------------------------------------------------------------
\* Variant: only session.new is scanned.
TrackedNewOnly(u) == object[u] = "new"

\* session.new | session.dirty | session.deleted
Tracked(u) == object[u] \in {"new", "dirty", "deleted"}
Collected(u) == IF Tracked(u) THEN events[u] ELSE {}
\* Variant: pull_events copies the list and forgets to clear it.
AfterPullKept(u) == events[u]
AfterPull(u) == {}

Commit(u) ==
  /\ Calling(u, "commit") /\ Ready(u)
  /\ outbox' = [outbox EXCEPT ![u] =
                  [n \in Change |-> @[n] + (IF n \in Collected(u) THEN 1 ELSE 0)]]
  /\ stored' = [stored EXCEPT ![u] = @ \cup memory[u] \cup inTx[u]]
  /\ events' = [events EXCEPT ![u] = IF Tracked(u) THEN AfterPull(u) ELSE @]
  /\ object' = [object EXCEPT ![u] = IF @ \in {"deleted", "gone"} THEN "gone" ELSE "clean"]
  /\ memory' = [memory EXCEPT ![u] = {}]
  /\ inTx' = [inTx EXCEPT ![u] = {}]
  /\ Release(u) /\ Advance(u)
  /\ UNCHANGED <<kind, made>>

\* A rolled back session keeps no change, but the events stay on the entity.
RolledBack(u) ==
  /\ memory' = [memory EXCEPT ![u] = {}]
  /\ inTx' = [inTx EXCEPT ![u] = {}]
  /\ object' = [object EXCEPT ![u] = "none"]
  /\ Release(u)
  /\ UNCHANGED <<kind, made, stored, outbox>>

\* process_document catches whatever its try block raises; nothing else does.
Caught(u) == kind[u] = "ingest" /\ stage[u] = "main" /\ pc[u] > 1

Unwind(u) ==
  /\ stage' = [stage EXCEPT ![u] = IF Caught(u) THEN "handler" ELSE "ended"]
  /\ pc' = [pc EXCEPT ![u] = 1]

\* session.commit() fails after the events were pulled.
CommitFails(u) ==
  /\ Calling(u, "commit") /\ Ready(u)
  /\ events' = [events EXCEPT ![u] = IF Tracked(u) THEN AfterPull(u) ELSE @]
  /\ RolledBack(u) /\ Unwind(u)

\* Any other call of the script raises.
Raise(u) ==
  /\ Running(u) /\ pc[u] <= Len(Calls(u)) /\ ~Calling(u, "commit")
  /\ RolledBack(u) /\ Unwind(u)
  /\ UNCHANGED events

\* Variant: __aexit__ neither rolls back nor closes the session.
AbortWithoutClose(u) ==
  /\ Running(u)
  /\ stage' = [stage EXCEPT ![u] = "ended"]
  /\ UNCHANGED <<pc, session, conn, guc, stored, outbox>>

\* The request is cancelled or the process dies: __aexit__ (or the database)
\* rolls back, whatever the script was doing.
Abort(u) ==
  /\ Running(u)
  /\ RolledBack(u)
  /\ stage' = [stage EXCEPT ![u] = "ended"]
  /\ UNCHANGED <<pc, events>>

\* __aexit__ after the last call.
Exit(u) ==
  /\ Running(u) /\ pc[u] > Len(Calls(u))
  /\ stage' = [stage EXCEPT ![u] = "ended"]
  /\ Release(u)
  /\ UNCHANGED <<pc, session, stored, outbox>>

-----------------------------------------------------------------------------
Init ==
  /\ stage = [u \in Unit |-> "idle"]
  /\ kind = [u \in Unit |-> "chat"]
  /\ pc = [u \in Unit |-> 1]
  /\ object = [u \in Unit |-> "none"]
  /\ made = [u \in Unit |-> 0]
  /\ memory = [u \in Unit |-> {}]
  /\ inTx = [u \in Unit |-> {}]
  /\ events = [u \in Unit |-> {}]
  /\ conn = [u \in Unit |-> NoConn]
  /\ guc = [c \in Conn |-> NoTenant]
  /\ stored = [u \in Unit |-> {}]
  /\ outbox = [u \in Unit |-> [n \in Change |-> 0]]

Step(u) ==
  \/ Select(u) \/ Construct(u) \/ Modify(u) \/ Delete(u) \/ Add(u)
  \/ RecordEvent(u) \/ Flush(u) \/ Commit(u) \/ Exit(u)

Fault(u) == CommitFails(u) \/ Raise(u) \/ Abort(u)

Next == \E u \in Unit : Start(u) \/ Begin(u) \/ Step(u) \/ Fault(u)

Spec == Init /\ [][Next]_vars

\* The event loop runs every ready coroutine; the pool's queue is FIFO, so a
\* unit that waits for a connection gets one if connections keep coming back.
Fairness == \A u \in Unit : WF_vars(Step(u)) /\ SF_vars(Begin(u))
FairSpec == Spec /\ Fairness

-----------------------------------------------------------------------------
TypeOK ==
  /\ stage \in [Unit -> {"idle", "main", "handler", "ended"}]
  /\ kind \in [Unit -> Kind]
  /\ \A u \in Unit : pc[u] \in 1..Len(Calls(u)) + 1
  /\ object \in [Unit -> {"none", "clean", "transient", "new", "dirty", "deleted", "gone"}]
  /\ made \in [Unit -> 0..3]
  /\ memory \in [Unit -> SUBSET Change]
  /\ inTx \in [Unit -> SUBSET Change]
  /\ events \in [Unit -> SUBSET Change]
  /\ conn \in [Unit -> Conn \cup {NoConn}]
  /\ guc \in [Conn -> Tenant \cup {NoTenant}]
  /\ stored \in [Unit -> SUBSET Change]
  /\ outbox \in [Unit -> [Change -> Nat]]

(* Whatever a unit runs on its connection, in its first transaction or in   *)
(* one opened after a commit (a chat turn commits in the middle), runs under *)
(* its own tenant; the worker's unit runs with no tenant (uow.py:34-50).     *)
TenantBound ==
  \A u \in Unit : conn[u] # NoConn =>
    guc[conn[u]] = IF IsAdmin(u) THEN NoTenant ELSE TenantOf[u]

(* A connection never serves two units, and goes back to its pool without   *)
(* the tenant of the unit that used it (uow.py:42-47, database.py:10-37).    *)
PoolIsClean ==
  /\ \A u, w \in Unit : conn[u] = conn[w] /\ conn[u] # NoConn => u = w
  /\ \A c \in Conn : (\A u \in Unit : conn[u] # c) => guc[c] = NoTenant

(* An outbox row appears once, in the very step that commits the change it  *)
(* announces: no event of a change that was rolled back, not even after the  *)
(* except branch reuses the session, and no second row (uow.py:78-113).      *)
EventsCommitWithTheirChange ==
  [][\A u \in Unit, n \in Change : outbox'[u][n] # outbox[u][n] =>
       /\ outbox[u][n] = 0 /\ outbox'[u][n] = 1
       /\ n \in stored'[u] \ stored[u]]_vars

(* A document the worker turned ACTIVE is announced by DOCUMENT_READY, which *)
(* is recorded on a dirty entity (ingestion_service.py:121-127).             *)
ReadyIsAnnounced ==
  \A u \in Unit : kind[u] = "ingest" /\ 2 \in stored[u] => outbox[u][2] = 1

(* An uploaded document is announced by documents.process_ingestion.        *)
UploadIsAnnounced ==
  \A u \in Unit : kind[u] = "upload" /\ 1 \in stored[u] => outbox[u][1] = 1

(* Every unit that started ends and gives its connection back, whatever its *)
(* calls raise, with fewer connections than units (uow.py:54-69).            *)
UnitsEnd ==
  \A u \in Unit : stage[u] # "idle" ~> stage[u] = "ended" /\ conn[u] = NoConn
=============================================================================
