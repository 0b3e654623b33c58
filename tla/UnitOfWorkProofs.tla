-------------------------- MODULE UnitOfWorkProofs --------------------------
(***************************************************************************)
(* For any number of units, tenants and connections: first the tenant       *)
(* isolation of the connections, whatever the scripts are; then what the     *)
(* scripts store and announce.                                              *)
(***************************************************************************)
EXTENDS UnitOfWork, TLAPS

ConnTypes ==
  /\ stage \in [Unit -> {"idle", "main", "handler", "ended"}]
  /\ kind \in [Unit -> Kind]
  /\ conn \in [Unit -> Conn \cup {NoConn}]
  /\ guc \in [Conn -> Tenant \cup {NoTenant}]

(* A unit chooses its script, and with it its engine, before it has a       *)
(* connection.                                                              *)
IdleIsDisconnected == \A u \in Unit : stage[u] = "idle" => conn[u] = NoConn

IInv == ConnTypes /\ IdleIsDisconnected /\ TenantBound /\ PoolIsClean

LEMMA InitIInv == Init => IInv
BY ConnAssumption
   DEF Init, IInv, ConnTypes, IdleIsDisconnected, TenantBound, PoolIsClean, Conn, Kind

(* The end of a transaction: the connection loses the tenant and its owner  *)
(* together.                                                                *)
LEMMA ReleaseKeeps ==
  ASSUME IInv, NEW u \in Unit, Release(u), UNCHANGED kind,
         stage' \in [Unit -> {"idle", "main", "handler", "ended"}],
         \A w \in Unit : stage'[w] = "idle" => stage[w] = "idle"
  PROVE  IInv'
<1> USE ConnAssumption DEF IInv, ConnTypes, Release, AfterTransaction, Conn
<1>1. ConnTypes'
  OBVIOUS
<1>2. IdleIsDisconnected'
  BY DEF IdleIsDisconnected
<1>3. \A w \in Unit \ {u} : conn'[w] = conn[w]
  OBVIOUS
<1>4. TenantBound'
  <2> SUFFICES ASSUME NEW w \in Unit, conn'[w] # NoConn
               PROVE  guc'[conn'[w]] = IF IsAdmin(w) THEN NoTenant ELSE TenantOf[w]
    BY DEF TenantBound, IsAdmin
  <2>1. w # u /\ conn'[w] = conn[w] /\ conn[w] # conn[u]
    BY DEF PoolIsClean
  <2> QED
    BY <2>1 DEF TenantBound
<1>5. PoolIsClean'
  <2>1. \A v, w \in Unit : conn'[v] = conn'[w] /\ conn'[v] # NoConn => v = w
    BY DEF PoolIsClean
  <2>2. ASSUME NEW c \in Conn, \A w \in Unit : conn'[w] # c
        PROVE  guc'[c] = NoTenant
    <3>1. CASE c = conn[u]
      BY <3>1
    <3>2. CASE c # conn[u]
      BY <1>3, <2>2, <3>2 DEF PoolIsClean
    <3> QED
      BY <3>1, <3>2
  <2> QED
    BY <2>1, <2>2 DEF PoolIsClean
<1> QED
  BY <1>1, <1>2, <1>4, <1>5

(* The check-out: the listener sets the tenant before any statement runs.   *)
LEMMA BeginKeeps ==
  ASSUME IInv, TenantOfAssumption, NEW u \in Unit, Begin(u)
  PROVE  IInv'
<1> USE ConnAssumption DEF IInv, ConnTypes, Conn
<1>1. PICK c \in Pool(u) :
        /\ \A other \in Unit : conn[other] # c
        /\ conn' = [conn EXCEPT ![u] = c]
        /\ guc' = [guc EXCEPT ![c] = Bound(u, c)]
  BY DEF Begin
<1>2. c \in Conn /\ guc[c] = NoTenant
  BY <1>1 DEF Pool, PoolIsClean
<1>3. UNCHANGED <<stage, kind>> /\ conn[u] = NoConn /\ stage[u] # "idle"
  BY DEF Begin, session, NeedsConnection, Calling, Running
<1>4. Bound(u, c) = IF IsAdmin(u) THEN NoTenant ELSE TenantOf[u]
  BY <1>2 DEF Bound
<1>5. ConnTypes'
  BY <1>1, <1>2, <1>3, <1>4, TenantOfAssumption
<1>6. IdleIsDisconnected'
  BY <1>1, <1>3 DEF IdleIsDisconnected
<1>7. TenantBound'
  BY <1>1, <1>2, <1>3, <1>4 DEF TenantBound, IsAdmin
<1>8. PoolIsClean'
  <2>1. NoConn \notin Conn /\ conn' \in [Unit -> Conn \cup {NoConn}]
    BY <1>5
  <2>2. ASSUME NEW v \in Unit, NEW w \in Unit, conn'[v] = conn'[w], conn'[v] # NoConn
        PROVE  v = w
    BY <2>2, <1>1, <1>2 DEF PoolIsClean
  <2>3. ASSUME NEW d \in Conn, \A w \in Unit : conn'[w] # d
        PROVE  guc'[d] = NoTenant
    <3>1. conn'[u] = c /\ d # c
      BY <1>1, <2>3
    <3>2. \A w \in Unit : conn[w] # d
      <4>1. \A w \in Unit \ {u} : conn'[w] = conn[w]
        BY <1>1
      <4> QED
        BY <4>1, <2>1, <2>3, <1>3
    <3>3. guc'[d] = guc[d]
      BY <1>1, <3>1
    <3> QED
      BY <3>2, <3>3 DEF PoolIsClean
  <2> QED
    BY <2>2, <2>3 DEF PoolIsClean
<1> QED
  BY <1>5, <1>6, <1>7, <1>8

LEMMA StepKeeps == IInv /\ [Next]_vars => IInv'
<1> SUFFICES ASSUME IInv, [Next]_vars PROVE IInv'
  OBVIOUS
<1>1. ASSUME NEW u \in Unit, Start(u) PROVE IInv'
  <2>1. UNCHANGED <<conn, guc>> /\ conn[u] = NoConn
    BY <1>1 DEF Start, IInv, IdleIsDisconnected
  <2>2. ConnTypes' /\ IdleIsDisconnected' /\ \A w \in Unit \ {u} : kind'[w] = kind[w]
    BY <1>1, <2>1 DEF Start, IInv, ConnTypes, IdleIsDisconnected
  <2> QED
    BY <2>1, <2>2 DEF IInv, TenantBound, PoolIsClean, IsAdmin
<1>2. ASSUME NEW u \in Unit, Begin(u) PROVE IInv'
  BY <1>2, BeginKeeps, TenantOfAssumption
<1>3. ASSUME NEW u \in Unit,
             \/ Select(u) \/ Construct(u) \/ Modify(u) \/ Delete(u)
             \/ Add(u) \/ RecordEvent(u) \/ Flush(u)
      PROVE  IInv'
  <2>1. UNCHANGED <<stage, kind, conn, guc>>
    BY <1>3 DEF Select, Construct, Modify, Delete, Add, RecordEvent, Flush, Mutate, Advance
  <2> QED
    BY <2>1 DEF IInv, ConnTypes, IdleIsDisconnected, TenantBound, PoolIsClean, IsAdmin
<1>4. ASSUME NEW u \in Unit, Commit(u) PROVE IInv'
  <2>1. Release(u) /\ UNCHANGED <<stage, kind>>
    BY <1>4 DEF Commit, Advance
  <2> QED
    BY <2>1, ReleaseKeeps DEF IInv, ConnTypes
<1>5. ASSUME NEW u \in Unit, CommitFails(u) \/ Raise(u) \/ Abort(u) PROVE IInv'
  <2>1. Release(u) /\ UNCHANGED kind
    BY <1>5 DEF CommitFails, Raise, Abort, RolledBack
  <2>2. PICK s \in {"handler", "ended"} : stage' = [stage EXCEPT ![u] = s]
    BY <1>5 DEF CommitFails, Raise, Abort, Unwind
  <2> QED
    BY <2>1, <2>2, ReleaseKeeps DEF IInv, ConnTypes
<1>6. ASSUME NEW u \in Unit, Exit(u) PROVE IInv'
  <2>1. Release(u) /\ UNCHANGED kind /\ stage' = [stage EXCEPT ![u] = "ended"]
    BY <1>6 DEF Exit, session
  <2> QED
    BY <2>1, ReleaseKeeps DEF IInv, ConnTypes
<1>7. CASE UNCHANGED vars
  BY <1>7 DEF vars, session, IInv, ConnTypes, IdleIsDisconnected, TenantBound,
              PoolIsClean, IsAdmin
<1> QED
  BY <1>1, <1>2, <1>3, <1>4, <1>5, <1>6, <1>7 DEF Next, Step, Fault

(* No statement of a tenant's unit ever runs under another tenant's setting *)
(* or under none, in any of its transactions (uow.py:34-50, 54-69, 78-117).  *)
THEOREM TenantIsolation == Spec => []TenantBound
<1>1. IInv => TenantBound
  BY DEF IInv
<1> QED
  BY InitIInv, StepKeeps, <1>1, PTL DEF Spec

-----------------------------------------------------------------------------
(* What the units write.  A unit's own state follows its script.             *)

At(u, k, first, last) == stage[u] = "main" /\ kind[u] = k /\ pc[u] \in first..last

(* The number of changes it has made by each position.                       *)
Numbered(u) ==
  /\ stage[u] = "idle" \/ (stage[u] = "main" /\ pc[u] <= 2) => made[u] = 0
  /\ \/ At(u, "upload", 3, 7) \/ At(u, "reingest", 3, 6) \/ At(u, "delete", 3, 5)
     \/ At(u, "chat", 3, 7) \/ At(u, "ingest", 3, 4)
     => made[u] = 1
  /\ At(u, "chat", 8, 10) \/ At(u, "ingest", 5, 7) => made[u] = 2

(* When the entity can have events, and when it has none; an entity that was  *)
(* flushed is not scanned for them.                                           *)
Recorded(u) ==
  /\ \/ stage[u] \in {"idle", "handler"} \/ kind[u] \in {"delete", "chat"}
     \/ (stage[u] = "main" /\ pc[u] <= 3) \/ At(u, "ingest", 1, 5)
     => events[u] = {}
  /\ At(u, "upload", 6, 6) \/ At(u, "reingest", 5, 5) => object[u] = "clean"
  /\ object[u] = "deleted" => kind[u] = "delete"

(* The last change of the worker's main script, its ACTIVE document, is        *)
(* pending with its event until they are committed; the except branch knows    *)
(* neither.                                                                    *)
ReadyTogether(u) ==
  /\ At(u, "ingest", 1, 6) => stored[u] = {} /\ outbox[u][2] = 0
  /\ At(u, "ingest", 5, 6) => object[u] = "dirty" /\ 2 \in memory[u]
  /\ At(u, "ingest", 6, 6) => events[u] = {2}
  /\ stage[u] = "handler" => memory[u] \subseteq {3} /\ inTx[u] = {} /\ stored[u] \subseteq {3}
  /\ kind[u] = "ingest" /\ 2 \in stored[u] => outbox[u][2] = 1

OnScript(u) ==
  /\ stage[u] = "idle" => pc[u] = 1 /\ stored[u] = {} /\ outbox[u][2] = 0 /\ object[u] = "none"
  /\ stage[u] = "handler" => kind[u] = "ingest"
  /\ Numbered(u) /\ Recorded(u) /\ ReadyTogether(u)

ScriptInv == TypeOK /\ pc \in [Unit -> Nat] /\ \A u \in Unit : OnScript(u)

LEMMA ScriptLengths ==
  ASSUME NEW k \in Kind
  PROVE  /\ Len(Script[k]) \in Nat /\ Len(Script["ingest"]) = 6 /\ Len(Handler) = 3
<1>1. CASE k = "upload"
  BY <1>1 DEF Script, UploadCalls, IngestCalls, Handler
<1>2. CASE k = "reingest"
  BY <1>2 DEF Script, ReingestCalls, IngestCalls, Handler
<1>3. CASE k = "delete"
  BY <1>3 DEF Script, DeleteCalls, IngestCalls, Handler
<1>4. CASE k = "chat"
  BY <1>4 DEF Script, ChatCalls, IngestCalls, Handler
<1>5. CASE k = "ingest"
  BY <1>5 DEF Script, IngestCalls, Handler
<1> QED
  BY <1>1, <1>2, <1>3, <1>4, <1>5 DEF Kind

(* The positions of the calls. *)
LEMMA ScriptPositions ==
  ASSUME NEW u \in Unit, kind[u] \in Kind, pc[u] \in Nat \ {0},
         stage[u] = "handler" => kind[u] = "ingest"
  PROVE  /\ Calling(u, "select") =>
              (stage[u] = "main" /\ pc[u] = 1) \/ At(u, "chat", 6, 6)
              \/ (stage[u] = "handler" /\ pc[u] = 1)
         /\ Calling(u, "construct") => At(u, "upload", 2, 2) \/ At(u, "chat", 2, 2)
         /\ Calling(u, "modify") =>
              At(u, "reingest", 2, 2) \/ At(u, "chat", 7, 7) \/ At(u, "ingest", 2, 2)
              \/ At(u, "ingest", 4, 4) \/ (stage[u] = "handler" /\ pc[u] = 2)
         /\ Calling(u, "delete") => At(u, "delete", 2, 2)
         /\ Calling(u, "add") => At(u, "upload", 4, 4) \/ At(u, "chat", 3, 3)
         /\ Calling(u, "record") =>
              At(u, "upload", 3, 3) \/ At(u, "reingest", 3, 3) \/ At(u, "ingest", 5, 5)
         /\ Calling(u, "flush") =>
              At(u, "upload", 5, 5) \/ At(u, "reingest", 4, 4) \/ At(u, "delete", 3, 3)
              \/ At(u, "chat", 4, 4) \/ At(u, "chat", 8, 8) \/ At(u, "ingest", 3, 3)
         /\ Calling(u, "commit") =>
              At(u, "upload", 6, 6) \/ At(u, "reingest", 5, 5) \/ At(u, "delete", 4, 4)
              \/ At(u, "chat", 5, 5) \/ At(u, "chat", 9, 9) \/ At(u, "ingest", 6, 6)
              \/ (stage[u] = "handler" /\ pc[u] = 3)
         /\ At(u, "ingest", 6, 6) => Calling(u, "commit")
<1> USE DEF Calling, Running, At
<1>1. CASE stage[u] = "handler"
  <2>1. Calls(u) = Handler
    BY <1>1 DEF Calls
  <2> QED
    BY <1>1, <2>1 DEF Handler
<1>2. CASE stage[u] # "handler" /\ kind[u] = "upload"
  <2>1. Calls(u) = UploadCalls
    BY <1>2 DEF Calls, Script
  <2> QED
    BY <1>2, <2>1 DEF UploadCalls
<1>3. CASE stage[u] # "handler" /\ kind[u] = "reingest"
  <2>1. Calls(u) = ReingestCalls
    BY <1>3 DEF Calls, Script
  <2> QED
    BY <1>3, <2>1 DEF ReingestCalls
<1>4. CASE stage[u] # "handler" /\ kind[u] = "delete"
  <2>1. Calls(u) = DeleteCalls
    BY <1>4 DEF Calls, Script
  <2> QED
    BY <1>4, <2>1 DEF DeleteCalls
<1>5. CASE stage[u] # "handler" /\ kind[u] = "chat"
  <2>1. Calls(u) = ChatCalls
    BY <1>5 DEF Calls, Script
  <2> QED
    BY <1>5, <2>1 DEF ChatCalls
<1>6. CASE stage[u] # "handler" /\ kind[u] = "ingest"
  <2>1. Calls(u) = IngestCalls
    BY <1>6 DEF Calls, Script
  <2> QED
    BY <1>6, <2>1 DEF IngestCalls
<1> QED
  BY <1>1, <1>2, <1>3, <1>4, <1>5, <1>6 DEF Kind

-----------------------------------------------------------------------------
(* A step of one unit. *)

ObjectState == {"none", "clean", "transient", "new", "dirty", "deleted", "gone"}

UnitTypes(u) ==
  /\ pc[u] \in 1..Len(Calls(u)) + 1
  /\ object[u] \in ObjectState /\ made[u] \in 0..3
  /\ memory[u] \in SUBSET Change /\ inTx[u] \in SUBSET Change
  /\ events[u] \in SUBSET Change /\ stored[u] \in SUBSET Change
  /\ outbox[u] \in [Change -> Nat]

Fields ==
  /\ stage \in [Unit -> {"idle", "main", "handler", "ended"}]
  /\ kind \in [Unit -> Kind] /\ pc \in [Unit -> Nat]
  /\ object \in [Unit -> ObjectState] /\ made \in [Unit -> 0..3]
  /\ memory \in [Unit -> SUBSET Change] /\ inTx \in [Unit -> SUBSET Change]
  /\ events \in [Unit -> SUBSET Change] /\ stored \in [Unit -> SUBSET Change]
  /\ outbox \in [Unit -> [Change -> Nat]]

LEMMA UnitFacts ==
  ASSUME ScriptInv, NEW u \in Unit
  PROVE  /\ Fields /\ UnitTypes(u) /\ OnScript(u) /\ pc[u] \in Nat \ {0} /\ kind[u] \in Kind
         /\ stage[u] \in {"idle", "main", "handler", "ended"}
BY DEF ScriptInv, TypeOK, Fields, UnitTypes, ObjectState

UnitSame(w) ==
  /\ stage'[w] = stage[w] /\ kind'[w] = kind[w] /\ pc'[w] = pc[w]
  /\ object'[w] = object[w] /\ made'[w] = made[w] /\ memory'[w] = memory[w]
  /\ inTx'[w] = inTx[w] /\ events'[w] = events[w] /\ stored'[w] = stored[w]
  /\ outbox'[w] = outbox[w]

OnlyAt(u) == \A w \in Unit \ {u} : UnitSame(w)

LEMMA OneUnit ==
  ASSUME ScriptInv, IInv', NEW u \in Unit, OnlyAt(u), Fields',
         pc'[u] \in 1..Len(Calls(u)') + 1, OnScript(u)'
  PROVE  ScriptInv'
<1>1. ASSUME NEW w \in Unit \ {u} PROVE UnitSame(w)
  BY DEF OnlyAt
<1>2. \A w \in Unit : OnScript(w)'
  <2>1. ASSUME NEW w \in Unit \ {u} PROVE OnScript(w)'
    <3>1. OnScript(w)
      BY UnitFacts
    <3>2. \A k, i, j : At(w, k, i, j)' <=> At(w, k, i, j)
      BY <1>1 DEF At, UnitSame
    <3>3. Numbered(w)'
      BY <1>1, <3>1, <3>2 DEF OnScript, Numbered, UnitSame
    <3>4. Recorded(w)'
      BY <1>1, <3>1, <3>2 DEF OnScript, Recorded, UnitSame
    <3>5. ReadyTogether(w)'
      BY <1>1, <3>1, <3>2 DEF OnScript, ReadyTogether, UnitSame
    <3> QED
      BY <1>1, <3>1, <3>3, <3>4, <3>5 DEF OnScript, UnitSame
  <2> QED
    BY <2>1
<1>3. \A w \in Unit : pc'[w] \in 1..Len(Calls(w)') + 1
  <2>1. ASSUME NEW w \in Unit \ {u} PROVE pc'[w] \in 1..Len(Calls(w)') + 1
    BY <1>1, UnitFacts DEF UnitTypes, Calls, UnitSame
  <2> QED
    BY <2>1
<1>4. TypeOK'
  BY <1>3 DEF Fields, TypeOK, IInv, ConnTypes, ObjectState
<1> QED
  BY <1>2, <1>4 DEF ScriptInv, Fields

(* The next call: the script and its length stay. *)
LEMMA AdvanceTypes ==
  ASSUME ScriptInv, NEW u \in Unit, NEW call, Calling(u, call), Advance(u), UNCHANGED kind
  PROVE  /\ pc'[u] = pc[u] + 1 /\ pc'[u] \in 1..Len(Calls(u)') + 1
         /\ stage' = stage /\ kind' = kind /\ pc' \in [Unit -> Nat]
         /\ \A w \in Unit \ {u} : pc'[w] = pc[w]
<1>1. Fields /\ pc[u] \in Nat \ {0} /\ Len(Calls(u)) \in Nat
  <2>1. Fields /\ pc[u] \in Nat \ {0} /\ kind[u] \in Kind
    BY UnitFacts
  <2> QED
    BY <2>1, ScriptLengths DEF Calls
<1>2. pc' = [pc EXCEPT ![u] = pc[u] + 1] /\ stage' = stage /\ kind' = kind
  BY DEF Advance
<1>3. Calls(u)' = Calls(u) /\ pc[u] <= Len(Calls(u))
  BY <1>2 DEF Calls, Calling
<1>4. pc[u] + 1 \in Nat
  BY <1>1
<1> QED
  BY <1>1, <1>2, <1>3, <1>4 DEF Fields

LEMMA StartKeepsScript ==
  ASSUME ScriptInv, IInv', NEW u \in Unit, Start(u)
  PROVE  ScriptInv'
<1>1. Fields /\ UnitTypes(u) /\ OnScript(u) /\ stage[u] = "idle"
  BY UnitFacts DEF Start
<1>2. /\ \E k \in Kind : kind' = [kind EXCEPT ![u] = k]
      /\ stage' = [stage EXCEPT ![u] = "main"]
      /\ UNCHANGED <<pc, object, made, memory, inTx, events, stored, outbox>>
  BY DEF Start
<1>3. stage'[u] = "main" /\ kind'[u] \in Kind /\ pc'[u] = 1
  BY <1>1, <1>2 DEF Fields, OnScript
<1>4. OnlyAt(u) /\ Fields'
  BY <1>1, <1>2 DEF OnlyAt, UnitSame, Fields
<1>5. Len(Calls(u)') \in Nat
  BY <1>3, ScriptLengths DEF Calls
<1>6. OnScript(u)'
  BY <1>1, <1>2, <1>3 DEF OnScript, Numbered, Recorded, ReadyTogether, At
<1> QED
  BY <1>3, <1>4, <1>5, <1>6, OneUnit

(* A step that leaves what the units write alone.                             *)
LEMMA OtherwiseKeepsScript ==
  ASSUME ScriptInv, IInv', UNCHANGED <<stage, pc, session, stored, outbox>>
  PROVE  ScriptInv'
<1>1. UNCHANGED <<stage, pc, kind, object, made, memory, inTx, events, stored, outbox>>
  BY DEF session
<1>2. TypeOK'
  BY <1>1 DEF ScriptInv, TypeOK, Calls, IInv, ConnTypes
<1>3. \A u \in Unit : OnScript(u)'
  BY <1>1 DEF ScriptInv, OnScript, Numbered, Recorded, ReadyTogether, At
<1> QED
  BY <1>1, <1>2, <1>3 DEF ScriptInv

LEMMA SelectKeepsScript ==
  ASSUME ScriptInv, IInv', NEW u \in Unit, Select(u)
  PROVE  ScriptInv'
<1>1. /\ Fields /\ UnitTypes(u) /\ OnScript(u) /\ pc[u] \in Nat \ {0} /\ kind[u] \in Kind
      /\ Calling(u, "select") /\ Advance(u)
      /\ UNCHANGED <<kind, made, memory, inTx, events, stored, outbox>>
  BY UnitFacts DEF Select
<1>2. /\ pc'[u] = pc[u] + 1 /\ pc'[u] \in 1..Len(Calls(u)') + 1
      /\ stage'[u] = stage[u] /\ kind'[u] = kind[u]
  BY <1>1, AdvanceTypes
<1>3. PICK o \in ObjectState : /\ object' = [object EXCEPT ![u] = o]
                               /\ o = IF object[u] = "none" THEN "clean" ELSE object[u]
  BY <1>1 DEF Select, ObjectState, UnitTypes
<1>4. OnlyAt(u) /\ Fields' /\ object'[u] = o
  BY <1>1, <1>3, AdvanceTypes DEF OnlyAt, UnitSame, Fields
<1>5. \/ stage[u] = "main" /\ pc[u] = 1
      \/ At(u, "chat", 6, 6)
      \/ stage[u] = "handler" /\ pc[u] = 1
  BY <1>1, ScriptPositions DEF OnScript
<1>6. OnScript(u)'
  BY <1>1, <1>2, <1>3, <1>4, <1>5 DEF OnScript, Numbered, Recorded, ReadyTogether, At
<1> QED
  BY <1>2, <1>4, <1>6, OneUnit

LEMMA MutateKeepsScript ==
  ASSUME ScriptInv, IInv', NEW u \in Unit, Construct(u) \/ Modify(u) \/ Delete(u)
  PROVE  ScriptInv'
<1>1. /\ Fields /\ UnitTypes(u) /\ OnScript(u) /\ pc[u] \in Nat \ {0} /\ kind[u] \in Kind
  BY UnitFacts
<1>2. PICK o \in {"transient", "dirty", "deleted"} :
        /\ Mutate(u, o)
        /\ o = "transient" => Calling(u, "construct")
        /\ o = "dirty" => Calling(u, "modify")
        /\ o = "deleted" => Calling(u, "delete")
  BY DEF Construct, Modify, Delete
<1>3. /\ Advance(u) /\ object' = [object EXCEPT ![u] = o] /\ o \in ObjectState
      /\ made' = [made EXCEPT ![u] = NewChange(u)]
      /\ memory' = [memory EXCEPT ![u] = memory[u] \cup {NewChange(u)}]
      /\ UNCHANGED <<kind, inTx, events, stored, outbox>>
  BY <1>2 DEF Mutate, ObjectState
<1>4. /\ pc'[u] = pc[u] + 1 /\ pc'[u] \in 1..Len(Calls(u)') + 1
      /\ stage'[u] = stage[u] /\ kind'[u] = kind[u]
  BY <1>2, <1>3, AdvanceTypes
<1>5. \/ At(u, "upload", 2, 2) /\ o = "transient"
      \/ At(u, "chat", 2, 2) /\ o = "transient"
      \/ At(u, "reingest", 2, 2) /\ o = "dirty"
      \/ At(u, "chat", 7, 7) /\ o = "dirty"
      \/ At(u, "ingest", 2, 2) /\ o = "dirty"
      \/ At(u, "ingest", 4, 4) /\ o = "dirty"
      \/ stage[u] = "handler" /\ pc[u] = 2 /\ o = "dirty"
      \/ At(u, "delete", 2, 2) /\ o = "deleted"
  BY <1>1, <1>2, ScriptPositions DEF OnScript
<1>6. /\ stage[u] = "handler" => NewChange(u) = 3
      /\ At(u, "chat", 7, 7) \/ At(u, "ingest", 4, 4) => NewChange(u) = 2
      /\ (\E k \in Kind : At(u, k, 2, 2)) => NewChange(u) = 1
  BY <1>1 DEF OnScript, Numbered, At, NewChange
<1>7. NewChange(u) \in Change
  BY <1>5, <1>6 DEF Change, Kind
<1>8. /\ object'[u] = o /\ made'[u] = NewChange(u) /\ memory'[u] = memory[u] \cup {NewChange(u)}
      /\ NewChange(u) \in 0..3 /\ memory[u] \cup {NewChange(u)} \in SUBSET Change
  BY <1>1, <1>3, <1>7 DEF Fields, Change
<1>9. OnlyAt(u) /\ Fields'
  BY <1>1, <1>2, <1>3, <1>8, AdvanceTypes DEF OnlyAt, UnitSame, Fields
<1>10. Numbered(u)'
  BY <1>1, <1>4, <1>5, <1>6, <1>8 DEF Numbered, At, Kind
<1>11. Recorded(u)'
  BY <1>1, <1>3, <1>4, <1>5, <1>8 DEF OnScript, Recorded, At
<1>12. ReadyTogether(u)'
  BY <1>1, <1>3, <1>4, <1>5, <1>6, <1>8 DEF OnScript, Recorded, ReadyTogether, At
<1>13. OnScript(u)'
  BY <1>1, <1>4, <1>5, <1>10, <1>11, <1>12 DEF OnScript, At
<1> QED
  BY <1>4, <1>9, <1>13, OneUnit

LEMMA AddOrRecordKeepsScript ==
  ASSUME ScriptInv, IInv', NEW u \in Unit, Add(u) \/ RecordEvent(u)
  PROVE  ScriptInv'
<1>1. /\ Fields /\ UnitTypes(u) /\ OnScript(u) /\ pc[u] \in Nat \ {0} /\ kind[u] \in Kind
  BY UnitFacts
<1>2. CASE Add(u)
  <2>1. /\ Calling(u, "add") /\ Advance(u) /\ object' = [object EXCEPT ![u] = "new"]
        /\ UNCHANGED <<kind, made, memory, inTx, events, stored, outbox>>
    BY <1>2 DEF Add
  <2>2. /\ pc'[u] = pc[u] + 1 /\ pc'[u] \in 1..Len(Calls(u)') + 1
        /\ stage'[u] = stage[u] /\ kind'[u] = kind[u] /\ object'[u] = "new"
    BY <1>1, <2>1, AdvanceTypes DEF Fields
  <2>3. OnlyAt(u) /\ Fields'
    BY <1>1, <2>1, AdvanceTypes DEF OnlyAt, UnitSame, Fields, ObjectState
  <2>4. At(u, "upload", 4, 4) \/ At(u, "chat", 3, 3)
    BY <1>1, <2>1, ScriptPositions DEF OnScript
  <2>5. OnScript(u)'
    BY <1>1, <2>1, <2>2, <2>4 DEF OnScript, Numbered, Recorded, ReadyTogether, At
  <2> QED
    BY <2>2, <2>3, <2>5, OneUnit
<1>3. CASE RecordEvent(u)
  <2>1. /\ Calling(u, "record") /\ Advance(u)
        /\ events' = [events EXCEPT ![u] = events[u] \cup {made[u]}]
        /\ UNCHANGED <<kind, object, made, memory, inTx, stored, outbox>>
    BY <1>3 DEF RecordEvent
  <2>2. At(u, "upload", 3, 3) \/ At(u, "reingest", 3, 3) \/ At(u, "ingest", 5, 5)
    BY <1>1, <2>1, ScriptPositions DEF OnScript
  <2>3. PICK e \in SUBSET Change : e = events[u] \cup {made[u]}
    <3>1. made[u] \in {1, 2}
      BY <1>1, <2>2 DEF OnScript, Numbered, At
    <3>2. made[u] \in Change
      BY <3>1 DEF Change
    <3> QED
      BY <1>1, <3>2 DEF UnitTypes
  <2>4. /\ pc'[u] = pc[u] + 1 /\ pc'[u] \in 1..Len(Calls(u)') + 1
        /\ stage'[u] = stage[u] /\ kind'[u] = kind[u] /\ events'[u] = e
    BY <1>1, <2>1, <2>3, AdvanceTypes DEF Fields
  <2>5. OnlyAt(u) /\ Fields'
    BY <1>1, <2>1, <2>3, AdvanceTypes DEF OnlyAt, UnitSame, Fields
  <2>6. OnScript(u)'
    BY <1>1, <2>1, <2>2, <2>3, <2>4 DEF OnScript, Numbered, Recorded, ReadyTogether, At
  <2> QED
    BY <2>4, <2>5, <2>6, OneUnit
<1> QED
  BY <1>2, <1>3

LEMMA FlushKeepsScript ==
  ASSUME ScriptInv, IInv', NEW u \in Unit, Flush(u)
  PROVE  ScriptInv'
<1>1. /\ Fields /\ UnitTypes(u) /\ OnScript(u) /\ pc[u] \in Nat \ {0} /\ kind[u] \in Kind
      /\ Calling(u, "flush") /\ Advance(u)
      /\ UNCHANGED <<kind, made, events, stored, outbox>>
  BY UnitFacts DEF Flush
<1>2. PICK o \in ObjectState : /\ object' = [object EXCEPT ![u] = o]
                               /\ o = IF object[u] = "deleted" THEN "gone" ELSE "clean"
  BY DEF Flush, ObjectState
<1>3. PICK m \in SUBSET Change : inTx' = [inTx EXCEPT ![u] = m]
  BY <1>1 DEF Flush, UnitTypes
<1>4. memory' = [memory EXCEPT ![u] = {}]
  BY DEF Flush
<1>5. /\ pc'[u] = pc[u] + 1 /\ pc'[u] \in 1..Len(Calls(u)') + 1
      /\ stage'[u] = stage[u] /\ kind'[u] = kind[u] /\ object'[u] = o /\ memory'[u] = {}
  BY <1>1, <1>2, <1>4, AdvanceTypes DEF Fields
<1>6. OnlyAt(u) /\ Fields'
  BY <1>1, <1>2, <1>3, <1>4, AdvanceTypes DEF OnlyAt, UnitSame, Fields
<1>7. \/ At(u, "upload", 5, 5) \/ At(u, "reingest", 4, 4) \/ At(u, "delete", 3, 3)
      \/ At(u, "chat", 4, 4) \/ At(u, "chat", 8, 8) \/ At(u, "ingest", 3, 3)
  BY <1>1, ScriptPositions DEF OnScript
<1>8. OnScript(u)'
  BY <1>1, <1>2, <1>5, <1>7 DEF OnScript, Numbered, Recorded, ReadyTogether, At
<1> QED
  BY <1>5, <1>6, <1>8, OneUnit

-----------------------------------------------------------------------------
(* The ends of a transaction. *)

(* The only commit that finds events is the last one of the worker's main       *)
(* script: the entity of the other scripts was flushed, or recorded none.       *)
LEMMA CommitCollects ==
  ASSUME ScriptInv, NEW u \in Unit, Calling(u, "commit")
  PROVE  \/ Collected(u) = {} /\ ~At(u, "ingest", 6, 6)
         \/ /\ At(u, "ingest", 6, 6) /\ Tracked(u) /\ Collected(u) = {2}
            /\ 2 \in memory[u] /\ stored[u] = {} /\ outbox[u][2] = 0
<1>1. OnScript(u) /\ pc[u] \in Nat \ {0} /\ kind[u] \in Kind
  BY UnitFacts
<1>2. \/ At(u, "upload", 6, 6) \/ At(u, "reingest", 5, 5) \/ At(u, "delete", 4, 4)
      \/ At(u, "chat", 5, 5) \/ At(u, "chat", 9, 9) \/ At(u, "ingest", 6, 6)
      \/ stage[u] = "handler"
  BY <1>1, ScriptPositions DEF OnScript
<1>3. CASE At(u, "ingest", 6, 6)
  <2>1. object[u] = "dirty" /\ events[u] = {2} /\ 2 \in memory[u] /\ stored[u] = {}
        /\ outbox[u][2] = 0
    BY <1>1, <1>3 DEF OnScript, ReadyTogether, At
  <2> QED
    BY <1>3, <2>1 DEF Collected, Tracked
<1>4. CASE ~At(u, "ingest", 6, 6)
  <2>1. events[u] = {} \/ object[u] = "clean"
    BY <1>1, <1>2, <1>4 DEF OnScript, Recorded, At
  <2> QED
    BY <1>4, <2>1 DEF Collected, Tracked
<1> QED
  BY <1>3, <1>4

LEMMA CommitOutbox ==
  ASSUME ScriptInv, NEW u \in Unit, Commit(u)
  PROVE  /\ outbox' \in [Unit -> [Change -> Nat]]
         /\ \A w \in Unit \ {u} : outbox'[w] = outbox[w]
         /\ \A n \in Change : outbox'[u][n] = outbox[u][n] + (IF n \in Collected(u) THEN 1 ELSE 0)
<1>1. outbox \in [Unit -> [Change -> Nat]]
  BY UnitFacts DEF Fields
<1>2. [n \in Change |-> outbox[u][n] + (IF n \in Collected(u) THEN 1 ELSE 0)]
      \in [Change -> Nat]
  BY <1>1
<1>3. outbox' = [outbox EXCEPT ![u] =
                   [n \in Change |-> outbox[u][n] + (IF n \in Collected(u) THEN 1 ELSE 0)]]
  BY DEF Commit
<1> QED
  BY <1>1, <1>2, <1>3

LEMMA CommitKeepsScript ==
  ASSUME ScriptInv, IInv', NEW u \in Unit, Commit(u)
  PROVE  ScriptInv'
<1>1. /\ Fields /\ UnitTypes(u) /\ OnScript(u) /\ pc[u] \in Nat \ {0} /\ kind[u] \in Kind
      /\ Calling(u, "commit") /\ Advance(u) /\ UNCHANGED <<kind, made>>
  BY UnitFacts DEF Commit
<1>2. PICK s \in SUBSET Change : /\ s = stored[u] \cup memory[u] \cup inTx[u]
                                 /\ stored' = [stored EXCEPT ![u] = s]
  BY <1>1 DEF Commit, UnitTypes
<1>3. PICK e \in SUBSET Change : /\ e = IF Tracked(u) THEN {} ELSE events[u]
                                 /\ events' = [events EXCEPT ![u] = e]
  BY <1>1 DEF Commit, UnitTypes, AfterPull
<1>4. PICK o \in {"gone", "clean"} : object' = [object EXCEPT ![u] = o]
  BY DEF Commit
<1>5. memory' = [memory EXCEPT ![u] = {}] /\ inTx' = [inTx EXCEPT ![u] = {}]
  BY DEF Commit
<1>6. /\ pc'[u] = pc[u] + 1 /\ pc'[u] \in 1..Len(Calls(u)') + 1
      /\ stage' = stage /\ kind' = kind
      /\ stored'[u] = s /\ events'[u] = e /\ object'[u] = o
      /\ memory'[u] = {} /\ inTx'[u] = {} /\ made'[u] = made[u]
  BY <1>1, <1>2, <1>3, <1>4, <1>5, AdvanceTypes DEF Fields
<1>7. OnlyAt(u) /\ Fields'
  BY <1>1, <1>2, <1>3, <1>4, <1>5, AdvanceTypes, CommitOutbox
     DEF OnlyAt, UnitSame, Fields, ObjectState
<1>8. \/ At(u, "upload", 6, 6) \/ At(u, "reingest", 5, 5) \/ At(u, "delete", 4, 4)
      \/ At(u, "chat", 5, 5) \/ At(u, "chat", 9, 9) \/ At(u, "ingest", 6, 6)
      \/ (stage[u] = "handler" /\ pc[u] = 3)
  BY <1>1, ScriptPositions DEF OnScript
<1>9. At(u, "ingest", 6, 6) => outbox'[u][2] = 1
  <2> SUFFICES ASSUME At(u, "ingest", 6, 6) PROVE outbox'[u][2] = 1
    OBVIOUS
  <2>1. 2 \in Collected(u) /\ outbox[u][2] = 0
    BY <1>1, CommitCollects
  <2>2. 2 \in Change
    BY DEF Change
  <2> QED
    BY <2>1, <2>2, CommitOutbox
<1>10. Numbered(u)'
  BY <1>1, <1>6, <1>8 DEF OnScript, Numbered, At
<1>11. Recorded(u)'
  BY <1>1, <1>3, <1>6, <1>8 DEF OnScript, Recorded, At
<1>12. ReadyTogether(u)'
  BY <1>1, <1>2, <1>6, <1>8, <1>9 DEF OnScript, ReadyTogether, At
<1> QED
  BY <1>1, <1>6, <1>7, <1>8, <1>10, <1>11, <1>12, OneUnit DEF OnScript, At

(* A session that is rolled back: only the except branch, which has no event    *)
(* of the failed run, goes on.                                                  *)
LEMMA RollbackKeepsScript ==
  ASSUME ScriptInv, IInv', NEW u \in Unit, RolledBack(u),
         NEW s \in {"handler", "ended"}, stage' = [stage EXCEPT ![u] = s],
         NEW i \in Nat, pc' = [pc EXCEPT ![u] = i], i \in 1..Len(Calls(u)') + 1,
         NEW e \in {{}, events[u]}, events' = [events EXCEPT ![u] = e],
         s = "handler" => e = {} /\ kind[u] = "ingest" /\ stored[u] = {}
  PROVE  ScriptInv'
<1>1. Fields /\ UnitTypes(u) /\ OnScript(u)
  BY UnitFacts
<1>2. /\ memory' = [memory EXCEPT ![u] = {}] /\ inTx' = [inTx EXCEPT ![u] = {}]
      /\ object' = [object EXCEPT ![u] = "none"]
      /\ UNCHANGED <<kind, made, stored, outbox>>
  BY DEF RolledBack
<1>3. e \in SUBSET Change
  BY <1>1 DEF UnitTypes
<1>4. OnlyAt(u) /\ Fields'
  BY <1>1, <1>2, <1>3 DEF OnlyAt, UnitSame, Fields, ObjectState
<1>5. /\ stage'[u] = s /\ pc'[u] = i /\ events'[u] = e
      /\ memory'[u] = {} /\ inTx'[u] = {} /\ object'[u] = "none"
  BY <1>1, <1>2 DEF Fields
<1>6. OnScript(u)'
  BY <1>1, <1>2, <1>5 DEF OnScript, Numbered, Recorded, ReadyTogether, At
<1> QED
  BY <1>4, <1>5, <1>6, OneUnit

LEMMA EndPosition ==
  ASSUME ScriptInv, NEW u \in Unit, stage' = [stage EXCEPT ![u] = "ended"], UNCHANGED kind,
         Running(u)
  PROVE  pc[u] \in 1..Len(Calls(u)') + 1
<1>1. Fields /\ UnitTypes(u) /\ OnScript(u) /\ kind[u] \in Kind /\ pc[u] \in Nat \ {0}
  BY UnitFacts
<1>2. Calls(u)' = Script[kind[u]]
  BY <1>1 DEF Calls, Fields
<1>3. CASE stage[u] = "handler"
  <2>1. Calls(u) = Handler /\ Calls(u)' = Script["ingest"]
    BY <1>1, <1>2, <1>3 DEF OnScript, Calls
  <2>2. Len(Handler) = 3 /\ Len(Script["ingest"]) = 6
    BY <1>1, ScriptLengths
  <2>3. pc[u] \in 1..4
    BY <1>1, <2>1, <2>2 DEF UnitTypes
  <2> QED
    BY <2>1, <2>2, <2>3
<1>4. CASE stage[u] = "main"
  BY <1>1, <1>2, <1>4 DEF UnitTypes, Calls
<1> QED
  BY <1>3, <1>4 DEF Running

LEMMA FaultKeepsScript ==
  ASSUME ScriptInv, IInv', NEW u \in Unit, Fault(u)
  PROVE  ScriptInv'
<1>1. /\ Fields /\ OnScript(u) /\ kind[u] \in Kind /\ pc[u] \in Nat \ {0}
      /\ RolledBack(u) /\ Running(u)
  BY UnitFacts DEF Fault, CommitFails, Raise, Abort, Calling
<1>2. CASE CommitFails(u) \/ Raise(u)
  <2>1. PICK s \in {"handler", "ended"} : /\ stage' = [stage EXCEPT ![u] = s]
                                          /\ s = "handler" => Caught(u)
    BY <1>2 DEF CommitFails, Raise, Unwind
  <2>2. pc' = [pc EXCEPT ![u] = 1] /\ pc[u] <= Len(Calls(u))
    BY <1>2 DEF CommitFails, Raise, Unwind, Calling
  <2>3. 1 \in 1..Len(Calls(u)') + 1
    <3>1. stage'[u] = s /\ kind'[u] = kind[u]
      BY <1>1, <2>1 DEF Fields, RolledBack
    <3>2. Len(Calls(u)') \in Nat
      BY <1>1, <3>1, ScriptLengths DEF Calls
    <3> QED
      BY <3>2
  <2>4. PICK e \in {{}, events[u]} : /\ events' = [events EXCEPT ![u] = e]
                                     /\ CommitFails(u) /\ Tracked(u) => e = {}
    <3>1. events = [events EXCEPT ![u] = events[u]]
      BY <1>1 DEF Fields
    <3>2. CASE CommitFails(u)
      BY <3>2 DEF CommitFails, AfterPull
    <3>3. CASE Raise(u) /\ ~CommitFails(u)
      BY <3>1, <3>3 DEF Raise
    <3> QED
      BY <1>2, <3>2, <3>3
  <2>5. Caught(u) => e = {} /\ kind[u] = "ingest" /\ stored[u] = {}
    <3> SUFFICES ASSUME Caught(u) PROVE e = {} /\ kind[u] = "ingest" /\ stored[u] = {}
      OBVIOUS
    <3>1. Len(Calls(u)) = 6
      BY <1>1, ScriptLengths DEF Caught, Calls
    <3>2. At(u, "ingest", 1, 6)
      BY <1>1, <2>2, <3>1 DEF Caught, At
    <3>3. CASE CommitFails(u)
      BY <1>1, <2>4, <3>2, <3>3, ScriptPositions, CommitCollects
         DEF CommitFails, OnScript, ReadyTogether, At
    <3>4. CASE Raise(u)
      <4>1. ~At(u, "ingest", 6, 6)
        BY <1>1, <3>4, ScriptPositions DEF Raise, OnScript
      <4>2. At(u, "ingest", 1, 5)
        BY <1>1, <3>2, <4>1 DEF At
      <4> QED
        BY <1>1, <3>2, <4>2 DEF OnScript, Recorded, ReadyTogether, At
    <3> QED
      BY <1>2, <3>3, <3>4
  <2> QED
    BY <1>1, <2>1, <2>2, <2>3, <2>4, <2>5, RollbackKeepsScript
<1>3. CASE Abort(u)
  <2>1. /\ stage' = [stage EXCEPT ![u] = "ended"] /\ UNCHANGED <<pc, events, kind>>
    BY <1>3 DEF Abort, RolledBack
  <2>2. pc' = [pc EXCEPT ![u] = pc[u]] /\ events' = [events EXCEPT ![u] = events[u]]
    BY <1>1, <2>1 DEF Fields
  <2>3. pc[u] \in 1..Len(Calls(u)') + 1
    BY <1>1, <2>1, EndPosition
  <2> QED
    BY <1>1, <2>1, <2>2, <2>3, RollbackKeepsScript
<1> QED
  BY <1>2, <1>3 DEF Fault

LEMMA ExitKeepsScript ==
  ASSUME ScriptInv, IInv', NEW u \in Unit, Exit(u)
  PROVE  ScriptInv'
<1>1. /\ Fields /\ UnitTypes(u) /\ OnScript(u) /\ Running(u)
      /\ stage' = [stage EXCEPT ![u] = "ended"]
      /\ UNCHANGED <<pc, kind, object, made, memory, inTx, events, stored, outbox>>
  BY UnitFacts DEF Exit, session
<1>2. OnlyAt(u) /\ Fields' /\ stage'[u] = "ended"
  BY <1>1 DEF OnlyAt, UnitSame, Fields
<1>3. pc'[u] \in 1..Len(Calls(u)') + 1
  BY <1>1, EndPosition
<1>4. OnScript(u)'
  BY <1>1, <1>2 DEF OnScript, Numbered, Recorded, ReadyTogether, At
<1> QED
  BY <1>2, <1>3, <1>4, OneUnit

LEMMA InitScript == Init => ScriptInv
<1> SUFFICES ASSUME Init PROVE ScriptInv
  OBVIOUS
<1>1. TypeOK
  <2>1. \A u \in Unit : Calls(u) = Script["chat"]
    BY DEF Init, Calls
  <2>2. Len(Script["chat"]) \in Nat
    BY ScriptLengths DEF Kind
  <2>3. \A u \in Unit : pc[u] \in 1..Len(Calls(u)) + 1
    <3>1. 1 \in 1..Len(Script["chat"]) + 1
      BY <2>2
    <3> QED
      BY <2>1, <3>1 DEF Init
  <2> QED
    BY <2>3, InitIInv DEF Init, TypeOK, IInv, ConnTypes, Kind
<1>2. pc \in [Unit -> Nat]
  BY DEF Init
<1>3. \A u \in Unit : OnScript(u)
  <2> SUFFICES ASSUME NEW u \in Unit PROVE OnScript(u)
    OBVIOUS
  <2>1. /\ stage[u] = "idle" /\ kind[u] = "chat" /\ pc[u] = 1 /\ object[u] = "none"
        /\ made[u] = 0 /\ events[u] = {} /\ stored[u] = {}
    BY DEF Init
  <2>2. outbox[u][2] = 0
    BY DEF Init, Change
  <2> QED
    BY <2>1, <2>2 DEF OnScript, Numbered, Recorded, ReadyTogether, At
<1> QED
  BY <1>1, <1>2, <1>3 DEF ScriptInv

LEMMA NextScript == ScriptInv /\ IInv /\ [Next]_vars => ScriptInv'
<1> SUFFICES ASSUME ScriptInv, IInv, [Next]_vars PROVE ScriptInv'
  OBVIOUS
<1>1. IInv'
  BY StepKeeps
<1>2. CASE UNCHANGED vars
  BY <1>1, <1>2, OtherwiseKeepsScript DEF vars
<1>3. ASSUME NEW u \in Unit, Begin(u) PROVE ScriptInv'
  BY <1>1, <1>3, OtherwiseKeepsScript DEF Begin
<1>4. ASSUME NEW u \in Unit, Start(u) \/ Step(u) \/ Fault(u) PROVE ScriptInv'
  BY <1>1, <1>4, StartKeepsScript, SelectKeepsScript, MutateKeepsScript, FaultKeepsScript,
     AddOrRecordKeepsScript, FlushKeepsScript, CommitKeepsScript, ExitKeepsScript DEF Step
<1> QED
  BY <1>2, <1>3, <1>4 DEF Next

LEMMA OnScriptAlways == Spec => [](ScriptInv /\ IInv)
BY InitScript, InitIInv, StepKeeps, NextScript, PTL DEF Spec

(* The types of the units, their connections and what they store: a unit never  *)
(* runs past the end of its script (uow.py:54-117, ingestion_service.py:60-145). *)
THEOREM TypesHold == Spec => []TypeOK
<1>1. ScriptInv => TypeOK
  BY DEF ScriptInv
<1> QED
  BY <1>1, OnScriptAlways, PTL

(* Connections are not shared, and go back to their pool without a tenant       *)
(* (uow.py:42-47, database.py:10-37).                                           *)
THEOREM PoolsStayClean == Spec => []PoolIsClean
<1>1. IInv => PoolIsClean
  BY DEF IInv
<1> QED
  BY <1>1, OnScriptAlways, PTL

(* A document the worker has committed as ACTIVE is announced: the commit that   *)
(* stores the status writes the outbox row (ingestion_service.py:121-127).       *)
THEOREM ReadyAnnounced == Spec => []ReadyIsAnnounced
<1>1. ScriptInv => ReadyIsAnnounced
  BY DEF ScriptInv, OnScript, ReadyTogether, ReadyIsAnnounced
<1> QED
  BY <1>1, OnScriptAlways, PTL

(* In every script, under any number of units, failures and aborts: an outbox   *)
(* row is written once, by the commit that stores the change it announces, never *)
(* for one that was rolled back (uow.py:78-113).                                 *)
THEOREM EventsCommitOnce == Spec => EventsCommitWithTheirChange
<1> DEFINE Announces == \A u \in Unit, n \in Change : outbox'[u][n] # outbox[u][n] =>
                          /\ outbox[u][n] = 0 /\ outbox'[u][n] = 1
                          /\ n \in stored'[u] \ stored[u]
<1>1. ScriptInv /\ [Next]_vars => [Announces]_vars
  <2> SUFFICES ASSUME ScriptInv, [Next]_vars, NEW u \in Unit, NEW n \in Change,
                      outbox'[u][n] # outbox[u][n]
               PROVE  /\ outbox[u][n] = 0 /\ outbox'[u][n] = 1
                      /\ n \in stored'[u] \ stored[u]
    OBVIOUS
  <2>1. PICK w \in Unit : Commit(w)
    BY DEF vars, Next, Start, Begin, Step, Fault, Select, Construct, Modify, Delete, Mutate,
           Add, RecordEvent, Flush, CommitFails, Raise, Abort, RolledBack, Exit
  <2>2. outbox \in [Unit -> [Change -> Nat]] /\ stored \in [Unit -> SUBSET Change]
    BY UnitFacts DEF Fields
  <2>3. w = u /\ n \in Collected(u)
    BY <2>1, <2>2, CommitOutbox
  <2>4. n = 2 /\ 2 \in memory[u] /\ stored[u] = {} /\ outbox[u][2] = 0
    BY <2>1, <2>3, CommitCollects DEF Commit
  <2>5. n \in stored'[u]
    BY <2>1, <2>2, <2>3, <2>4 DEF Commit
  <2> QED
    BY <2>1, <2>3, <2>4, <2>5, CommitOutbox
<1> QED
  BY <1>1, OnScriptAlways, PTL DEF Spec, EventsCommitWithTheirChange
=============================================================================
