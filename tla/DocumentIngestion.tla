------------------------- MODULE DocumentIngestion -------------------------
(***************************************************************************)
(* The life of documents in one workspace: the API requests that upload,   *)
(* re-ingest and delete them (documents/services/document_service.py) and  *)
(* the worker tasks that turn their files into searchable chunks           *)
(* (documents/services/ingestion_service.py), over a database that commits *)
(* (READ COMMITTED, row locks) and an object store that does not.          *)
(*                                                                         *)
(* A document is named by the request whose upload minted its id.  Tasks   *)
(* come from a broker that delivers at least once and in any order: a task *)
(* may be for any document at any time.  Only committed rows are state; an *)
(* open transaction is the stage of the task that holds the row lock.      *)
(***************************************************************************)
EXTENDS Naturals, FiniteSets

CONSTANTS Request,       \* API requests
          Task,          \* deliveries of documents.process_ingestion
          Name,          \* file names
          Content,       \* file contents (and their SHA-256)
          ChunkCount,    \* chunks select_chunks makes of each content
          File,          \* the files clients send, [name, content] records
          NoRow, Absent, Nobody

ASSUME FileAssumption ==
  /\ File \subseteq [name : Name, content : Content]
  /\ ChunkCount \in [Content -> Nat]
  /\ Absent \notin Content /\ Nobody \notin Task
ASSUME FiniteAssumption == IsFiniteSet(Request)

Doc == Request
Version == 1..Cardinality(Request) + 1
Key == Version \X Name
Status == {"PENDING", "ACTIVE", "ERROR"}   \* PROCESSING is never committed
Row == [version : Version, content : Content, name : Name, key : Key, status : Status]

\* NoRow must not be comparable to a row: it is the row no document has.
ASSUME RowAssumption == NoRow \notin Row

VARIABLES documents,   \* committed row of each document
          chunks,      \* its committed chunks, the inactive ones too
          lock,        \* the task whose open transaction holds the row lock
          objects,     \* its uploaded files in the object store
          extracted,   \* its extracted.txt there
          request,     \* the local state of each request
          task         \* the local state of each task

database == <<documents, chunks, lock>>
storage == <<objects, extracted>>
vars == <<database, storage, request, task>>

Exists(d) == documents[d] # NoRow
Unlocked(d) == lock[d] = Nobody

(* The session's UPDATE names only the columns whose value differs from the *)
(* one it loaded; the others keep what another transaction put there.      *)
Written(current, loaded, new) ==
  [f \in DOMAIN current |-> IF new[f] = loaded[f] THEN current[f] ELSE new[f]]

\* uq_documents_tenant_workspace_hash.
Unique(d, content) == \A other \in Doc \ {d} : Exists(other) => documents[other].content # content

To(r, stage) == request' = [request EXCEPT ![r].stage = stage]

-----------------------------------------------------------------------------
(* Requests                                                                 *)

Target(r) == request[r].doc
Loaded(r) == request[r].row
NewKey(r) == IF request[r].op = "upload" THEN <<1, request[r].file.name>>
             ELSE <<Loaded(r).version + 1, request[r].file.name>>

\* The duplicate check, before the file is stored.
Upload(r) ==
  /\ request[r].stage = "idle"
  /\ \E f \in File :
       request' = [request EXCEPT ![r] =
         [stage |-> IF Unique(r, f.content) THEN "loaded" ELSE "failed",
          op |-> "upload", doc |-> r, row |-> NoRow, file |-> f]]
  /\ UNCHANGED <<database, storage, task>>

\* DocumentService.get: a missing document is a 404.
Reingest(r) ==
  /\ request[r].stage = "idle"
  /\ \E f \in File, d \in Doc \ {r} :
       request' = [request EXCEPT ![r] =
         [stage |-> IF Exists(d) THEN "loaded" ELSE "failed",
          op |-> "reingest", doc |-> d, row |-> documents[d], file |-> f]]
  /\ UNCHANGED <<database, storage, task>>

Delete(r) ==
  /\ request[r].stage = "idle"
  /\ \E d \in Doc \ {r} :
       request' = [request EXCEPT ![r] =
         [stage |-> IF Exists(d) THEN "loaded" ELSE "failed",
          op |-> "delete", doc |-> d, row |-> documents[d], file |-> Absent]]
  /\ UNCHANGED <<database, storage, task>>

\* storage.upload_file, before anything reaches the database.
StoreFile(r) ==
  /\ request[r].stage = "loaded" /\ request[r].op # "delete"
  /\ objects' = [objects EXCEPT ![Target(r)][NewKey(r)] = request[r].file.content]
  /\ To(r, "stored")
  /\ UNCHANGED <<database, extracted, task>>

\* Variant: the row is flushed and committed before its file is stored.
FileStoredOrNot(r) == request[r].stage \in {"loaded", "stored"}

FileStored(r) == request[r].stage = "stored"

Uploaded(r) ==
  [version |-> 1, content |-> request[r].file.content, name |-> request[r].file.name,
   key |-> NewKey(r), status |-> "PENDING"]

\* INSERT and commit, or an IntegrityError if an equal file got there first.
SaveUpload(r) ==
  /\ FileStored(r) /\ request[r].op = "upload"
  /\ IF Unique(r, request[r].file.content)
       THEN documents' = [documents EXCEPT ![r] = Uploaded(r)] /\ To(r, "done")
       ELSE UNCHANGED documents /\ To(r, "failed")
  /\ UNCHANGED <<chunks, lock, storage, task>>

Reingested(r) == [Uploaded(r) EXCEPT !.version = Loaded(r).version + 1]

\* UPDATE and commit, behind any transaction that has the row locked.  A row
\* deleted meanwhile is a StaleDataError.
SaveReingest(r) ==
  /\ FileStored(r) /\ request[r].op = "reingest" /\ Unlocked(Target(r))
  /\ IF Exists(Target(r)) /\ Unique(Target(r), request[r].file.content)
       THEN /\ documents' = [documents EXCEPT ![Target(r)] =
                               Written(@, Loaded(r), Reingested(r))]
            /\ To(r, "done")
       ELSE UNCHANGED documents /\ To(r, "failed")
  /\ UNCHANGED <<chunks, lock, storage, task>>

EraseFile(r) ==
  /\ request[r].stage = "loaded" /\ request[r].op = "delete"
  /\ objects' = [objects EXCEPT ![Target(r)][Loaded(r).key] = Absent]
  /\ To(r, IF Loaded(r).status = "ACTIVE" THEN "erasing" ELSE "erased")
  /\ UNCHANGED <<database, extracted, task>>

EraseText(r) ==
  /\ request[r].stage = "erasing"
  /\ extracted' = [extracted EXCEPT ![Target(r)] = Absent]
  /\ To(r, "erased")
  /\ UNCHANGED <<database, objects, task>>

(* The flush of a delete first loads Document.chunks to set their           *)
(* document_id to NULL, which the column refuses.                           *)
LoadChunks(r) ==
  /\ request[r].stage = "erased"
  /\ To(r, IF chunks[Target(r)] = {} THEN "childless" ELSE "refused")
  /\ UNCHANGED <<database, storage, task>>

\* Variant: chunks are not deleted with their document.
KeptByDelete(d) == chunks[d]

\* ON DELETE CASCADE of document_chunks.document_id.
LeftByDelete(d) == {}

DeleteRow(r) ==
  /\ request[r].stage = "childless" /\ Unlocked(Target(r))
  /\ documents' = [documents EXCEPT ![Target(r)] = NoRow]
  /\ chunks' = [chunks EXCEPT ![Target(r)] = LeftByDelete(Target(r))]
  /\ To(r, "done")
  /\ UNCHANGED <<lock, storage, task>>

\* The object store, the database or the client breaks a request off.
RequestFails(r) ==
  /\ request[r].stage \in {"loaded", "stored", "erasing", "erased", "childless"}
  /\ To(r, "failed")
  /\ UNCHANGED <<database, storage, task>>

-----------------------------------------------------------------------------
(* Worker tasks                                                             *)

Of(t) == task[t].doc
Trying(t) == task[t].stage \in {"loaded", "claimed", "fetched", "replaced", "extracted"}
Holds(t) == lock[Of(t)] = t
AfterTransaction(t) == IF Holds(t) THEN [lock EXCEPT ![Of(t)] = Nobody] ELSE lock

Become(t, stage) == task' = [task EXCEPT ![t].stage = stage]

LoadDocument(t) ==
  /\ task[t].stage = "idle"
  /\ \E d \in Doc :
       task' = [task EXCEPT ![t] =
         [@ EXCEPT !.stage = IF Exists(d) THEN "loaded" ELSE "ended",
                   !.doc = d, !.row = documents[d]]]
  /\ UNCHANGED <<database, storage, request>>

\* Variant: the PROCESSING status is committed, not flushed.
ClaimedAndCommitted(d) == [documents EXCEPT ![d].status = "PROCESSING"]

Claimed(d) == documents

\* The flush of PROCESSING waits for the row lock and keeps it.
Claim(t) ==
  /\ task[t].stage = "loaded" /\ Unlocked(Of(t)) /\ Exists(Of(t))
  /\ lock' = [lock EXCEPT ![Of(t)] = t]
  /\ documents' = Claimed(Of(t))
  /\ Become(t, "claimed")
  /\ UNCHANGED <<chunks, storage, request>>

\* The key is the one that was loaded before the row was locked.
Fetch(t) ==
  /\ task[t].stage = "claimed" /\ objects[Of(t)][task[t].row.key] # Absent
  /\ task' = [task EXCEPT ![t] =
       [@ EXCEPT !.stage = "fetched", !.text = objects[Of(t)][task[t].row.key]]]
  /\ UNCHANGED <<database, storage, request>>

\* Variant: an empty list of chunks is not an error.
AnyChunks(t) == TRUE

HasChunks(t) == ChunkCount[task[t].text] > 0

NewChunks(t) ==
  [run : {t}, version : {task[t].row.version}, content : {task[t].text},
   index : 1..ChunkCount[task[t].text], active : {TRUE}]

\* Variant: an upsert on (document_id, chunk_index).
DeactivatedByIndex(t) ==
  {IF \E n \in NewChunks(t) : n.index = c.index THEN [c EXCEPT !.active = FALSE] ELSE c :
     c \in chunks[Of(t)]}

Deactivated(t) == {[c EXCEPT !.active = FALSE] : c \in chunks[Of(t)]}

\* Old chunks are deactivated, the new ones embedded and inserted.
Replace(t) ==
  /\ task[t].stage = "fetched" /\ HasChunks(t)
  /\ Become(t, "replaced")
  /\ UNCHANGED <<database, storage, request>>

StoreText(t) ==
  /\ task[t].stage = "replaced"
  /\ extracted' = [extracted EXCEPT ![Of(t)] = task[t].text]
  /\ Become(t, "extracted")
  /\ UNCHANGED <<database, objects, request>>

\* ACTIVE is written over PROCESSING; no other column changed in the session.
CommitActive(t) ==
  /\ task[t].stage = "extracted"
  /\ documents' = [documents EXCEPT ![Of(t)].status = "ACTIVE"]
  /\ chunks' = [chunks EXCEPT ![Of(t)] = Deactivated(t) \cup NewChunks(t)]
  /\ lock' = AfterTransaction(t)
  /\ Become(t, "ended")
  /\ UNCHANGED <<storage, request>>

\* Variant: the except branch has no rollback, and its commit is the whole
\* transaction's.
AfterNoRollback(t) == IF task[t].stage \in {"replaced", "extracted"} THEN Deactivated(t)
                      ELSE chunks[Of(t)]
\* Variant: the same, with a failure after the new chunks were added.
AfterNoRollbackLate(t) == IF task[t].stage = "extracted" THEN Deactivated(t) \cup NewChunks(t)
                          ELSE chunks[Of(t)]

AfterRollback(t) == chunks[Of(t)]

\* Anything in the try block raises: StaleDataError at the flush, a missing
\* object, a parser, DLP, no chunks, the embedding service, the commit.
Fail(t) ==
  /\ Trying(t)
  /\ chunks' = [chunks EXCEPT ![Of(t)] = AfterRollback(t)]
  /\ lock' = AfterTransaction(t)
  /\ Become(t, "failed")
  /\ UNCHANGED <<documents, storage, request>>

Recover(t) ==
  /\ task[t].stage = "failed"
  /\ task' = [task EXCEPT ![t] =
       [@ EXCEPT !.stage = IF Exists(Of(t)) THEN "recovered" ELSE "ended",
                 !.row = documents[Of(t)]]]
  /\ UNCHANGED <<database, storage, request>>

MarkError(t) ==
  /\ task[t].stage = "recovered" /\ Unlocked(Of(t))
  /\ documents' = IF Exists(Of(t))
                    THEN [documents EXCEPT ![Of(t)] =
                            Written(@, task[t].row, [task[t].row EXCEPT !.status = "ERROR"])]
                    ELSE documents
  /\ Become(t, "ended")
  /\ UNCHANGED <<chunks, lock, storage, request>>

\* The process dies, or the except branch itself raises.  Celery has already
\* acknowledged the message: nobody runs the task again.
Crash(t) ==
  /\ Trying(t) \/ task[t].stage \in {"failed", "recovered"}
  /\ lock' = AfterTransaction(t)
  /\ Become(t, "ended")
  /\ UNCHANGED <<documents, chunks, storage, request>>

-----------------------------------------------------------------------------
Init ==
  /\ documents = [d \in Doc |-> NoRow]
  /\ chunks = [d \in Doc |-> {}]
  /\ lock = [d \in Doc |-> Nobody]
  /\ objects = [d \in Doc |-> [k \in Key |-> Absent]]
  /\ extracted = [d \in Doc |-> Absent]
  /\ request = [r \in Request |->
       [stage |-> "idle", op |-> "none", doc |-> r, row |-> NoRow, file |-> Absent]]
  /\ task = [t \in Task |->
       [stage |-> "idle", doc |-> Absent, row |-> NoRow, text |-> Absent]]

RequestStep(r) ==
  \/ Upload(r) \/ Reingest(r) \/ Delete(r)
  \/ StoreFile(r) \/ SaveUpload(r) \/ SaveReingest(r)
  \/ EraseFile(r) \/ EraseText(r) \/ LoadChunks(r) \/ DeleteRow(r)
  \/ RequestFails(r)

TaskStep(t) ==
  \/ LoadDocument(t) \/ Claim(t) \/ Fetch(t) \/ Replace(t) \/ StoreText(t)
  \/ CommitActive(t) \/ Fail(t) \/ Recover(t) \/ MarkError(t) \/ Crash(t)

Next == (\E r \in Request : RequestStep(r)) \/ (\E t \in Task : TaskStep(t))

Spec == Init /\ [][Next]_vars

-----------------------------------------------------------------------------
Active(d) == {c \in chunks[d] : c.active}

Chunk == [run : Task, version : Version, content : Content, index : Nat, active : BOOLEAN]

TypeOK ==
  /\ documents \in [Doc -> Row \cup {NoRow}]
  /\ chunks \in [Doc -> SUBSET Chunk]
  /\ lock \in [Doc -> Task \cup {Nobody}]
  /\ objects \in [Doc -> [Key -> Content \cup {Absent}]]
  /\ extracted \in [Doc -> Content \cup {Absent}]
  /\ request \in [Request ->
       [stage : {"idle", "loaded", "stored", "erasing", "erased", "childless",
                 "refused", "done", "failed"},
        op : {"none", "upload", "reingest", "delete"},
        doc : Doc, row : Row \cup {NoRow}, file : File \cup {Absent}]]
  /\ task \in [Task ->
       [stage : {"idle", "loaded", "claimed", "fetched", "replaced", "extracted",
                 "failed", "recovered", "ended"},
        doc : Doc \cup {Absent}, row : Row \cup {NoRow}, text : Content \cup {Absent}]]

(* The chunks retrieval sees of a document are all the chunks of one        *)
(* ingestion run and no other's, however many tasks and re-ingestions race  *)
(* (ingestion_service.py:76-112).                                           *)
OneRunIsSearchable ==
  \A d \in Doc : \A c \in Active(d) :
    /\ \A e \in Active(d) : e.run = c.run
    /\ {e.index : e \in Active(d)} = 1..ChunkCount[c.content]

(* A document shown as ACTIVE can be searched: a file without chunks is an  *)
(* ERROR, and a rollback leaves no ACTIVE behind (ingestion_service.py:71). *)
ActiveHasChunks ==
  \A d \in Doc : Exists(d) /\ documents[d].status = "ACTIVE" => Active(d) # {}

(* No ingestion in flight, or arriving late, leaves chunks of a document    *)
(* that is deleted: they would still be retrieved (models.py:144).          *)
NoOrphanChunks ==
  \A d \in Doc : ~Exists(d) => chunks[d] = {}

(* A row never names a file that was not stored, so a task for it can only  *)
(* miss the file once a delete has begun (document_service.py:136, 190).    *)
ErasureBegun(d) ==
  \E r \in Request : /\ request[r].op = "delete" /\ Target(r) = d
                     /\ request[r].stage # "loaded"
FileOfRowIsStored ==
  \A d \in Doc : Exists(d) /\ ~ErasureBegun(d) => objects[d][documents[d].key] # Absent

(* A document that can be searched stays searchable until it is deleted:    *)
(* failed and crashed ingestions keep the chunks of the last one that        *)
(* succeeded, and a re-ingestion swaps them in one step.                     *)
SearchableUntilDeleted ==
  [][\A d \in Doc : Active(d) # {} => Active(d)' # {} \/ ~Exists(d)']_vars

Hits(d) == {[run |-> c.run, content |-> c.content, index |-> c.index] : c \in Active(d)}

(* What an observer of retrieval and of the document list sees.              *)
Minted == {r \in Request : request[r].op = "upload" /\ request[r].stage = "done"}
Listed == {d \in Doc : Exists(d)}
Ready == {d \in Doc : Exists(d) /\ documents[d].status = "ACTIVE"}
Found == [d \in Doc |-> Hits(d)]
Spent == {t \in Task : task[t].stage \in {"failed", "recovered", "ended"}}
Index == INSTANCE SearchIndex
           WITH Run <- Task, Size <- ChunkCount, minted <- Minted, listed <- Listed,
                ready <- Ready, found <- Found, spent <- Spent

(* Requests and tasks keep the promise retrieval relies on, see SearchIndex *)
(* (ingestion_service.py:56-141, document_service.py:232-243).              *)
ImplementsIndex == Index!Spec
=============================================================================
