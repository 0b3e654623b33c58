----------------------- MODULE DocumentIngestionProofs -----------------------
(***************************************************************************)
(* Documents and their chunks for any number of requests, tasks, names and   *)
(* contents: types, what is searchable, and the files behind the rows.       *)
(***************************************************************************)
EXTENDS DocumentIngestion, FiniteSetTheorems, TLAPS

\* The requests that have begun: each raises a version by one at most.
Started == {q \in Request : request[q].stage # "idle"}

(* A row, and what a request will make of the row it loaded, has a version    *)
(* that the requests so far account for.                                     *)
VersionsCounted ==
  /\ \A d \in Doc : documents[d] # NoRow => documents[d].version <= Cardinality(Started)
  /\ \A r \in Request :
       (request[r].stage # "idle" /\ request[r].row # NoRow)
       => request[r].row.version + 1 <= Cardinality(Started)

(* What a request holds at each stage. *)
RequestsFormed ==
  \A r \in Request :
    LET q == request[r]
    IN /\ q.stage \in {"loaded", "stored"} => q.op # "none"
       /\ q.stage = "stored" => q.op \in {"upload", "reingest"}
       /\ q.stage \in {"erasing", "erased", "childless"} => q.op = "delete"
       /\ (q.op = "upload" /\ q.stage # "idle") => (q.doc = r /\ q.file \in File)
       /\ (q.op = "reingest" /\ q.stage \in {"loaded", "stored"})
          => (q.row \in Row /\ q.file \in File)
       /\ (q.op = "delete" /\ q.stage = "loaded") => q.row \in Row

Working == {"claimed", "fetched", "replaced", "extracted"}

(* What a task holds at each stage. *)
TasksFormed ==
  \A t \in Task :
    LET k == task[t]
    IN /\ k.stage \notin {"idle"} => k.doc \in Doc
       /\ k.stage \in Working \cup {"loaded", "recovered"} => k.row \in Row
       /\ k.stage \in {"fetched", "replaced", "extracted"} => k.text \in Content
       /\ k.stage \in {"replaced", "extracted"} => ChunkCount[k.text] > 0

(* Whoever works on a document holds its row lock, and the row is there.      *)
LocksHeld ==
  /\ \A t \in Task : task[t].stage \in Working =>
       lock[task[t].doc] = t /\ documents[task[t].doc] # NoRow
  /\ \A d \in Doc : lock[d] # Nobody =>
       task[lock[d]].doc = d /\ task[lock[d]].stage \in Working

(* The file a request has stored is there until a delete begins.              *)
StoredFiles ==
  \A r \in Request :
    (request[r].stage = "stored" /\ ~ErasureBegun(Target(r)))
    => objects[Target(r)][NewKey(r)] # Absent

Base == TypeOK /\ VersionsCounted /\ RequestsFormed /\ TasksFormed /\ LocksHeld
Searchable == OneRunIsSearchable /\ ActiveHasChunks /\ NoOrphanChunks
Files == FileOfRowIsStored /\ StoredFiles

-----------------------------------------------------------------------------
(* Facts about the constants and the parts of a row. *)

LEMMA VersionFacts ==
  /\ Cardinality(Request) \in Nat
  /\ Version \subseteq Nat
  /\ 1 \in Version
  /\ \A v \in Nat : 1 <= v /\ v <= Cardinality(Request) + 1 => v \in Version
<1>1. Cardinality(Request) \in Nat
  BY FiniteAssumption, FS_CardinalityType
<1> QED
  BY <1>1 DEF Version

LEMMA StartedFacts ==
  ASSUME TypeOK
  PROVE  /\ IsFiniteSet(Started) /\ Cardinality(Started) \in Nat
         /\ Cardinality(Started) <= Cardinality(Request)
         /\ \A r \in Started : Cardinality(Started) >= 1
<1>1. Started \subseteq Request
  BY DEF Started
<1>2. IsFiniteSet(Started) /\ Cardinality(Started) <= Cardinality(Request)
  BY <1>1, FiniteAssumption, FS_Subset
<1>3. Cardinality(Started) \in Nat
  BY <1>2, FS_CardinalityType
<1>4. ASSUME NEW r \in Started PROVE Cardinality(Started) # 0
  BY <1>2, FS_EmptySet
<1> QED
  BY <1>2, <1>3, <1>4

(* What an UPDATE writes is a row, never NoRow, and each column is the row's   *)
(* own or the new one.                                                        *)
LEMMA WrittenFacts ==
  ASSUME NEW a \in Row, NEW b \in Row, NEW c \in Row
  PROVE  /\ Written(a, b, c) \in Row
         /\ Written(a, b, c).version \in {a.version, c.version}
         /\ Written(a, b, c).key \in {a.key, c.key}
         /\ Written(a, b, c).status \in {a.status, c.status}
<1>1. DOMAIN a = {"version", "content", "name", "key", "status"}
  BY DEF Row
<1>2. Written(a, b, c) =
        [f \in {"version", "content", "name", "key", "status"} |->
           IF c[f] = b[f] THEN a[f] ELSE c[f]]
  BY <1>1 DEF Written
<1>3. /\ a.version \in Version /\ a.content \in Content /\ a.name \in Name
      /\ a.key \in Key /\ a.status \in Status
      /\ c.version \in Version /\ c.content \in Content /\ c.name \in Name
      /\ c.key \in Key /\ c.status \in Status
  BY DEF Row
<1> DEFINE w == Written(a, b, c)
<1>4. /\ w.version \in {a.version, c.version} /\ w.content \in {a.content, c.content}
      /\ w.name \in {a.name, c.name} /\ w.key \in {a.key, c.key}
      /\ w.status \in {a.status, c.status}
  BY <1>2
<1>5. w = [version |-> w.version, content |-> w.content, name |-> w.name,
           key |-> w.key, status |-> w.status]
  BY <1>2
<1> HIDE DEF w
<1>6. w \in Row
  BY <1>3, <1>4, <1>5 DEF Row
<1> QED
  BY <1>4, <1>6 DEF w

-----------------------------------------------------------------------------
(* A request that goes on to its next stage, and one that begins.             *)

RequestType ==
  [stage : {"idle", "loaded", "stored", "erasing", "erased", "childless",
            "refused", "done", "failed"},
   op : {"none", "upload", "reingest", "delete"},
   doc : Doc, row : Row \cup {NoRow}, file : File \cup {Absent}]
TaskType ==
  [stage : {"idle", "loaded", "claimed", "fetched", "replaced", "extracted",
            "failed", "recovered", "ended"},
   doc : Doc \cup {Absent}, row : Row \cup {NoRow}, text : Content \cup {Absent}]

LEMMA RequestGoesOn ==
  ASSUME TypeOK, NEW r \in Request, request[r].stage # "idle",
         NEW s \in {"loaded", "stored", "erasing", "erased", "childless",
                    "refused", "done", "failed"},
         To(r, s)
  PROVE  /\ request' \in [Request -> RequestType]
         /\ \A q \in Request \ {r} : request'[q] = request[q]
         /\ request'[r].stage = s
         /\ request'[r].op = request[r].op /\ request'[r].doc = request[r].doc
         /\ request'[r].row = request[r].row /\ request'[r].file = request[r].file
         /\ Started' = Started
<1>1. request \in [Request -> RequestType]
  BY DEF TypeOK, RequestType
<1>2. request' = [request EXCEPT ![r] = [request[r] EXCEPT !.stage = s]]
  BY <1>1 DEF To
<1>3. [request[r] EXCEPT !.stage = s] \in RequestType
  BY <1>1 DEF RequestType
<1>4. request' \in [Request -> RequestType]
  BY <1>1, <1>2, <1>3
<1>5. \A q \in Request \ {r} : request'[q] = request[q]
  BY <1>1, <1>2
<1>6. request'[r] = [request[r] EXCEPT !.stage = s] /\ request[r] \in RequestType
  BY <1>1, <1>2
<1>7. /\ request'[r].stage = s
      /\ request'[r].op = request[r].op /\ request'[r].doc = request[r].doc
      /\ request'[r].row = request[r].row /\ request'[r].file = request[r].file
  BY <1>6 DEF RequestType
<1>8. Started' = Started
  BY <1>5, <1>7 DEF Started
<1> QED
  BY <1>4, <1>5, <1>7, <1>8

LEMMA TaskGoesOn ==
  ASSUME TypeOK, NEW t \in Task, NEW s \in {"loaded", "claimed", "fetched", "replaced",
           "extracted", "failed", "recovered", "ended"}, Become(t, s)
  PROVE  /\ task' \in [Task -> TaskType]
         /\ \A u \in Task \ {t} : task'[u] = task[u]
         /\ task'[t].stage = s /\ task'[t].doc = task[t].doc
         /\ task'[t].row = task[t].row /\ task'[t].text = task[t].text
<1>1. task \in [Task -> TaskType]
  BY DEF TypeOK, TaskType
<1>2. task' = [task EXCEPT ![t] = [task[t] EXCEPT !.stage = s]]
  BY <1>1 DEF Become
<1>3. [task[t] EXCEPT !.stage = s] \in TaskType
  BY <1>1 DEF TaskType
<1>4. task'[t] = [task[t] EXCEPT !.stage = s] /\ task[t] \in TaskType
  BY <1>1, <1>2
<1> QED
  BY <1>1, <1>2, <1>3, <1>4 DEF TaskType

LEMMA TypeParts ==
  TypeOK <=> /\ documents \in [Doc -> Row \cup {NoRow}]
             /\ chunks \in [Doc -> SUBSET Chunk]
             /\ lock \in [Doc -> Task \cup {Nobody}]
             /\ objects \in [Doc -> [Key -> Content \cup {Absent}]]
             /\ extracted \in [Doc -> Content \cup {Absent}]
             /\ request \in [Request -> RequestType]
             /\ task \in [Task -> TaskType]
BY DEF TypeOK, RequestType, TaskType

LoadedCounted ==
  \A r \in Request :
    (request[r].stage # "idle" /\ request[r].row # NoRow)
    => request[r].row.version + 1 <= Cardinality(Started)

(* A request that goes on keeps the form of requests. *)
LEMMA StageKeepsForm ==
  ASSUME Base, NEW r \in Request, request[r].stage # "idle",
         NEW s \in {"stored", "erasing", "erased", "childless", "refused", "done", "failed"},
         To(r, s),
         s = "stored" => (request[r].stage = "loaded" /\ request[r].op \in {"upload", "reingest"}),
         s \in {"erasing", "erased", "childless"} => request[r].op = "delete"
  PROVE  /\ request' \in [Request -> RequestType] /\ Started' = Started
         /\ RequestsFormed' /\ LoadedCounted'
<1>1. /\ request' \in [Request -> RequestType]
      /\ \A q \in Request \ {r} : request'[q] = request[q]
      /\ request'[r].stage = s
      /\ request'[r].op = request[r].op /\ request'[r].doc = request[r].doc
      /\ request'[r].row = request[r].row /\ request'[r].file = request[r].file
      /\ Started' = Started
  BY RequestGoesOn DEF Base
<1>2. RequestsFormed'
  BY <1>1 DEF Base, RequestsFormed
<1>3. LoadedCounted'
  BY <1>1 DEF Base, VersionsCounted, LoadedCounted
<1> QED
  BY <1>1, <1>2, <1>3

(* A request that begins is counted, and keeps the form of requests.          *)
LEMMA BeginKeepsForm ==
  ASSUME Base, NEW r \in Request, request[r].stage = "idle", NEW q \in RequestType,
         request' = [request EXCEPT ![r] = q],
         q.stage \in {"loaded", "failed"}, q.op # "none",
         q.op = "upload" => (q.doc = r /\ q.file \in File),
         (q.op = "reingest" /\ q.stage = "loaded") => (q.row \in Row /\ q.file \in File),
         (q.op = "delete" /\ q.stage = "loaded") => q.row \in Row,
         q.row # NoRow => q.row \in Row /\ q.row.version <= Cardinality(Started)
  PROVE  /\ request' \in [Request -> RequestType]
         /\ Cardinality(Started') = Cardinality(Started) + 1
         /\ RequestsFormed' /\ LoadedCounted'
<1>1. request \in [Request -> RequestType]
  BY TypeParts DEF Base
<1>2. /\ request' \in [Request -> RequestType] /\ request'[r] = q
      /\ \A p \in Request \ {r} : request'[p] = request[p]
  BY <1>1
<1>3. Started' = Started \cup {r} /\ r \notin Started
  BY <1>2 DEF Started
<1>4. /\ Cardinality(Started') = Cardinality(Started) + 1
      /\ Cardinality(Started) \in Nat
  BY <1>3, StartedFacts, FS_AddElement DEF Base
<1>5. RequestsFormed'
  BY <1>2 DEF Base, RequestsFormed
<1>6. LoadedCounted'
  <2> SUFFICES ASSUME NEW p \in Request, request'[p].stage # "idle", request'[p].row # NoRow
               PROVE  request'[p].row.version + 1 <= Cardinality(Started')
    BY DEF LoadedCounted
  <2>1. request'[p].row \in Row
    BY <1>2 DEF RequestType
  <2>2. request'[p].row.version \in Nat
    BY <2>1, VersionFacts DEF Row
  <2>3. CASE p = r
    BY <1>2, <1>4, <2>2, <2>3
  <2>4. CASE p # r
    BY <1>2, <1>4, <2>2, <2>4 DEF Base, VersionsCounted
  <2> QED
    BY <2>3, <2>4
<1> QED
  BY <1>2, <1>4, <1>5, <1>6

(* What an upload or a re-ingestion is about to store.                        *)
LEMMA NewRowFacts ==
  ASSUME Base, NEW r \in Request, request[r].op \in {"upload", "reingest"},
         request[r].stage \in {"loaded", "stored"}
  PROVE  /\ Target(r) \in Doc /\ NewKey(r) \in Key
         /\ request[r].file \in File /\ request[r].file.content \in Content
         /\ request[r].file.content # Absent
         /\ request[r].op = "upload" => Target(r) = r /\ Uploaded(r) \in Row
         /\ request[r].op = "reingest" =>
              /\ Loaded(r) \in Row /\ Reingested(r) \in Row
              /\ Reingested(r).version <= Cardinality(Started)
              /\ Reingested(r).key = NewKey(r) /\ Reingested(r).status = "PENDING"
<1>1. request[r] \in RequestType
  BY TypeParts DEF Base
<1>2. Target(r) \in Doc
  BY <1>1 DEF Target, RequestType
<1>3. request[r].file \in File
  BY DEF Base, RequestsFormed
<1>4. /\ request[r].file.content \in Content /\ request[r].file.name \in Name
      /\ request[r].file.content # Absent
  BY <1>3, FileAssumption
<1>5. CASE request[r].op = "upload"
  <2>1. NewKey(r) = <<1, request[r].file.name>> /\ Target(r) = r
    BY <1>5 DEF NewKey, Base, RequestsFormed, Target
  <2>2. NewKey(r) \in Key
    BY <1>4, <2>1, VersionFacts DEF Key
  <2>3. Uploaded(r) \in Row
    BY <1>4, <2>2, VersionFacts DEF Uploaded, Row, Status
  <2> QED
    BY <1>2, <1>3, <1>4, <1>5, <2>1, <2>2, <2>3
<1>6. CASE request[r].op = "reingest"
  <2>1. Loaded(r) \in Row
    BY <1>6 DEF Loaded, Base, RequestsFormed
  <2>2. Loaded(r).version \in Nat
    BY <2>1, VersionFacts DEF Row
  <2>3. Loaded(r).version + 1 <= Cardinality(Started)
    BY <2>1, RowAssumption DEF Loaded, Base, VersionsCounted
  <2>4. Loaded(r).version + 1 \in Version
    BY <2>2, <2>3, StartedFacts, VersionFacts DEF Base
  <2>5. NewKey(r) = <<Loaded(r).version + 1, request[r].file.name>>
    BY <1>6 DEF NewKey
  <2>6. NewKey(r) \in Key
    BY <1>4, <2>4, <2>5 DEF Key
  <2>7. Reingested(r) = [version |-> Loaded(r).version + 1,
                         content |-> request[r].file.content,
                         name |-> request[r].file.name,
                         key |-> NewKey(r), status |-> "PENDING"]
    BY DEF Reingested, Uploaded
  <2>8. Reingested(r) \in Row
    BY <1>4, <2>4, <2>6, <2>7 DEF Row, Status
  <2> QED
    BY <1>2, <1>3, <1>4, <1>6, <2>1, <2>3, <2>6, <2>7, <2>8
<1> QED
  BY <1>5, <1>6

-----------------------------------------------------------------------------
(* What the steps of requests keep. *)

(* Tasks do not notice a request that changes no row they have locked.         *)
LEMMA TasksUndisturbed ==
  ASSUME Base, UNCHANGED <<task, lock>>,
         documents' \in [Doc -> Row \cup {NoRow}],
         \A d \in Doc : (lock[d] # Nobody /\ documents[d] # NoRow) => documents'[d] # NoRow
  PROVE  TasksFormed' /\ LocksHeld'
<1>1. TasksFormed'
  BY DEF Base, TasksFormed
<1>2. ASSUME NEW t \in Task, task[t].stage \in Working
      PROVE  lock[task[t].doc] = t /\ documents'[task[t].doc] # NoRow
  <2>1. task[t].doc \in Doc
    BY <1>2 DEF Base, TasksFormed, Working
  <2>2. lock[task[t].doc] = t /\ documents[task[t].doc] # NoRow /\ t # Nobody
    BY <1>2, FileAssumption DEF Base, LocksHeld
  <2> QED
    BY <2>1, <2>2
<1>3. LocksHeld'
  BY <1>2 DEF Base, LocksHeld
<1> QED
  BY <1>1, <1>3

LEMMA RequestKeepsBase ==
  ASSUME Base, NEW r \in Request, RequestStep(r)
  PROVE  Base'
<1>1. /\ documents \in [Doc -> Row \cup {NoRow}]
      /\ chunks \in [Doc -> SUBSET Chunk]
      /\ lock \in [Doc -> Task \cup {Nobody}]
      /\ objects \in [Doc -> [Key -> Content \cup {Absent}]]
      /\ extracted \in [Doc -> Content \cup {Absent}]
      /\ request \in [Request -> RequestType]
      /\ task \in [Task -> TaskType]
  BY TypeParts DEF Base
<1>2. ASSUME UNCHANGED <<documents, chunks, lock, task>>,
             objects' \in [Doc -> [Key -> Content \cup {Absent}]],
             extracted' \in [Doc -> Content \cup {Absent}],
             request' \in [Request -> RequestType],
             Cardinality(Started') \in Nat, Cardinality(Started') >= Cardinality(Started),
             RequestsFormed', LoadedCounted'
      PROVE  Base'
  <2>1. TypeOK'
    BY <1>1, <1>2, TypeParts DEF TypeOK, RequestType, TaskType
  <2>2. TasksFormed' /\ LocksHeld'
    BY <1>1, <1>2, TasksUndisturbed
  <2>3. VersionsCounted'
    <3>1. ASSUME NEW d \in Doc, documents[d] # NoRow
          PROVE  documents[d].version <= Cardinality(Started')
      <4>1. documents[d].version \in Nat
        BY <1>1, <3>1, VersionFacts DEF Row
      <4>2. documents[d].version <= Cardinality(Started) /\ Cardinality(Started) \in Nat
        BY <3>1, StartedFacts DEF Base, VersionsCounted
      <4> QED
        BY <1>2, <4>1, <4>2
    <3> QED
      BY <1>2, <3>1 DEF VersionsCounted, LoadedCounted
  <2> QED
    BY <1>2, <2>1, <2>2, <2>3 DEF Base
<1>3. Cardinality(Started) \in Nat
  BY StartedFacts DEF Base
<1>4. CASE Upload(r)
  <2>1. PICK f \in File : request' = [request EXCEPT ![r] =
          [stage |-> IF Unique(r, f.content) THEN "loaded" ELSE "failed",
           op |-> "upload", doc |-> r, row |-> NoRow, file |-> f]]
    BY <1>4 DEF Upload
  <2> DEFINE q == [stage |-> IF Unique(r, f.content) THEN "loaded" ELSE "failed",
                   op |-> "upload", doc |-> r, row |-> NoRow, file |-> f]
  <2>2. q \in RequestType
    BY DEF RequestType, Doc
  <2>3. /\ request' \in [Request -> RequestType]
        /\ Cardinality(Started') = Cardinality(Started) + 1
        /\ RequestsFormed' /\ LoadedCounted'
    BY <1>4, <2>1, <2>2, BeginKeepsForm DEF Upload
  <2> QED
    BY <1>1, <1>2, <1>3, <1>4, <2>3 DEF Upload, database, storage
<1>5. CASE Reingest(r)
  <2>1. PICK f \in File, d \in Doc \ {r} : request' = [request EXCEPT ![r] =
          [stage |-> IF Exists(d) THEN "loaded" ELSE "failed",
           op |-> "reingest", doc |-> d, row |-> documents[d], file |-> f]]
    BY <1>5 DEF Reingest
  <2> DEFINE q == [stage |-> IF Exists(d) THEN "loaded" ELSE "failed",
                   op |-> "reingest", doc |-> d, row |-> documents[d], file |-> f]
  <2>2. q \in RequestType
    BY <1>1 DEF RequestType
  <2>3. q.row # NoRow => q.row \in Row /\ q.row.version <= Cardinality(Started)
    BY <1>1 DEF Base, VersionsCounted
  <2>4. q.stage = "loaded" => q.row \in Row
    BY <1>1 DEF Exists
  <2>5. /\ request' \in [Request -> RequestType]
        /\ Cardinality(Started') = Cardinality(Started) + 1
        /\ RequestsFormed' /\ LoadedCounted'
    BY <1>5, <2>1, <2>2, <2>3, <2>4, BeginKeepsForm DEF Reingest
  <2> QED
    BY <1>1, <1>2, <1>3, <1>5, <2>5 DEF Reingest, database, storage
<1>6. CASE Delete(r)
  <2>1. PICK d \in Doc \ {r} : request' = [request EXCEPT ![r] =
          [stage |-> IF Exists(d) THEN "loaded" ELSE "failed",
           op |-> "delete", doc |-> d, row |-> documents[d], file |-> Absent]]
    BY <1>6 DEF Delete
  <2> DEFINE q == [stage |-> IF Exists(d) THEN "loaded" ELSE "failed",
                   op |-> "delete", doc |-> d, row |-> documents[d], file |-> Absent]
  <2>2. q \in RequestType
    BY <1>1 DEF RequestType
  <2>3. request' = [request EXCEPT ![r] = q]
    BY <2>1
  <2>4. q.row # NoRow => q.row \in Row /\ q.row.version <= Cardinality(Started)
    BY <1>1 DEF Base, VersionsCounted
  <2>5. q.stage = "loaded" => q.row \in Row
    BY <1>1 DEF Exists
  <2>6. /\ request' \in [Request -> RequestType]
        /\ Cardinality(Started') = Cardinality(Started) + 1
        /\ RequestsFormed' /\ LoadedCounted'
    <3>1. q.stage \in {"loaded", "failed"} /\ q.op = "delete" /\ request[r].stage = "idle"
      BY <1>6 DEF Delete
    <3> HIDE DEF q
    <3> QED
      BY <2>2, <2>3, <2>4, <2>5, <3>1, BeginKeepsForm
  <2> QED
    BY <1>1, <1>2, <1>3, <1>6, <2>6 DEF Delete, database, storage
<1>7. CASE StoreFile(r)
  <2>1. /\ request[r].stage = "loaded" /\ request[r].op \in {"upload", "reingest"}
        /\ objects' = [objects EXCEPT ![Target(r)][NewKey(r)] = request[r].file.content]
        /\ To(r, "stored") /\ UNCHANGED <<documents, chunks, lock, extracted, task>>
    BY <1>1, <1>7 DEF StoreFile, database, RequestType, Base, RequestsFormed
  <2>2. objects' \in [Doc -> [Key -> Content \cup {Absent}]]
    BY <1>1, <2>1, NewRowFacts
  <2>3. /\ request' \in [Request -> RequestType] /\ Started' = Started
        /\ RequestsFormed' /\ LoadedCounted'
    BY <2>1, StageKeepsForm
  <2> QED
    BY <1>1, <1>2, <1>3, <2>1, <2>2, <2>3
<1>8. CASE EraseFile(r)
  <2>1. PICK s \in {"erasing", "erased"} : To(r, s)
    BY <1>8 DEF EraseFile
  <2>2. /\ request[r].stage = "loaded" /\ request[r].op = "delete"
        /\ objects' = [objects EXCEPT ![Target(r)][Loaded(r).key] = Absent]
        /\ UNCHANGED <<documents, chunks, lock, extracted, task>>
    BY <1>8 DEF EraseFile, database
  <2>3. objects' \in [Doc -> [Key -> Content \cup {Absent}]]
    BY <1>1, <2>2
  <2>4. /\ request' \in [Request -> RequestType] /\ Started' = Started
        /\ RequestsFormed' /\ LoadedCounted'
    BY <2>1, <2>2, StageKeepsForm
  <2> QED
    BY <1>1, <1>2, <1>3, <2>2, <2>3, <2>4
<1>9. CASE EraseText(r)
  <2>1. request[r].op = "delete"
    BY <1>9 DEF EraseText, Base, RequestsFormed
  <2>2. /\ request' \in [Request -> RequestType] /\ Started' = Started
        /\ RequestsFormed' /\ LoadedCounted'
    BY <1>9, <2>1, StageKeepsForm DEF EraseText
  <2>3. extracted' \in [Doc -> Content \cup {Absent}]
    BY <1>1, <1>9 DEF EraseText
  <2> QED
    BY <1>1, <1>2, <1>3, <1>9, <2>2, <2>3 DEF EraseText, database
<1>10. CASE LoadChunks(r)
  <2>1. PICK s \in {"childless", "refused"} : To(r, s)
    BY <1>10 DEF LoadChunks
  <2>2. request[r].stage # "idle" /\ request[r].op = "delete"
    BY <1>10 DEF LoadChunks, Base, RequestsFormed
  <2>3. /\ request' \in [Request -> RequestType] /\ Started' = Started
        /\ RequestsFormed' /\ LoadedCounted'
    BY <2>1, <2>2, StageKeepsForm
  <2> QED
    BY <1>1, <1>2, <1>3, <1>10, <2>3 DEF LoadChunks, database, storage
<1>11. CASE RequestFails(r)
  <2>1. request[r].stage # "idle" /\ To(r, "failed")
    BY <1>11 DEF RequestFails
  <2>2. /\ request' \in [Request -> RequestType] /\ Started' = Started
        /\ RequestsFormed' /\ LoadedCounted'
    BY <2>1, StageKeepsForm
  <2> QED
    BY <1>1, <1>2, <1>3, <1>11, <2>2 DEF RequestFails, database, storage
<1>12. ASSUME NEW s \in {"done", "failed"}, To(r, s), request[r].stage # "idle",
              UNCHANGED <<lock, objects, extracted, task>>,
              documents' \in [Doc -> Row \cup {NoRow}],
              chunks' \in [Doc -> SUBSET Chunk],
              \A d \in Doc : (lock[d] # Nobody /\ documents[d] # NoRow) => documents'[d] # NoRow,
              \A d \in Doc : documents'[d] # NoRow =>
                documents'[d].version <= Cardinality(Started)
       PROVE  Base'
  <2>1. /\ request' \in [Request -> RequestType] /\ Started' = Started
        /\ RequestsFormed' /\ LoadedCounted'
    BY <1>12, StageKeepsForm
  <2>2. TypeOK'
    BY <1>1, <1>12, <2>1, TypeParts DEF TypeOK, RequestType, TaskType
  <2>3. TasksFormed' /\ LocksHeld'
    BY <1>12, TasksUndisturbed
  <2>4. VersionsCounted'
    BY <1>12, <2>1 DEF VersionsCounted, LoadedCounted
  <2> QED
    BY <2>1, <2>2, <2>3, <2>4 DEF Base
<1>13. CASE SaveUpload(r)
  <2>1. request[r].stage = "stored" /\ request[r].op = "upload"
    BY <1>13 DEF SaveUpload, FileStored
  <2>2. Uploaded(r) \in Row /\ r \in Doc /\ Uploaded(r).version = 1
    BY <2>1, NewRowFacts DEF Doc, Uploaded
  <2>3. Cardinality(Started) >= 1
    BY <2>1, StartedFacts DEF Base, Started
  <2>4. CASE documents' = [documents EXCEPT ![r] = Uploaded(r)] /\ To(r, "done")
    <3>1. \A d \in Doc : documents'[d] # NoRow => documents'[d].version <= Cardinality(Started)
      BY <1>1, <1>3, <2>2, <2>3, <2>4 DEF Base, VersionsCounted
    <3>2. \A d \in Doc : documents[d] # NoRow => documents'[d] # NoRow
      BY <1>1, <2>2, <2>4, RowAssumption
    <3>3. documents' \in [Doc -> Row \cup {NoRow}]
      BY <1>1, <2>2, <2>4
    <3> QED
      BY <1>1, <1>12, <1>13, <2>1, <2>4, <3>1, <3>2, <3>3 DEF SaveUpload, storage
  <2>5. CASE UNCHANGED documents /\ To(r, "failed")
    BY <1>1, <1>12, <1>13, <2>1, <2>5 DEF SaveUpload, storage, Base, VersionsCounted
  <2> QED
    BY <1>13, <2>4, <2>5 DEF SaveUpload
<1>14. CASE SaveReingest(r)
  <2>1. request[r].stage = "stored" /\ request[r].op = "reingest"
    BY <1>14 DEF SaveReingest, FileStored
  <2>2. /\ Loaded(r) \in Row /\ Reingested(r) \in Row /\ Target(r) \in Doc
        /\ Reingested(r).version <= Cardinality(Started)
    BY <2>1, NewRowFacts
  <2>3. CASE /\ Exists(Target(r)) /\ To(r, "done")
             /\ documents' = [documents EXCEPT ![Target(r)] =
                                Written(@, Loaded(r), Reingested(r))]
    <3> DEFINE w == Written(documents[Target(r)], Loaded(r), Reingested(r))
    <3>1. documents[Target(r)] \in Row
      BY <1>1, <2>2, <2>3 DEF Exists
    <3>2. w \in Row /\ w.version \in {documents[Target(r)].version, Reingested(r).version}
      BY <2>2, <3>1, WrittenFacts
    <3>3. documents' = [documents EXCEPT ![Target(r)] = w]
      BY <2>3
    <3> HIDE DEF w
    <3>4. w # NoRow /\ w.version <= Cardinality(Started)
      BY <2>2, <2>3, <3>2, RowAssumption DEF Base, VersionsCounted, Exists
    <3>5. \A d \in Doc : documents'[d] # NoRow => documents'[d].version <= Cardinality(Started)
      BY <1>1, <2>2, <3>3, <3>4 DEF Base, VersionsCounted
    <3>6. \A d \in Doc : documents[d] # NoRow => documents'[d] # NoRow
      BY <1>1, <2>2, <3>3, <3>4
    <3>7. documents' \in [Doc -> Row \cup {NoRow}]
      BY <1>1, <2>2, <3>2, <3>3
    <3> QED
      BY <1>1, <1>12, <1>14, <2>1, <2>3, <3>5, <3>6, <3>7 DEF SaveReingest, storage
  <2>4. CASE UNCHANGED documents /\ To(r, "failed")
    BY <1>1, <1>12, <1>14, <2>1, <2>4 DEF SaveReingest, storage, Base, VersionsCounted
  <2> QED
    BY <1>14, <2>3, <2>4 DEF SaveReingest
<1>15. CASE DeleteRow(r)
  <2>1. /\ request[r].stage = "childless" /\ lock[Target(r)] = Nobody
        /\ documents' = [documents EXCEPT ![Target(r)] = NoRow]
        /\ chunks' = [chunks EXCEPT ![Target(r)] = {}]
        /\ To(r, "done") /\ UNCHANGED <<lock, objects, extracted, task>>
    BY <1>15 DEF DeleteRow, Unlocked, LeftByDelete, storage
  <2>2. Target(r) \in Doc
    BY <1>1 DEF Target, RequestType
  <2>3. documents' \in [Doc -> Row \cup {NoRow}] /\ chunks' \in [Doc -> SUBSET Chunk]
    BY <1>1, <2>1
  <2>4. \A d \in Doc : documents'[d] # NoRow => documents'[d] = documents[d]
    BY <1>1, <2>1, <2>2
  <2>5. \A d \in Doc : lock[d] # Nobody => documents'[d] = documents[d]
    BY <1>1, <2>1, <2>2
  <2> QED
    BY <1>12, <2>1, <2>3, <2>4, <2>5 DEF Base, VersionsCounted
<1> QED
  BY <1>4, <1>5, <1>6, <1>7, <1>8, <1>9, <1>10, <1>11, <1>13, <1>14, <1>15 DEF RequestStep

-----------------------------------------------------------------------------
(* What the steps of tasks keep. *)

(* MarkError changes the status and nothing else.                             *)
LEMMA ErrorWritten ==
  ASSUME NEW a \in Row, NEW b \in Row
  PROVE  LET w == Written(a, b, [b EXCEPT !.status = "ERROR"])
         IN /\ w \in Row /\ w.version = a.version /\ w.key = a.key
            /\ w.status \in {a.status, "ERROR"}
<1> DEFINE c == [b EXCEPT !.status = "ERROR"]
<1>1. c \in Row /\ c.version = b.version /\ c.key = b.key /\ c.status = "ERROR"
  BY DEF Row, Status
<1>2. DOMAIN a = {"version", "content", "name", "key", "status"}
  BY DEF Row
<1> HIDE DEF c
<1>3. Written(a, b, c) \in Row /\ Written(a, b, c).status \in {a.status, c.status}
  BY <1>1, WrittenFacts
<1>4. Written(a, b, c).version = a.version /\ Written(a, b, c).key = a.key
  BY <1>1, <1>2 DEF Written
<1> QED
  BY <1>1, <1>3, <1>4 DEF c

(* The end of a task's transaction gives its lock back and no other.          *)
LEMMA EndKeepsLocks ==
  ASSUME Base, NEW t \in Task, task[t].stage # "idle", lock' = AfterTransaction(t),
         task' \in [Task -> TaskType], \A u \in Task \ {t} : task'[u] = task[u],
         task'[t].stage \in {"failed", "ended"},
         \A d \in Doc : documents[d] # NoRow => documents'[d] # NoRow
  PROVE  lock' \in [Doc -> Task \cup {Nobody}] /\ LocksHeld'
<1>1. lock \in [Doc -> Task \cup {Nobody}] /\ Of(t) \in Doc
  BY TypeParts DEF Base, Of, TasksFormed
<1>2. lock' \in [Doc -> Task \cup {Nobody}]
  BY <1>1 DEF AfterTransaction
<1>3. ASSUME NEW u \in Task, task'[u].stage \in Working
      PROVE  lock'[task'[u].doc] = u /\ documents'[task'[u].doc] # NoRow
  <2>1. u # t /\ task'[u] = task[u]
    BY <1>3 DEF Working
  <2>2. lock[task[u].doc] = u /\ documents[task[u].doc] # NoRow /\ task[u].doc \in Doc
    BY <1>3, <2>1 DEF Base, LocksHeld, TasksFormed, Working
  <2>3. lock'[task[u].doc] = u
    BY <1>1, <2>1, <2>2 DEF AfterTransaction, Holds
  <2> QED
    BY <2>1, <2>2, <2>3
<1>4. ASSUME NEW d \in Doc, lock'[d] # Nobody
      PROVE  task'[lock'[d]].doc = d /\ task'[lock'[d]].stage \in Working
  <2>1. lock'[d] = lock[d]
    BY <1>1, <1>4 DEF AfterTransaction
  <2>2. lock[d] \in Task /\ task[lock[d]].doc = d /\ task[lock[d]].stage \in Working
    BY <1>1, <1>4, <2>1 DEF Base, LocksHeld
  <2>3. lock[d] # t
    BY <1>1, <1>4, <2>1, <2>2, FileAssumption DEF AfterTransaction, Holds, Of
  <2> QED
    BY <2>1, <2>2, <2>3
<1> QED
  BY <1>2, <1>3, <1>4 DEF LocksHeld

LEMMA TaskKeepsBase ==
  ASSUME Base, NEW t \in Task, TaskStep(t)
  PROVE  /\ Base' /\ request' = request /\ objects' = objects
         /\ \A d \in Doc : (documents[d] = NoRow <=> documents'[d] = NoRow)
         /\ \A d \in Doc : documents[d] # NoRow =>
              /\ documents'[d].key = documents[d].key
              /\ documents'[d].status \in {documents[d].status, "ACTIVE", "ERROR"}
<1>1. /\ documents \in [Doc -> Row \cup {NoRow}]
      /\ chunks \in [Doc -> SUBSET Chunk]
      /\ lock \in [Doc -> Task \cup {Nobody}]
      /\ objects \in [Doc -> [Key -> Content \cup {Absent}]]
      /\ extracted \in [Doc -> Content \cup {Absent}]
      /\ request \in [Request -> RequestType]
      /\ task \in [Task -> TaskType]
  BY TypeParts DEF Base
<1>2. ASSUME UNCHANGED <<objects, request>>,
             documents' \in [Doc -> Row \cup {NoRow}], chunks' \in [Doc -> SUBSET Chunk],
             lock' \in [Doc -> Task \cup {Nobody}], task' \in [Task -> TaskType],
             extracted' \in [Doc -> Content \cup {Absent}],
             \A d \in Doc : documents[d] = NoRow <=> documents'[d] = NoRow,
             \A d \in Doc : documents[d] # NoRow =>
               documents'[d].version = documents[d].version,
             TasksFormed', LocksHeld'
      PROVE  Base'
  <2>1. TypeOK'
    BY <1>1, <1>2, TypeParts DEF TypeOK, RequestType, TaskType
  <2>2. VersionsCounted' /\ RequestsFormed'
    BY <1>2 DEF Base, VersionsCounted, RequestsFormed, Started
  <2> QED
    BY <1>2, <2>1, <2>2 DEF Base
<1>3. \A d \in Doc : documents[d] # NoRow => documents[d] \in Row
  BY <1>1
<1>4. CASE LoadDocument(t)
  <2>1. PICK d \in Doc : task' = [task EXCEPT ![t] =
          [task[t] EXCEPT !.stage = IF Exists(d) THEN "loaded" ELSE "ended",
                          !.doc = d, !.row = documents[d]]]
    BY <1>1, <1>4 DEF LoadDocument
  <2> DEFINE k == [task[t] EXCEPT !.stage = IF Exists(d) THEN "loaded" ELSE "ended",
                                  !.doc = d, !.row = documents[d]]
  <2>0. /\ k \in TaskType /\ k.stage = IF Exists(d) THEN "loaded" ELSE "ended"
        /\ k.doc = d /\ k.row = documents[d]
    BY <1>1 DEF TaskType
  <2>2. /\ task' \in [Task -> TaskType] /\ \A u \in Task \ {t} : task'[u] = task[u]
        /\ task'[t].stage = IF Exists(d) THEN "loaded" ELSE "ended"
        /\ task'[t].doc = d /\ task'[t].row = documents[d]
    <3> HIDE DEF k
    <3>1. task' = [task EXCEPT ![t] = k]
      BY <2>1 DEF k
    <3> QED
      BY <1>1, <2>0, <3>1
  <2>3. TasksFormed'
    BY <1>1, <2>2 DEF Base, TasksFormed, Working, Exists
  <2>4. task[t].stage = "idle" /\ UNCHANGED <<documents, lock>>
    BY <1>4 DEF LoadDocument, database
  <2>5. \A e \in Doc : lock[e] # t
    BY <2>4, FileAssumption DEF Base, LocksHeld, Working
  <2>6. LocksHeld'
    BY <1>1, <2>2, <2>4, <2>5 DEF Base, LocksHeld, Working
  <2> QED
    BY <1>1, <1>2, <1>4, <2>2, <2>3, <2>6 DEF LoadDocument, database, storage
<1>5. CASE Claim(t)
  <2>1. /\ task[t].stage = "loaded" /\ lock[Of(t)] = Nobody /\ documents[Of(t)] # NoRow
        /\ lock' = [lock EXCEPT ![Of(t)] = t] /\ documents' = documents
        /\ UNCHANGED <<chunks, objects, extracted, request>>
    BY <1>5 DEF Claim, Claimed, Unlocked, Exists, storage
  <2>2. /\ task' \in [Task -> TaskType] /\ \A u \in Task \ {t} : task'[u] = task[u]
        /\ task'[t].stage = "claimed" /\ task'[t].doc = task[t].doc
        /\ task'[t].row = task[t].row /\ task'[t].text = task[t].text
    BY <1>5, TaskGoesOn DEF Claim, Base
  <2>3. Of(t) \in Doc /\ task[t].row \in Row
    BY <2>1 DEF Base, TasksFormed, Of
  <2>4. TasksFormed'
    BY <2>1, <2>2, <2>3 DEF Base, TasksFormed, Working, Of
  <2>5. LocksHeld'
    <3>1. ASSUME NEW u \in Task, task'[u].stage \in Working
          PROVE  lock'[task'[u].doc] = u /\ documents'[task'[u].doc] # NoRow
      <4>1. CASE u = t
        BY <1>1, <2>1, <2>2, <2>3, <4>1 DEF Of
      <4>2. CASE u # t
        <5>1. /\ lock[task[u].doc] = u /\ documents[task[u].doc] # NoRow
              /\ task[u].doc \in Doc /\ u # Nobody
          BY <2>2, <3>1, <4>2, FileAssumption DEF Base, LocksHeld, TasksFormed, Working
        <5> QED
          BY <1>1, <2>1, <2>2, <4>2, <5>1
      <4> QED
        BY <4>1, <4>2
    <3>2. ASSUME NEW d \in Doc, lock'[d] # Nobody
          PROVE  task'[lock'[d]].doc = d /\ task'[lock'[d]].stage \in Working
      <4>1. CASE d = Of(t)
        BY <1>1, <2>1, <2>2, <2>3, <4>1 DEF Of, Working
      <4>2. CASE d # Of(t)
        <5>1. lock'[d] = lock[d] /\ lock[d] \in Task
          BY <1>1, <2>1, <3>2, <4>2
        <5>2. task[lock[d]].doc = d /\ task[lock[d]].stage \in Working
          BY <3>2, <5>1 DEF Base, LocksHeld
        <5>3. lock[d] # t
          BY <2>1, <5>2 DEF Working
        <5> QED
          BY <2>2, <5>1, <5>2, <5>3
      <4> QED
        BY <4>1, <4>2
    <3> QED
      BY <3>1, <3>2 DEF LocksHeld
  <2> QED
    BY <1>1, <1>2, <2>1, <2>2, <2>3, <2>4, <2>5
<1>6. ASSUME UNCHANGED <<documents, chunks, lock, objects, request>>,
             extracted' \in [Doc -> Content \cup {Absent}],
             task' \in [Task -> TaskType], \A u \in Task \ {t} : task'[u] = task[u],
             task[t].stage \in Working, task'[t].stage \in Working,
             task'[t].doc = task[t].doc, TasksFormed'
      PROVE  Base'
  <2>1. ASSUME NEW u \in Task, task'[u].stage \in Working
        PROVE  lock'[task'[u].doc] = u /\ documents'[task'[u].doc] # NoRow
    <3>1. task[u].stage \in Working /\ task'[u].doc = task[u].doc
      BY <1>6, <2>1
    <3> QED
      BY <1>6, <3>1 DEF Base, LocksHeld
  <2>2. ASSUME NEW d \in Doc, lock'[d] # Nobody
        PROVE  task'[lock'[d]].doc = d /\ task'[lock'[d]].stage \in Working
    <3>1. lock'[d] = lock[d] /\ lock[d] \in Task
      BY <1>1, <1>6, <2>2
    <3>2. task[lock[d]].doc = d /\ task[lock[d]].stage \in Working
      BY <2>2, <3>1 DEF Base, LocksHeld
    <3>3. CASE lock[d] = t
      BY <1>6, <3>1, <3>2, <3>3
    <3>4. CASE lock[d] # t
      BY <1>6, <3>1, <3>2, <3>4
    <3> QED
      BY <3>3, <3>4
  <2>3. LocksHeld'
    BY <2>1, <2>2 DEF LocksHeld
  <2> QED
    BY <1>1, <1>2, <1>6, <2>3
<1>7. CASE Fetch(t)
  <2>1. /\ task[t].stage = "claimed" /\ UNCHANGED <<documents, chunks, lock, objects, extracted, request>>
        /\ objects[Of(t)][task[t].row.key] # Absent
        /\ task' = [task EXCEPT ![t] = [task[t] EXCEPT !.stage = "fetched",
                      !.text = objects[Of(t)][task[t].row.key]]]
    BY <1>1, <1>7 DEF Fetch, database, storage
  <2>2. Of(t) \in Doc /\ task[t].row \in Row
    BY <2>1 DEF Base, TasksFormed, Of, Working
  <2>3. objects[Of(t)][task[t].row.key] \in Content
    BY <1>1, <2>1, <2>2 DEF Row
  <2>4. /\ task' \in [Task -> TaskType] /\ \A u \in Task \ {t} : task'[u] = task[u]
        /\ task'[t].stage = "fetched" /\ task'[t].doc = task[t].doc
        /\ task'[t].row = task[t].row /\ task'[t].text \in Content
    BY <1>1, <2>1, <2>3 DEF TaskType
  <2>5. TasksFormed'
    BY <2>2, <2>4 DEF Base, TasksFormed, Working, Of
  <2> QED
    BY <1>1, <1>6, <2>1, <2>4, <2>5 DEF Working
<1>8. CASE Replace(t)
  <2>1. /\ task[t].stage = "fetched" /\ ChunkCount[task[t].text] > 0
        /\ UNCHANGED <<documents, chunks, lock, objects, extracted, request>>
    BY <1>8 DEF Replace, HasChunks, database, storage
  <2>2. /\ task' \in [Task -> TaskType] /\ \A u \in Task \ {t} : task'[u] = task[u]
        /\ task'[t].stage = "replaced" /\ task'[t].doc = task[t].doc
        /\ task'[t].row = task[t].row /\ task'[t].text = task[t].text
    BY <1>8, TaskGoesOn DEF Replace, Base
  <2>3. TasksFormed'
    BY <2>1, <2>2 DEF Base, TasksFormed, Working
  <2> QED
    BY <1>1, <1>6, <2>1, <2>2, <2>3 DEF Working
<1>9. CASE StoreText(t)
  <2>1. /\ task[t].stage = "replaced" /\ extracted' = [extracted EXCEPT ![Of(t)] = task[t].text]
        /\ UNCHANGED <<documents, chunks, lock, objects, request>>
    BY <1>9 DEF StoreText, database
  <2>2. /\ task' \in [Task -> TaskType] /\ \A u \in Task \ {t} : task'[u] = task[u]
        /\ task'[t].stage = "extracted" /\ task'[t].doc = task[t].doc
        /\ task'[t].row = task[t].row /\ task'[t].text = task[t].text
    BY <1>9, TaskGoesOn DEF StoreText, Base
  <2>3. TasksFormed'
    BY <2>1, <2>2 DEF Base, TasksFormed, Working
  <2>4. extracted' \in [Doc -> Content \cup {Absent}]
    BY <1>1, <2>1 DEF Base, TasksFormed
  <2> QED
    BY <1>1, <1>6, <2>1, <2>2, <2>3, <2>4 DEF Working
<1>10. ASSUME UNCHANGED <<objects, extracted, request>>, lock' = AfterTransaction(t),
              documents' \in [Doc -> Row \cup {NoRow}], chunks' \in [Doc -> SUBSET Chunk],
              \A d \in Doc : documents[d] = NoRow <=> documents'[d] = NoRow,
              \A d \in Doc : documents[d] # NoRow =>
                documents'[d].version = documents[d].version,
              task[t].stage # "idle", NEW s \in {"failed", "ended"}, Become(t, s)
       PROVE  Base'
  <2>1. /\ task' \in [Task -> TaskType] /\ \A u \in Task \ {t} : task'[u] = task[u]
        /\ task'[t].stage = s /\ task'[t].doc = task[t].doc
    BY <1>10, TaskGoesOn DEF Base
  <2>2. TasksFormed'
    BY <1>10, <2>1 DEF Base, TasksFormed, Working
  <2>3. lock' \in [Doc -> Task \cup {Nobody}] /\ LocksHeld'
    BY <1>10, <2>1, EndKeepsLocks
  <2> QED
    BY <1>1, <1>2, <1>10, <2>1, <2>2, <2>3
<1>11. CASE CommitActive(t)
  <2>1. /\ task[t].stage = "extracted" /\ lock' = AfterTransaction(t) /\ Become(t, "ended")
        /\ documents' = [documents EXCEPT ![Of(t)].status = "ACTIVE"]
        /\ chunks' = [chunks EXCEPT ![Of(t)] = Deactivated(t) \cup NewChunks(t)]
        /\ UNCHANGED <<objects, extracted, request>>
    BY <1>11 DEF CommitActive, storage
  <2>2. /\ Of(t) \in Doc /\ documents[Of(t)] \in Row /\ task[t].row \in Row
        /\ task[t].text \in Content
    BY <1>3, <2>1 DEF Base, TasksFormed, LocksHeld, Of, Working
  <2>3. Deactivated(t) \in SUBSET Chunk
    <3>1. ASSUME NEW c \in chunks[Of(t)] PROVE [c EXCEPT !.active = FALSE] \in Chunk
      <4>1. c \in Chunk
        BY <1>1, <2>2
      <4>2. FALSE \in BOOLEAN
        OBVIOUS
      <4> QED
        BY <4>1, <4>2, Zenon DEF Chunk
    <3> QED
      BY <3>1 DEF Deactivated
  <2>4. NewChunks(t) \in SUBSET Chunk
    <3>1. /\ {t} \subseteq Task /\ {task[t].row.version} \subseteq Version
          /\ {task[t].text} \subseteq Content /\ {TRUE} \subseteq BOOLEAN
      BY <2>2 DEF Row
    <3>2. 1..ChunkCount[task[t].text] \subseteq Nat
      BY <2>2, FileAssumption
    <3> QED
      BY <3>1, <3>2, Zenon DEF NewChunks, Chunk
  <2>5. chunks' \in [Doc -> SUBSET Chunk]
    BY <1>1, <2>1, <2>3, <2>4
  <2>6. documents' = [documents EXCEPT ![Of(t)] = [documents[Of(t)] EXCEPT !.status = "ACTIVE"]]
    BY <2>1
  <2> DEFINE w == [documents[Of(t)] EXCEPT !.status = "ACTIVE"]
  <2>7. w \in Row /\ w.version = documents[Of(t)].version /\ w.key = documents[Of(t)].key
        /\ w.status = "ACTIVE"
    BY <2>2 DEF Row, Status
  <2>8. documents' = [documents EXCEPT ![Of(t)] = w] /\ w # NoRow
    BY <2>6, <2>7, RowAssumption
  <2> HIDE DEF w
  <2>9. /\ documents' \in [Doc -> Row \cup {NoRow}]
        /\ \A d \in Doc : documents[d] = NoRow <=> documents'[d] = NoRow
        /\ \A d \in Doc : documents[d] # NoRow =>
             /\ documents'[d].version = documents[d].version
             /\ documents'[d].key = documents[d].key
             /\ documents'[d].status \in {documents[d].status, "ACTIVE"}
    BY <1>1, <2>2, <2>7, <2>8, RowAssumption
  <2>10. Base'
    BY <1>10, <2>1, <2>5, <2>9
  <2> QED
    BY <2>1, <2>9, <2>10
<1>12. CASE Fail(t)
  <2>1. /\ chunks' = chunks /\ lock' = AfterTransaction(t) /\ Become(t, "failed")
        /\ task[t].stage # "idle" /\ UNCHANGED <<documents, objects, extracted, request>>
    BY <1>1, <1>12 DEF Fail, AfterRollback, Trying, storage
  <2> QED
    BY <1>1, <1>10, <2>1
<1>13. CASE Recover(t)
  <2>1. /\ task[t].stage = "failed" /\ UNCHANGED <<documents, chunks, lock, objects, extracted, request>>
        /\ task' = [task EXCEPT ![t] =
             [task[t] EXCEPT !.stage = IF Exists(Of(t)) THEN "recovered" ELSE "ended",
                             !.row = documents[Of(t)]]]
    BY <1>1, <1>13 DEF Recover, database, storage
  <2>2. Of(t) \in Doc
    BY <2>1 DEF Base, TasksFormed, Of
  <2>3. /\ task' \in [Task -> TaskType] /\ \A u \in Task \ {t} : task'[u] = task[u]
        /\ task'[t].stage = IF Exists(Of(t)) THEN "recovered" ELSE "ended"
        /\ task'[t].doc = task[t].doc /\ task'[t].row = documents[Of(t)]
    <3> DEFINE k == [task[t] EXCEPT !.stage = IF Exists(Of(t)) THEN "recovered" ELSE "ended",
                                    !.row = documents[Of(t)]]
    <3>1. /\ k \in TaskType /\ k.stage = IF Exists(Of(t)) THEN "recovered" ELSE "ended"
          /\ k.doc = task[t].doc /\ k.row = documents[Of(t)]
      BY <1>1, <2>2 DEF TaskType
    <3>2. task' = [task EXCEPT ![t] = k]
      BY <2>1
    <3> HIDE DEF k
    <3> QED
      BY <1>1, <3>1, <3>2
  <2>4. TasksFormed'
    BY <1>1, <2>2, <2>3 DEF Base, TasksFormed, Working, Exists, Of
  <2>5. \A e \in Doc : lock[e] # t
    BY <2>1, FileAssumption DEF Base, LocksHeld, Working
  <2>6. LocksHeld'
    BY <1>1, <2>1, <2>3, <2>5 DEF Base, LocksHeld, Working
  <2> QED
    BY <1>1, <1>2, <2>1, <2>3, <2>4, <2>6
<1>14. CASE MarkError(t)
  <2>1. /\ task[t].stage = "recovered" /\ UNCHANGED <<chunks, lock, objects, extracted, request>>
        /\ documents' = IF Exists(Of(t))
                          THEN [documents EXCEPT ![Of(t)] =
                                  Written(@, task[t].row, [task[t].row EXCEPT !.status = "ERROR"])]
                          ELSE documents
    BY <1>14 DEF MarkError, storage
  <2>2. /\ task' \in [Task -> TaskType] /\ \A u \in Task \ {t} : task'[u] = task[u]
        /\ task'[t].stage = "ended" /\ task'[t].doc = task[t].doc
    BY <1>14, TaskGoesOn DEF MarkError, Base
  <2>3. Of(t) \in Doc /\ task[t].row \in Row
    BY <2>1 DEF Base, TasksFormed, Of
  <2>4. TasksFormed'
    BY <2>1, <2>2 DEF Base, TasksFormed, Working
  <2>5. /\ documents' \in [Doc -> Row \cup {NoRow}]
        /\ \A d \in Doc : documents[d] = NoRow <=> documents'[d] = NoRow
        /\ \A d \in Doc : documents[d] # NoRow =>
             /\ documents'[d].version = documents[d].version
             /\ documents'[d].key = documents[d].key
             /\ documents'[d].status \in {documents[d].status, "ERROR"}
    <3>1. CASE ~Exists(Of(t))
      BY <1>1, <2>1, <3>1
    <3>2. CASE Exists(Of(t))
      <4> DEFINE w == Written(documents[Of(t)], task[t].row,
                              [task[t].row EXCEPT !.status = "ERROR"])
      <4>1. documents[Of(t)] \in Row
        BY <1>3, <2>3, <3>2 DEF Exists
      <4>2. /\ w \in Row /\ w.version = documents[Of(t)].version
            /\ w.key = documents[Of(t)].key
            /\ w.status \in {documents[Of(t)].status, "ERROR"}
        BY <2>3, <4>1, ErrorWritten
      <4>3. documents' = [documents EXCEPT ![Of(t)] = w]
        BY <2>1, <3>2
      <4> HIDE DEF w
      <4> QED
        BY <1>1, <2>3, <4>1, <4>2, <4>3, RowAssumption
    <3> QED
      BY <3>1, <3>2
  <2>6. \A e \in Doc : lock[e] # t
    BY <2>1, FileAssumption DEF Base, LocksHeld, Working
  <2>7. LocksHeld'
    <3>1. ASSUME NEW u \in Task, task'[u].stage \in Working
          PROVE  lock'[task'[u].doc] = u /\ documents'[task'[u].doc] # NoRow
      <4>1. u # t /\ task'[u] = task[u] /\ task[u].stage \in Working
        BY <2>2, <3>1 DEF Working
      <4>2. task[u].doc \in Doc
        BY <4>1 DEF Base, TasksFormed, Working
      <4>3. lock[task[u].doc] = u /\ documents[task[u].doc] # NoRow
        BY <4>1 DEF Base, LocksHeld
      <4> QED
        BY <2>1, <2>5, <4>1, <4>2, <4>3
    <3>2. \A d \in Doc : lock'[d] # Nobody =>
            task'[lock'[d]].doc = d /\ task'[lock'[d]].stage \in Working
      BY <1>1, <2>1, <2>2, <2>6 DEF Base, LocksHeld
    <3> QED
      BY <3>1, <3>2 DEF LocksHeld
  <2>8. Base'
    BY <1>1, <1>2, <2>1, <2>2, <2>4, <2>5, <2>7
  <2> QED
    BY <2>1, <2>5, <2>8
<1>15. CASE Crash(t)
  <2>1. /\ lock' = AfterTransaction(t) /\ Become(t, "ended")
        /\ task[t].stage # "idle" /\ UNCHANGED <<documents, chunks, objects, extracted, request>>
    BY <1>15 DEF Crash, Trying, storage
  <2> QED
    BY <1>1, <1>10, <2>1
<1> QED
  BY <1>1, <1>4, <1>5, <1>7, <1>8, <1>9, <1>11, <1>12, <1>13, <1>14, <1>15
     DEF TaskStep, LoadDocument, Claim, Claimed, Fetch, Replace, StoreText, Fail, Recover,
         Crash, database, storage

-----------------------------------------------------------------------------
(* What is searchable. *)

StaysSearchable == \A d \in Doc : Active(d) # {} => Active(d)' # {} \/ ~Exists(d)'

(* Without a change of chunks it is enough that no row is lost and none       *)
(* becomes ACTIVE.                                                            *)
LEMMA SearchableKept ==
  ASSUME Searchable, chunks' = chunks,
         \A d \in Doc : documents'[d] = NoRow => documents[d] = NoRow,
         \A d \in Doc : (documents'[d] # NoRow /\ documents'[d].status = "ACTIVE")
                        => documents[d] # NoRow /\ documents[d].status = "ACTIVE"
  PROVE  Searchable' /\ StaysSearchable
<1>1. \A d \in Doc : Active(d)' = Active(d)
  BY DEF Active
<1>2. OneRunIsSearchable'
  BY <1>1 DEF Searchable, OneRunIsSearchable
<1>3. ActiveHasChunks'
  BY <1>1 DEF Searchable, ActiveHasChunks, Exists
<1>4. NoOrphanChunks'
  BY DEF Searchable, NoOrphanChunks, Exists
<1> QED
  BY <1>1, <1>2, <1>3, <1>4 DEF Searchable, StaysSearchable

LEMMA RequestKeepsSearchable ==
  ASSUME Base, Searchable, NEW r \in Request, RequestStep(r)
  PROVE  Searchable' /\ StaysSearchable
<1>1. /\ documents \in [Doc -> Row \cup {NoRow}]
      /\ chunks \in [Doc -> SUBSET Chunk]
  BY TypeParts DEF Base
<1>2. CASE UNCHANGED <<documents, chunks>>
  BY <1>2, SearchableKept
<1>3. CASE SaveUpload(r)
  <2>1. request[r].stage = "stored" /\ request[r].op = "upload" /\ UNCHANGED chunks
    BY <1>3 DEF SaveUpload, FileStored
  <2>2. Uploaded(r) \in Row /\ Uploaded(r).status = "PENDING" /\ Uploaded(r) # NoRow /\ r \in Doc
    BY <2>1, NewRowFacts, RowAssumption DEF Doc, Uploaded
  <2>3. CASE documents' = [documents EXCEPT ![r] = Uploaded(r)]
    <3>1. \A d \in Doc : documents'[d] = IF d = r THEN Uploaded(r) ELSE documents[d]
      BY <1>1, <2>3
    <3> QED
      BY <2>1, <2>2, <3>1, SearchableKept
  <2> QED
    BY <1>2, <1>3, <2>1, <2>3 DEF SaveUpload
<1>4. CASE SaveReingest(r)
  <2>1. request[r].stage = "stored" /\ request[r].op = "reingest" /\ UNCHANGED chunks
    BY <1>4 DEF SaveReingest, FileStored
  <2>2. Loaded(r) \in Row /\ Reingested(r) \in Row /\ Reingested(r).status = "PENDING"
        /\ Target(r) \in Doc
    BY <2>1, NewRowFacts
  <2> DEFINE w == Written(documents[Target(r)], Loaded(r), Reingested(r))
  <2>3. CASE Exists(Target(r)) /\ documents' = [documents EXCEPT ![Target(r)] = w]
    <3>1. documents[Target(r)] \in Row
      BY <1>1, <2>2, <2>3 DEF Exists
    <3>2. w \in Row /\ w # NoRow /\ w.status \in {documents[Target(r)].status, "PENDING"}
      BY <2>2, <3>1, WrittenFacts, RowAssumption
    <3> HIDE DEF w
    <3>3. \A d \in Doc : documents'[d] = IF d = Target(r) THEN w ELSE documents[d]
      BY <1>1, <2>3
    <3>4. documents[Target(r)] # NoRow
      BY <2>3 DEF Exists
    <3> QED
      BY <2>1, <2>2, <3>2, <3>3, <3>4, SearchableKept
  <2> QED
    BY <1>2, <1>4, <2>1, <2>3 DEF SaveReingest
<1>5. CASE DeleteRow(r)
  <2>1. /\ documents' = [documents EXCEPT ![Target(r)] = NoRow]
        /\ chunks' = [chunks EXCEPT ![Target(r)] = {}]
    BY <1>5 DEF DeleteRow, LeftByDelete
  <2>2. \A d \in Doc : /\ documents'[d] = IF d = Target(r) THEN NoRow ELSE documents[d]
                       /\ chunks'[d] = IF d = Target(r) THEN {} ELSE chunks[d]
    BY <1>1, <2>1
  <2>3. \A d \in Doc : Active(d)' = IF d = Target(r) THEN {} ELSE Active(d)
    BY <2>2 DEF Active
  <2>4. OneRunIsSearchable'
    <3> SUFFICES ASSUME NEW d \in Doc, NEW c \in Active(d)'
                 PROVE  /\ \A e \in Active(d)' : e.run = c.run
                        /\ {e.index : e \in Active(d)'} = 1..ChunkCount[c.content]
      BY DEF OneRunIsSearchable
    <3>1. Active(d)' = Active(d)
      BY <2>3
    <3> QED
      BY <3>1 DEF Searchable, OneRunIsSearchable
  <2>5. ActiveHasChunks'
    BY <2>2, <2>3 DEF Searchable, ActiveHasChunks, Exists
  <2>6. NoOrphanChunks'
    BY <2>2 DEF Searchable, NoOrphanChunks, Exists
  <2>7. StaysSearchable
    BY <2>2, <2>3 DEF StaysSearchable, Exists
  <2> QED
    BY <2>4, <2>5, <2>6, <2>7 DEF Searchable
<1> QED
  BY <1>2, <1>3, <1>4, <1>5
     DEF RequestStep, Upload, Reingest, Delete, StoreFile, EraseFile, EraseText, LoadChunks,
         RequestFails, database

(* The commit of a run makes its chunks, all of them and no others, the ones  *)
(* retrieval sees.                                                            *)
LEMMA CommitSwaps ==
  ASSUME Base, NEW t \in Task, CommitActive(t), NEW o \in Doc, o = Of(t)
  PROVE  /\ task[t].text \in Content /\ ChunkCount[task[t].text] \in Nat
         /\ ChunkCount[task[t].text] > 0
         /\ documents[o] \in Row /\ documents'[o] \in Row /\ documents'[o].status = "ACTIVE"
         /\ \A d \in Doc \ {o} : documents'[d] = documents[d] /\ chunks'[d] = chunks[d]
         /\ Active(o)' = NewChunks(t)
         /\ \A d \in Doc \ {o} : Active(d)' = Active(d)
<1>1. /\ documents \in [Doc -> Row \cup {NoRow}] /\ chunks \in [Doc -> SUBSET Chunk]
  BY TypeParts DEF Base
<1>2. /\ task[t].stage = "extracted"
      /\ documents' = [documents EXCEPT ![o].status = "ACTIVE"]
      /\ chunks' = [chunks EXCEPT ![o] = Deactivated(t) \cup NewChunks(t)]
  BY DEF CommitActive
<1>3. /\ documents[o] \in Row
      /\ task[t].text \in Content /\ ChunkCount[task[t].text] > 0
  BY <1>1, <1>2 DEF Base, TasksFormed, LocksHeld, Of, Working
<1>4. ChunkCount[task[t].text] \in Nat
  BY <1>3, FileAssumption
<1>5. \A d \in Doc : chunks'[d] = IF d = o THEN Deactivated(t) \cup NewChunks(t) ELSE chunks[d]
  BY <1>1, <1>2
<1>6. \A d \in Doc \ {o} : documents'[d] = documents[d]
  BY <1>1, <1>2
<1>7. documents'[o] \in Row /\ documents'[o].status = "ACTIVE"
  <2>1. documents'[o] = [documents[o] EXCEPT !.status = "ACTIVE"]
    BY <1>1, <1>2, <1>3
  <2> QED
    BY <1>3, <2>1 DEF Row, Status
<1>8. \A c \in Deactivated(t) : c.active = FALSE
  <2>1. ASSUME NEW b \in chunks[o] PROVE [b EXCEPT !.active = FALSE].active = FALSE
    <3>1. b \in Chunk
      BY <1>1, <1>3
    <3> QED
      BY <3>1 DEF Chunk
  <2>2. ASSUME NEW c \in Deactivated(t) PROVE c.active = FALSE
    <3>1. PICK b \in chunks[o] : c = [b EXCEPT !.active = FALSE]
      BY Zenon DEF Deactivated
    <3>2. [b EXCEPT !.active = FALSE].active = FALSE
      BY <2>1
    <3> QED
      BY <3>1, <3>2, Zenon
  <2> QED
    BY <2>2
<1>9. \A c \in NewChunks(t) : c.active = TRUE
  BY DEF NewChunks
<1>10. Active(o)' = NewChunks(t)
  <2>1. Active(o)' = {c \in Deactivated(t) \cup NewChunks(t) : c.active}
    BY <1>3, <1>5 DEF Active
  <2> QED
    BY <1>8, <1>9, <2>1
<1>11. \A d \in Doc \ {o} : Active(d)' = Active(d)
  BY <1>5 DEF Active
<1> QED
  BY <1>3, <1>4, <1>5, <1>6, <1>7, <1>10, <1>11

(* The chunks a run makes are of one content and numbered from 1.             *)
LEMMA NewChunksFacts ==
  ASSUME NEW t \in Task, ChunkCount[task[t].text] \in Nat, ChunkCount[task[t].text] > 0
  PROVE  /\ \A c \in NewChunks(t) : /\ c.run = t /\ c.content = task[t].text
                                    /\ c.index \in 1..ChunkCount[task[t].text]
         /\ \A i \in 1..ChunkCount[task[t].text] : \E c \in NewChunks(t) : c.index = i
         /\ {c.index : c \in NewChunks(t)} = 1..ChunkCount[task[t].text]
         /\ NewChunks(t) # {}
<1>1. \A c \in NewChunks(t) : /\ c.run = t /\ c.content = task[t].text
                              /\ c.index \in 1..ChunkCount[task[t].text]
  BY DEF NewChunks
<1>2. ASSUME NEW i \in 1..ChunkCount[task[t].text]
      PROVE  \E c \in NewChunks(t) : c.index = i
  <2> DEFINE c == [run |-> t, version |-> task[t].row.version, content |-> task[t].text,
                   index |-> i, active |-> TRUE]
  <2>1. c \in NewChunks(t)
    BY DEF NewChunks
  <2>2. c.index = i
    OBVIOUS
  <2> QED
    BY <2>1, <2>2
<1>3. {c.index : c \in NewChunks(t)} = 1..ChunkCount[task[t].text]
  BY <1>1, <1>2
<1>4. 1 \in 1..ChunkCount[task[t].text]
  OBVIOUS
<1> QED
  BY <1>1, <1>2, <1>3, <1>4

LEMMA CommitKeepsSearchable ==
  ASSUME Base, Searchable, NEW t \in Task, CommitActive(t)
  PROVE  Searchable' /\ StaysSearchable
<1>0. PICK o \in Doc : o = Of(t)
  BY DEF CommitActive, Base, TasksFormed, Of
<1>1. /\ ChunkCount[task[t].text] \in Nat /\ ChunkCount[task[t].text] > 0
      /\ documents'[o] # NoRow
      /\ \A d \in Doc \ {o} : documents'[d] = documents[d] /\ chunks'[d] = chunks[d]
      /\ Active(o)' = NewChunks(t)
      /\ \A d \in Doc \ {o} : Active(d)' = Active(d)
  BY <1>0, CommitSwaps, RowAssumption
<1>2. /\ \A c \in NewChunks(t) : c.run = t /\ c.content = task[t].text
      /\ {c.index : c \in NewChunks(t)} = 1..ChunkCount[task[t].text]
      /\ NewChunks(t) # {}
  BY <1>1, NewChunksFacts
<1>3. OneRunIsSearchable'
  <2> SUFFICES ASSUME NEW d \in Doc, NEW c \in Active(d)'
               PROVE  /\ \A e \in Active(d)' : e.run = c.run
                      /\ {e.index : e \in Active(d)'} = 1..ChunkCount[c.content]
    BY DEF OneRunIsSearchable
  <2>1. CASE d = o
    BY <1>1, <1>2, <2>1
  <2>2. CASE d # o
    <3>1. Active(d)' = Active(d)
      BY <1>1, <2>2
    <3> QED
      BY <3>1 DEF Searchable, OneRunIsSearchable
  <2> QED
    BY <2>1, <2>2
<1>4. ActiveHasChunks'
  BY <1>1, <1>2 DEF Searchable, ActiveHasChunks, Exists
<1>5. NoOrphanChunks'
  BY <1>1 DEF Searchable, NoOrphanChunks, Exists
<1>6. StaysSearchable
  BY <1>1, <1>2 DEF StaysSearchable
<1> QED
  BY <1>3, <1>4, <1>5, <1>6 DEF Searchable

LEMMA TaskKeepsSearchable ==
  ASSUME Base, Searchable, NEW t \in Task, TaskStep(t)
  PROVE  Searchable' /\ StaysSearchable
<1>1. /\ documents \in [Doc -> Row \cup {NoRow}] /\ chunks \in [Doc -> SUBSET Chunk]
  BY TypeParts DEF Base
<1>2. CASE UNCHANGED <<documents, chunks>>
  BY <1>2, SearchableKept
<1>3. CASE Fail(t)
  <2>1. chunks' = chunks /\ documents' = documents
    BY <1>1, <1>3 DEF Fail, AfterRollback
  <2> QED
    BY <1>2, <2>1
<1>4. CASE MarkError(t)
  <2>1. task[t].stage = "recovered" /\ UNCHANGED chunks
    BY <1>4 DEF MarkError
  <2>2. Of(t) \in Doc /\ task[t].row \in Row
    BY <2>1 DEF Base, TasksFormed, Of
  <2> DEFINE w == Written(documents[Of(t)], task[t].row, [task[t].row EXCEPT !.status = "ERROR"])
  <2>3. CASE Exists(Of(t)) /\ documents' = [documents EXCEPT ![Of(t)] = w]
    <3>1. documents[Of(t)] \in Row /\ documents[Of(t)] # NoRow
      BY <1>1, <2>2, <2>3 DEF Exists
    <3>2. w \in Row /\ w # NoRow /\ w.status \in {documents[Of(t)].status, "ERROR"}
      BY <2>2, <3>1, ErrorWritten, RowAssumption
    <3> HIDE DEF w
    <3>3. \A d \in Doc : documents'[d] = IF d = Of(t) THEN w ELSE documents[d]
      BY <1>1, <2>3
    <3> QED
      BY <2>1, <2>2, <3>1, <3>2, <3>3, SearchableKept
  <2> QED
    BY <1>2, <1>4, <2>1, <2>3 DEF MarkError
<1> QED
  BY <1>2, <1>3, <1>4, CommitKeepsSearchable
     DEF TaskStep, LoadDocument, Claim, Claimed, Fetch, Replace, StoreText, Recover, Crash,
         database

-----------------------------------------------------------------------------
(* The files behind the rows. *)

(* Only a request that has begun can be a delete: what a delete has begun     *)
(* stays begun.                                                              *)
IdleIsNew == \A r \in Request : request[r].stage = "idle" => request[r].op = "none"

FilesHold == Files /\ IdleIsNew

LEMMA ErasureStays ==
  ASSUME NEW r \in Request, \A q \in Request \ {r} : request'[q] = request[q],
         \/ request[r].op # "delete"
         \/ /\ request'[r].op = request[r].op /\ request'[r].doc = request[r].doc
            /\ request[r].stage # "loaded" => request'[r].stage # "loaded"
  PROVE  \A d \in Doc : ErasureBegun(d) => ErasureBegun(d)'
<1> SUFFICES ASSUME NEW d \in Doc, NEW q \in Request,
                    request[q].op = "delete", request[q].doc = d, request[q].stage # "loaded"
             PROVE  /\ request'[q].op = "delete" /\ request'[q].doc = d
                    /\ request'[q].stage # "loaded"
  BY DEF ErasureBegun, Target
<1>1. CASE q = r
  BY <1>1
<1>2. CASE q # r
  BY <1>2
<1> QED
  BY <1>1, <1>2

(* A request that begins is loaded or has failed at once.                     *)
LEMMA Begins ==
  ASSUME Base, NEW r \in Request, Upload(r) \/ Reingest(r) \/ Delete(r)
  PROVE  /\ request[r].stage = "idle" /\ request'[r].stage \in {"loaded", "failed"}
         /\ \A q \in Request \ {r} : request'[q] = request[q]
         /\ UNCHANGED <<documents, chunks, objects, task>>
<1>1. /\ request \in [Request -> RequestType] /\ request[r].stage = "idle"
      /\ UNCHANGED <<documents, chunks, objects, task>>
  BY TypeParts DEF Base, Upload, Reingest, Delete, database, storage
<1>2. PICK q : request' = [request EXCEPT ![r] = q] /\ q.stage \in {"loaded", "failed"}
  <2>1. CASE Upload(r)
    <3>1. PICK f \in File : request' = [request EXCEPT ![r] =
            [stage |-> IF Unique(r, f.content) THEN "loaded" ELSE "failed",
             op |-> "upload", doc |-> r, row |-> NoRow, file |-> f]]
      BY <2>1 DEF Upload
    <3> DEFINE q == [stage |-> IF Unique(r, f.content) THEN "loaded" ELSE "failed",
                     op |-> "upload", doc |-> r, row |-> NoRow, file |-> f]
    <3>2. q.stage \in {"loaded", "failed"}
      OBVIOUS
    <3> HIDE DEF q
    <3>3. request' = [request EXCEPT ![r] = q]
      BY <3>1 DEF q
    <3> QED
      BY <3>2, <3>3
  <2>2. CASE Reingest(r)
    <3>1. PICK f \in File, d \in Doc \ {r} : request' = [request EXCEPT ![r] =
            [stage |-> IF Exists(d) THEN "loaded" ELSE "failed",
             op |-> "reingest", doc |-> d, row |-> documents[d], file |-> f]]
      BY <2>2 DEF Reingest
    <3> DEFINE q == [stage |-> IF Exists(d) THEN "loaded" ELSE "failed",
                     op |-> "reingest", doc |-> d, row |-> documents[d], file |-> f]
    <3>2. q.stage \in {"loaded", "failed"}
      OBVIOUS
    <3> HIDE DEF q
    <3>3. request' = [request EXCEPT ![r] = q]
      BY <3>1 DEF q
    <3> QED
      BY <3>2, <3>3
  <2>3. CASE Delete(r)
    <3>1. PICK d \in Doc \ {r} : request' = [request EXCEPT ![r] =
            [stage |-> IF Exists(d) THEN "loaded" ELSE "failed",
             op |-> "delete", doc |-> d, row |-> documents[d], file |-> Absent]]
      BY <2>3 DEF Delete
    <3> DEFINE q == [stage |-> IF Exists(d) THEN "loaded" ELSE "failed",
                     op |-> "delete", doc |-> d, row |-> documents[d], file |-> Absent]
    <3>2. q.stage \in {"loaded", "failed"}
      OBVIOUS
    <3> HIDE DEF q
    <3>3. request' = [request EXCEPT ![r] = q]
      BY <3>1 DEF q
    <3> QED
      BY <3>2, <3>3
  <2> QED
    BY <2>1, <2>2, <2>3
<1>3. request'[r] = q /\ \A p \in Request \ {r} : request'[p] = request[p]
  BY <1>1, <1>2
<1> QED
  BY <1>1, <1>2, <1>3

(* A step keeps the files when what it erases is of a document being deleted, *)
(* and what it writes into a row, or has stored, is there.                     *)
LEMMA FilesKept ==
  ASSUME Base, Base', FilesHold, NEW r \in Request,
         \A q \in Request \ {r} : request'[q] = request[q], request'[r].stage # "idle",
         \A d \in Doc : ErasureBegun(d) => ErasureBegun(d)',
         \A d \in Doc : \A k \in Key :
           objects[d][k] # Absent => objects'[d][k] # Absent \/ ErasureBegun(d)',
         \A d \in Doc : (documents'[d] # NoRow /\ ~ErasureBegun(d)') =>
           \/ documents[d] # NoRow /\ documents'[d].key = documents[d].key
           \/ objects[d][documents'[d].key] # Absent,
         request'[r].stage = "stored" =>
           objects'[Target(r)'][NewKey(r)'] # Absent
  PROVE  FilesHold'
<1>1. /\ documents' \in [Doc -> Row \cup {NoRow}]
      /\ documents \in [Doc -> Row \cup {NoRow}]
  <2>1. TypeOK /\ TypeOK'
    BY DEF Base
  <2> QED
    BY <2>1 DEF TypeOK
<1>2. IdleIsNew'
  BY DEF FilesHold, IdleIsNew
<1>3. FileOfRowIsStored'
  <2> SUFFICES ASSUME NEW d \in Doc, documents'[d] # NoRow, ~ErasureBegun(d)'
               PROVE  objects'[d][documents'[d].key] # Absent
    BY DEF FileOfRowIsStored, Exists
  <2>1. documents'[d].key \in Key
    BY <1>1 DEF Row
  <2>2. ~ErasureBegun(d)
    OBVIOUS
  <2>3. CASE documents[d] # NoRow /\ documents'[d].key = documents[d].key
    <3>1. objects[d][documents[d].key] # Absent
      BY <2>2, <2>3 DEF FilesHold, Files, FileOfRowIsStored, Exists
    <3> QED
      BY <2>1, <2>3, <3>1
  <2>4. CASE objects[d][documents'[d].key] # Absent
    BY <2>1, <2>4
  <2> QED
    BY <2>3, <2>4
<1>4. StoredFiles'
  <2> SUFFICES ASSUME NEW q \in Request, request'[q].stage = "stored",
                      ~ErasureBegun(Target(q))'
               PROVE  objects'[Target(q)'][NewKey(q)'] # Absent
    BY DEF StoredFiles
  <2>1. CASE q = r
    BY <2>1
  <2>2. CASE q # r
    <3>1. request'[q] = request[q]
      BY <2>2
    <3>2. Target(q)' = Target(q) /\ NewKey(q)' = NewKey(q)
      BY <3>1 DEF Target, NewKey, Loaded
    <3>3. Target(q) \in Doc /\ NewKey(q) \in Key
      BY <3>1, NewRowFacts DEF Base, RequestsFormed
    <3>4. PICK d \in Doc : d = Target(q)
      BY <3>3
    <3>5. ~ErasureBegun(d)'
      BY <3>2, <3>4 DEF ErasureBegun, Target
    <3>6. ~ErasureBegun(Target(q))
      BY <3>4, <3>5
    <3>7. objects[Target(q)][NewKey(q)] # Absent
      BY <3>1, <3>6 DEF FilesHold, Files, StoredFiles
    <3> QED
      BY <3>2, <3>3, <3>4, <3>5, <3>7
  <2> QED
    BY <2>1, <2>2
<1> QED
  BY <1>2, <1>3, <1>4 DEF FilesHold, Files

LEMMA RequestKeepsFiles ==
  ASSUME Base, Base', FilesHold, NEW r \in Request, RequestStep(r)
  PROVE  FilesHold'
<1>1. /\ documents \in [Doc -> Row \cup {NoRow}]
      /\ objects \in [Doc -> [Key -> Content \cup {Absent}]]
      /\ request \in [Request -> RequestType]
  BY TypeParts DEF Base
<1>2. CASE Upload(r) \/ Reingest(r) \/ Delete(r)
  <2>1. /\ UNCHANGED <<documents, objects>> /\ request[r].op # "delete"
        /\ \A q \in Request \ {r} : request'[q] = request[q]
        /\ request'[r].stage \in {"loaded", "failed"}
    BY <1>2, Begins DEF FilesHold, IdleIsNew
  <2>2. \A d \in Doc : ErasureBegun(d) => ErasureBegun(d)'
    BY <2>1, ErasureStays
  <2> QED
    BY <2>1, <2>2, FilesKept
<1>3. ASSUME NEW s \in {"loaded", "stored", "erasing", "erased", "childless",
                    "refused", "done", "failed"}, To(r, s), request[r].stage # "idle", s # "loaded"
      PROVE  /\ \A q \in Request \ {r} : request'[q] = request[q]
             /\ request'[r].stage = s /\ request'[r].op = request[r].op
             /\ Target(r)' = Target(r) /\ NewKey(r)' = NewKey(r)
             /\ \A d \in Doc : ErasureBegun(d) => ErasureBegun(d)'
             /\ request[r].op = "delete" =>
                  \A d \in Doc : d = Target(r) => ErasureBegun(d)'
  <2>1. /\ \A q \in Request \ {r} : request'[q] = request[q]
        /\ request'[r].stage = s
        /\ request'[r].op = request[r].op /\ request'[r].doc = request[r].doc
        /\ request'[r].row = request[r].row /\ request'[r].file = request[r].file
    BY <1>3, RequestGoesOn DEF Base
  <2>2. \A d \in Doc : ErasureBegun(d) => ErasureBegun(d)'
    BY <1>3, <2>1, ErasureStays
  <2>3. ASSUME request[r].op = "delete", NEW d \in Doc, d = Target(r)
        PROVE  ErasureBegun(d)'
    BY <1>3, <2>1, <2>3 DEF ErasureBegun, Target
  <2> QED
    BY <2>1, <2>2, <2>3 DEF Target, NewKey, Loaded
<1>4. CASE StoreFile(r)
  <2>1. /\ request[r].stage = "loaded" /\ request[r].op \in {"upload", "reingest"}
        /\ objects' = [objects EXCEPT ![Target(r)][NewKey(r)] = request[r].file.content]
        /\ To(r, "stored") /\ UNCHANGED documents
    BY <1>1, <1>4 DEF StoreFile, database, RequestType, Base, RequestsFormed
  <2>2. /\ Target(r) \in Doc /\ NewKey(r) \in Key /\ request[r].file.content # Absent
    BY <2>1, NewRowFacts
  <2>3. /\ objects'[Target(r)][NewKey(r)] # Absent
        /\ \A d \in Doc : \A k \in Key : objects[d][k] # Absent => objects'[d][k] # Absent
    BY <1>1, <2>1, <2>2
  <2> QED
    BY <1>3, <2>1, <2>3, FilesKept
<1>5. CASE EraseFile(r)
  <2>1. PICK s \in {"erasing", "erased"} : To(r, s)
    BY <1>5 DEF EraseFile
  <2>2. /\ request[r].stage = "loaded" /\ request[r].op = "delete" /\ UNCHANGED documents
        /\ objects' = [objects EXCEPT ![Target(r)][Loaded(r).key] = Absent]
    BY <1>5 DEF EraseFile, database
  <2>3. \A d \in Doc : d # Target(r) => objects'[d] = objects[d]
    BY <1>1, <2>2
  <2>4. \A d \in Doc : d = Target(r) => ErasureBegun(d)'
    BY <1>3, <2>1, <2>2
  <2>5. /\ \A q \in Request \ {r} : request'[q] = request[q]
        /\ request'[r].stage = s
        /\ \A d \in Doc : ErasureBegun(d) => ErasureBegun(d)'
    BY <1>3, <2>1, <2>2
  <2> QED
    BY <2>1, <2>2, <2>3, <2>4, <2>5, FilesKept
<1>6. CASE EraseText(r) \/ LoadChunks(r) \/ RequestFails(r)
  <2>1. PICK s \in {"erased", "childless", "refused", "failed"} : To(r, s)
    BY <1>6 DEF EraseText, LoadChunks, RequestFails
  <2>2. request[r].stage # "idle" /\ UNCHANGED <<documents, objects>>
    BY <1>6 DEF EraseText, LoadChunks, RequestFails, database, storage
  <2>3. /\ \A q \in Request \ {r} : request'[q] = request[q]
        /\ request'[r].stage = s
        /\ \A d \in Doc : ErasureBegun(d) => ErasureBegun(d)'
    BY <1>3, <2>1, <2>2
  <2> QED
    BY <2>1, <2>2, <2>3, FilesKept
<1>7. ASSUME NEW s \in {"done", "failed"}, To(r, s), request[r].stage # "idle",
             UNCHANGED objects,
             \A d \in Doc : (documents'[d] # NoRow /\ ~ErasureBegun(d)) =>
               \/ documents[d] # NoRow /\ documents'[d].key = documents[d].key
               \/ objects[d][documents'[d].key] # Absent
      PROVE  FilesHold'
  <2>1. /\ \A q \in Request \ {r} : request'[q] = request[q]
        /\ request'[r].stage = s
        /\ \A d \in Doc : ErasureBegun(d) => ErasureBegun(d)'
    BY <1>3, <1>7
  <2> QED
    BY <1>7, <2>1, FilesKept
<1>8. CASE SaveUpload(r)
  <2>1. /\ request[r].stage = "stored" /\ request[r].op = "upload" /\ UNCHANGED objects
    BY <1>8 DEF SaveUpload, FileStored, storage
  <2>2. PICK s \in {"done", "failed"} : To(r, s)
    BY <1>8 DEF SaveUpload
  <2>3. Uploaded(r).key = NewKey(r) /\ Target(r) = r
    BY <2>1, NewRowFacts DEF Uploaded
  <2>4. ~ErasureBegun(Target(r)) => objects[Target(r)][NewKey(r)] # Absent
    BY <2>1 DEF FilesHold, Files, StoredFiles
  <2>5. CASE documents' = [documents EXCEPT ![r] = Uploaded(r)]
    <3>1. \A d \in Doc : documents'[d] = IF d = r THEN Uploaded(r) ELSE documents[d]
      BY <1>1, <2>5
    <3> QED
      BY <1>7, <2>1, <2>2, <2>3, <2>4, <3>1
  <2>6. CASE UNCHANGED documents
    BY <1>7, <2>1, <2>2, <2>6
  <2> QED
    BY <1>8, <2>5, <2>6 DEF SaveUpload
<1>9. CASE SaveReingest(r)
  <2>1. /\ request[r].stage = "stored" /\ request[r].op = "reingest" /\ UNCHANGED objects
    BY <1>9 DEF SaveReingest, FileStored, storage
  <2>2. PICK s \in {"done", "failed"} : To(r, s)
    BY <1>9 DEF SaveReingest
  <2>3. /\ Target(r) \in Doc /\ Loaded(r) \in Row /\ Reingested(r) \in Row
        /\ Reingested(r).key = NewKey(r)
    BY <2>1, NewRowFacts
  <2>4. ~ErasureBegun(Target(r)) => objects[Target(r)][NewKey(r)] # Absent
    BY <2>1 DEF FilesHold, Files, StoredFiles
  <2> DEFINE w == Written(documents[Target(r)], Loaded(r), Reingested(r))
  <2>5. CASE Exists(Target(r)) /\ documents' = [documents EXCEPT ![Target(r)] = w]
    <3>1. documents[Target(r)] \in Row /\ documents[Target(r)] # NoRow
      BY <1>1, <2>3, <2>5 DEF Exists
    <3>2. w.key \in {documents[Target(r)].key, NewKey(r)}
      BY <2>3, <3>1, WrittenFacts
    <3> HIDE DEF w
    <3>3. \A d \in Doc : documents'[d] = IF d = Target(r) THEN w ELSE documents[d]
      BY <1>1, <2>5
    <3> QED
      BY <1>7, <2>1, <2>2, <2>3, <2>4, <3>1, <3>2, <3>3
  <2>6. CASE UNCHANGED documents
    BY <1>7, <2>1, <2>2, <2>6
  <2> QED
    BY <1>9, <2>5, <2>6 DEF SaveReingest
<1>10. CASE DeleteRow(r)
  <2>1. /\ request[r].stage = "childless" /\ UNCHANGED objects /\ To(r, "done")
        /\ documents' = [documents EXCEPT ![Target(r)] = NoRow]
    BY <1>10 DEF DeleteRow, storage
  <2>2. \A d \in Doc : documents'[d] = NoRow \/ documents'[d] = documents[d]
    BY <1>1, <2>1
  <2> QED
    BY <1>7, <2>1, <2>2
<1> QED
  BY <1>2, <1>4, <1>5, <1>6, <1>8, <1>9, <1>10 DEF RequestStep

(* A task stores no file, erases none and writes no key.                       *)
LEMMA TaskKeepsFiles ==
  ASSUME Base, FilesHold, NEW t \in Task, TaskStep(t)
  PROVE  FilesHold'
<1>1. /\ request' = request /\ objects' = objects
      /\ \A d \in Doc : documents[d] = NoRow <=> documents'[d] = NoRow
      /\ \A d \in Doc : documents[d] # NoRow => documents'[d].key = documents[d].key
  BY TaskKeepsBase
<1>2. \A d \in Doc : ErasureBegun(d)' = ErasureBegun(d)
  BY <1>1 DEF ErasureBegun, Target
<1>3. FileOfRowIsStored'
  <2> SUFFICES ASSUME NEW d \in Doc, documents'[d] # NoRow, ~ErasureBegun(d)'
               PROVE  objects[d][documents'[d].key] # Absent
    BY <1>1 DEF FileOfRowIsStored, Exists
  <2>1. documents[d] # NoRow /\ documents'[d].key = documents[d].key /\ ~ErasureBegun(d)
    BY <1>1, <1>2
  <2> QED
    BY <2>1 DEF FilesHold, Files, FileOfRowIsStored, Exists
<1>4. StoredFiles' /\ IdleIsNew'
  <2>1. StoredFiles' = StoredFiles /\ IdleIsNew' = IdleIsNew
    BY <1>1 DEF StoredFiles, IdleIsNew, Target, NewKey, Loaded, ErasureBegun
  <2> QED
    BY <2>1 DEF FilesHold, Files
<1> QED
  BY <1>3, <1>4 DEF FilesHold, Files

-----------------------------------------------------------------------------
(* The steps of requests and tasks, seen through the refinement mapping.      *)

(* A row was inserted by an upload that is done, and stays done.              *)
RowsAreMinted == Listed \subseteq Minted

LEMMA MintedStays ==
  ASSUME NEW r \in Request, \A q \in Request \ {r} : request'[q] = request[q],
         (request[r].op = "upload" /\ request[r].stage = "done")
         <=> (request'[r].op = "upload" /\ request'[r].stage = "done")
  PROVE  Minted' = Minted
<1>1. ASSUME NEW q \in Request
      PROVE  (request[q].op = "upload" /\ request[q].stage = "done")
             <=> (request'[q].op = "upload" /\ request'[q].stage = "done")
  BY Zenon
<1> QED
  BY <1>1 DEF Minted

(* Only the INSERT mints a document.                                          *)
LEMMA GoingOnMintsNothing ==
  ASSUME Base, NEW r \in Request, request[r].stage \notin {"idle", "done"},
         NEW s \in {"loaded", "stored", "erasing", "erased", "childless",
                    "refused", "done", "failed"},
         To(r, s), request[r].op # "upload" \/ s # "done"
  PROVE  Minted' = Minted
<1>1. /\ \A q \in Request \ {r} : request'[q] = request[q]
      /\ request'[r].stage = s /\ request'[r].op = request[r].op
  BY RequestGoesOn DEF Base
<1> QED
  BY <1>1, MintedStays

LEMMA OthersMintNothing ==
  ASSUME Base, NEW r \in Request,
         \/ Upload(r) \/ Reingest(r) \/ Delete(r) \/ StoreFile(r)
         \/ EraseFile(r) \/ EraseText(r) \/ LoadChunks(r) \/ RequestFails(r)
  PROVE  Minted' = Minted /\ UNCHANGED <<documents, chunks, task>>
<1>1. UNCHANGED <<documents, chunks, task>>
  BY DEF Upload, Reingest, Delete, StoreFile, EraseFile, EraseText, LoadChunks, RequestFails,
         database
<1>2. CASE Upload(r) \/ Reingest(r) \/ Delete(r)
  BY <1>1, <1>2, Begins, MintedStays
<1>3. CASE StoreFile(r) \/ EraseFile(r) \/ EraseText(r) \/ LoadChunks(r) \/ RequestFails(r)
  <2>1. request[r].stage \notin {"idle", "done"}
    BY <1>3 DEF StoreFile, EraseFile, EraseText, LoadChunks, RequestFails
  <2>2. PICK s \in {"stored", "erasing", "erased", "childless", "refused", "failed"} : To(r, s)
    BY <1>3 DEF StoreFile, EraseFile, EraseText, LoadChunks, RequestFails
  <2>3. Minted' = Minted
    BY <2>1, <2>2, GoingOnMintsNothing
  <2> QED
    BY <1>1, <2>3
<1> QED
  BY <1>2, <1>3

LEMMA SeenUnchanged ==
  /\ documents' = documents => Listed' = Listed /\ Ready' = Ready
  /\ chunks' = chunks => Found' = Found
  /\ task' = task => Spent' = Spent
<1>1. documents' = documents => Listed' = Listed /\ Ready' = Ready
  BY DEF Listed, Ready, Exists
<1>2. chunks' = chunks => Found' = Found
  BY DEF Found, Hits, Active
<1>3. task' = task => Spent' = Spent
  BY DEF Spent
<1> QED
  BY <1>1, <1>2, <1>3

(* The rows of all other documents, as the list shows them.                   *)
LEMMA SeenElsewhere ==
  ASSUME NEW o \in Doc, \A d \in Doc \ {o} : documents'[d] = documents[d]
  PROVE  /\ \A d \in Doc \ {o} : d \in Listed' <=> d \in Listed
         /\ \A d \in Doc \ {o} : d \in Ready' <=> d \in Ready
         /\ o \in Listed <=> documents[o] # NoRow
         /\ o \in Listed' <=> documents'[o] # NoRow
         /\ o \in Ready <=> documents[o] # NoRow /\ documents[o].status = "ACTIVE"
         /\ o \in Ready' <=> documents'[o] # NoRow /\ documents'[o].status = "ACTIVE"
BY DEF Listed, Ready, Exists

(* A row that was only shown as less than it was: withdrawn, or nothing seen. *)
LEMMA RowWithdrawn ==
  ASSUME NEW o \in Doc, \A d \in Doc \ {o} : documents'[d] = documents[d],
         documents[o] # NoRow, documents'[o] # NoRow,
         documents'[o].status = "ACTIVE" => documents[o].status = "ACTIVE",
         Minted' = Minted, Found' = Found, Spent' = Spent
  PROVE  Index!Withdraw(o) \/ UNCHANGED Index!vars
<1>1. Listed' = Listed
  BY SeenElsewhere DEF Listed
<1>2. Ready' = Ready \/ (o \in Ready /\ Ready' = Ready \ {o})
  BY SeenElsewhere DEF Ready
<1> QED
  BY <1>1, <1>2 DEF Index!Withdraw, Index!vars

LEMMA RequestRefines ==
  ASSUME Base, Base', Searchable, RowsAreMinted, NEW r \in Request, RequestStep(r)
  PROVE  RowsAreMinted' /\ [Index!Next]_(Index!vars)
<1>1. documents \in [Doc -> Row \cup {NoRow}] /\ chunks \in [Doc -> SUBSET Chunk]
  BY TypeParts DEF Base
<1>2. ASSUME Minted' = Minted, UNCHANGED <<documents, chunks, task>>
      PROVE  RowsAreMinted' /\ [Index!Next]_(Index!vars)
  BY <1>2, SeenUnchanged DEF RowsAreMinted, Index!vars
<1>3. CASE \/ Upload(r) \/ Reingest(r) \/ Delete(r) \/ StoreFile(r)
           \/ EraseFile(r) \/ EraseText(r) \/ LoadChunks(r) \/ RequestFails(r)
  BY <1>2, <1>3, OthersMintNothing
<1>4. CASE SaveUpload(r)
  <2>1. /\ request[r].stage = "stored" /\ request[r].op = "upload" /\ r \in Doc
        /\ UNCHANGED <<chunks, task>>
    BY <1>4 DEF SaveUpload, FileStored, Doc
  <2>2. CASE documents' = [documents EXCEPT ![r] = Uploaded(r)] /\ To(r, "done")
    <3>1. /\ documents'[r] = Uploaded(r) /\ \A d \in Doc \ {r} : documents'[d] = documents[d]
          /\ Uploaded(r) # NoRow /\ Uploaded(r).status = "PENDING"
      BY <1>1, <2>1, <2>2, NewRowFacts, RowAssumption DEF Uploaded
    <3>2. /\ \A q \in Request \ {r} : request'[q] = request[q]
          /\ request'[r].stage = "done" /\ request'[r].op = "upload"
      BY <2>1, <2>2, RequestGoesOn DEF Base
    <3>3. r \notin Minted /\ Minted' = Minted \cup {r}
      BY <2>1, <3>2 DEF Minted
    <3>4. r \notin Listed
      BY <3>3 DEF RowsAreMinted
    <3>5. Listed' = Listed \cup {r} /\ Ready' = Ready
      <4>1. documents[r] = NoRow
        BY <2>1, <3>4 DEF Listed, Exists
      <4> QED
        BY <2>1, <3>1, <4>1, SeenElsewhere DEF Listed, Ready
    <3>6. Index!Add(r)
      BY <2>1, <3>3, <3>5, SeenUnchanged DEF Index!Add
    <3> QED
      BY <2>1, <3>3, <3>5, <3>6 DEF RowsAreMinted, Index!Next
  <2>3. CASE UNCHANGED documents /\ To(r, "failed")
    <3>1. Minted' = Minted
      BY <2>1, <2>3, GoingOnMintsNothing
    <3> QED
      BY <1>2, <2>1, <2>3, <3>1
  <2> QED
    BY <1>4, <2>2, <2>3 DEF SaveUpload
<1>5. CASE SaveReingest(r)
  <2>1. /\ request[r].stage = "stored" /\ request[r].op = "reingest"
        /\ UNCHANGED <<chunks, task>>
    BY <1>5 DEF SaveReingest, FileStored
  <2>2. PICK s \in {"done", "failed"} : To(r, s)
    BY <1>5 DEF SaveReingest
  <2>3. Minted' = Minted
    BY <2>1, <2>2, GoingOnMintsNothing
  <2>4. PICK o \in Doc : o = Target(r)
    BY <2>1, NewRowFacts
  <2>5. Loaded(r) \in Row /\ Reingested(r) \in Row /\ Reingested(r).status = "PENDING"
    BY <2>1, NewRowFacts
  <2> DEFINE w == Written(documents[o], Loaded(r), Reingested(r))
  <2>6. CASE documents[o] # NoRow /\ documents' = [documents EXCEPT ![o] = w]
    <3>1. w # NoRow /\ w.status \in {documents[o].status, "PENDING"}
      BY <1>1, <2>5, <2>6, WrittenFacts, RowAssumption
    <3> HIDE DEF w
    <3>2. documents'[o] = w /\ \A d \in Doc \ {o} : documents'[d] = documents[d]
      BY <1>1, <2>6
    <3>3. Index!Withdraw(o) \/ UNCHANGED Index!vars
      BY <2>1, <2>3, <2>6, <3>1, <3>2, RowWithdrawn, SeenUnchanged
    <3>4. Listed' = Listed
      BY <2>6, <3>1, <3>2, SeenElsewhere DEF Listed
    <3> QED
      BY <2>3, <3>3, <3>4 DEF RowsAreMinted, Index!Next
  <2>7. CASE UNCHANGED documents
    BY <1>2, <2>1, <2>3, <2>7
  <2> QED
    BY <1>5, <2>4, <2>6, <2>7 DEF SaveReingest, Exists
<1>6. CASE DeleteRow(r)
  <2>1. /\ request[r].stage = "childless" /\ To(r, "done") /\ UNCHANGED task
        /\ documents' = [documents EXCEPT ![Target(r)] = NoRow]
        /\ chunks' = [chunks EXCEPT ![Target(r)] = {}]
    BY <1>6 DEF DeleteRow, LeftByDelete
  <2>2. Minted' = Minted
    <3>1. request[r].op = "delete"
      BY <2>1 DEF Base, RequestsFormed
    <3> QED
      BY <2>1, <3>1, GoingOnMintsNothing
  <2>3. PICK o \in Doc : o = Target(r)
    BY TypeParts DEF Base, Target, RequestType
  <2>4. /\ documents'[o] = NoRow /\ chunks'[o] = {}
        /\ \A d \in Doc \ {o} : documents'[d] = documents[d] /\ chunks'[d] = chunks[d]
    BY <1>1, <2>1, <2>3
  <2>5. CASE documents[o] = NoRow
    <3>1. chunks[o] = {}
      BY <2>5 DEF Searchable, NoOrphanChunks, Exists
    <3>2. UNCHANGED <<documents, chunks, task>>
      BY <1>1, <2>1, <2>3, <2>5, <3>1
    <3> QED
      BY <1>2, <2>2, <3>2
  <2>6. CASE documents[o] # NoRow
    <3>1. o \in Listed /\ Listed' = Listed \ {o} /\ Ready' = Ready \ {o}
      BY <2>4, <2>6, SeenElsewhere DEF Listed, Ready
    <3>2. Found' = [Found EXCEPT ![o] = {}]
      <4>1. Hits(o)' = {} /\ \A d \in Doc \ {o} : Hits(d)' = Hits(d)
        BY <2>4 DEF Hits, Active
      <4> QED
        BY <4>1 DEF Found
    <3>3. Index!Remove(o)
      BY <2>1, <2>2, <3>1, <3>2, SeenUnchanged DEF Index!Remove
    <3> QED
      BY <2>2, <3>1, <3>3 DEF RowsAreMinted, Index!Next
  <2> QED
    BY <2>5, <2>6
<1> QED
  BY <1>3, <1>4, <1>5, <1>6 DEF RequestStep

(* A task that has not given up, and one that has.                            *)
LEMMA SpentBy ==
  ASSUME NEW t \in Task, \A u \in Task \ {t} : task'[u] = task[u]
  PROVE  Spent' = IF task'[t].stage \in {"failed", "recovered", "ended"}
                    THEN Spent \cup {t} ELSE Spent \ {t}
BY DEF Spent

(* The chunks a commit makes searchable are a whole run of the index.         *)
LEMMA CommitPublishes ==
  ASSUME Base, NEW t \in Task, CommitActive(t), Minted' = Minted, Listed' = Listed
  PROVE  Index!Next
<1>0. PICK o \in Doc : o = Of(t)
  BY DEF CommitActive, Base, TasksFormed, Of
<1>1. PICK text \in Content : text = task[t].text
  BY <1>0, CommitSwaps
<1>2. /\ ChunkCount[text] \in Nat /\ ChunkCount[text] > 0
      /\ documents[o] \in Row /\ documents'[o] \in Row /\ documents'[o].status = "ACTIVE"
      /\ \A d \in Doc \ {o} : documents'[d] = documents[d]
      /\ Active(o)' = NewChunks(t)
      /\ \A d \in Doc \ {o} : Active(d)' = Active(d)
  BY <1>0, <1>1, CommitSwaps
<1>3. o \in Listed /\ Ready' = Ready \cup {o}
  BY <1>2, SeenElsewhere, RowAssumption DEF Ready
<1>4. t \notin Spent /\ Spent' = Spent \cup {t}
  <2>1. task[t].stage = "extracted" /\ Become(t, "ended")
    BY DEF CommitActive
  <2>2. task'[t].stage = "ended" /\ \A u \in Task \ {t} : task'[u] = task[u]
    BY <2>1, TaskGoesOn DEF Base
  <2>3. t \notin Spent
    BY <2>1 DEF Spent
  <2> QED
    BY <2>2, <2>3, SpentBy
<1>5. Hits(o)' = Index!Whole(t, text)
  <2>1. /\ \A c \in NewChunks(t) : /\ c.run = t /\ c.content = text
                                   /\ c.index \in 1..ChunkCount[text]
        /\ \A i \in 1..ChunkCount[text] : \E c \in NewChunks(t) : c.index = i
    BY <1>1, <1>2, NewChunksFacts
  <2>2. Hits(o)' = {[run |-> c.run, content |-> c.content, index |-> c.index] : c \in NewChunks(t)}
    BY <1>2 DEF Hits
  <2>3. Index!Whole(t, text) = {[run |-> t, content |-> text, index |-> i] :
                                  i \in 1..ChunkCount[text]}
    <3> DEFINE S == {[run |-> t, content |-> text, index |-> i] : i \in 1..ChunkCount[text]}
    <3>1. ASSUME NEW e \in [run : {t}, content : {text}, index : 1..ChunkCount[text]]
          PROVE  e \in S
      <4>1. /\ e.index \in 1..ChunkCount[text]
            /\ e = [run |-> t, content |-> text, index |-> e.index]
        OBVIOUS
      <4> QED
        BY <4>1
    <3>2. ASSUME NEW i \in 1..ChunkCount[text]
          PROVE  [run |-> t, content |-> text, index |-> i]
                 \in [run : {t}, content : {text}, index : 1..ChunkCount[text]]
      OBVIOUS
    <3> QED
      BY <3>1, <3>2 DEF Index!Whole
  <2> QED
    BY <2>1, <2>2, <2>3
<1>6. Found' = [Found EXCEPT ![o] = Index!Whole(t, text)]
  <2>1. \A d \in Doc \ {o} : Hits(d)' = Hits(d)
    BY <1>2 DEF Hits
  <2> QED
    BY <1>5, <2>1 DEF Found
<1>7. Index!Publish(o, t, text)
  BY <1>2, <1>3, <1>4, <1>6 DEF Index!Publish
<1> QED
  BY <1>0, <1>1, <1>7 DEF Index!Next

LEMMA TaskRefines ==
  ASSUME Base, RowsAreMinted, NEW t \in Task, TaskStep(t)
  PROVE  RowsAreMinted' /\ [Index!Next]_(Index!vars)
<1>1. documents \in [Doc -> Row \cup {NoRow}] /\ chunks \in [Doc -> SUBSET Chunk]
      /\ task \in [Task -> TaskType]
  BY TypeParts DEF Base
<1>2. Minted' = Minted /\ Listed' = Listed
  BY TaskKeepsBase DEF Minted, Listed, Exists
<1>3. RowsAreMinted'
  BY <1>2 DEF RowsAreMinted
<1> SUFFICES [Index!Next]_(Index!vars)
  BY <1>3
<1>4. ASSUME UNCHANGED <<documents, chunks>>, \A u \in Task \ {t} : task'[u] = task[u],
             t \in Spent => task'[t].stage \in {"failed", "recovered", "ended"}
      PROVE  [Index!Next]_(Index!vars)
  <2>1. Ready' = Ready /\ Found' = Found
    BY <1>4, SeenUnchanged
  <2>2. CASE Spent' = Spent
    BY <1>2, <2>1, <2>2 DEF Index!vars
  <2>3. CASE t \notin Spent /\ Spent' = Spent \cup {t}
    BY <1>2, <2>1, <2>3 DEF Index!GiveUp, Index!Next
  <2>4. Spent' = Spent \/ (t \notin Spent /\ Spent' = Spent \cup {t})
    BY <1>4, SpentBy
  <2> QED
    BY <2>2, <2>3, <2>4
<1>5. CASE LoadDocument(t)
  <2>1. task[t].stage = "idle" /\ UNCHANGED <<documents, chunks>>
    BY <1>5 DEF LoadDocument, database
  <2>2. PICK k : task' = [task EXCEPT ![t] = k]
    BY <1>5 DEF LoadDocument
  <2>3. t \notin Spent /\ \A u \in Task \ {t} : task'[u] = task[u]
    BY <1>1, <2>1, <2>2 DEF Spent
  <2> QED
    BY <1>4, <2>1, <2>3
<1>6. CASE Claim(t) \/ Replace(t) \/ StoreText(t) \/ Fail(t) \/ Crash(t)
  <2>1. UNCHANGED <<documents, chunks>>
    BY <1>1, <1>6 DEF Claim, Claimed, Replace, StoreText, Fail, AfterRollback, Crash, database
  <2>2. PICK s \in {"claimed", "replaced", "extracted", "failed", "ended"} : Become(t, s)
    BY <1>6 DEF Claim, Replace, StoreText, Fail, Crash
  <2>3. task'[t].stage = s /\ \A u \in Task \ {t} : task'[u] = task[u]
    BY <2>2, TaskGoesOn DEF Base
  <2>4. t \in Spent => s = "ended"
    <3>1. CASE Claim(t) \/ Replace(t) \/ StoreText(t)
      BY <3>1 DEF Claim, Replace, StoreText, Spent
    <3>2. CASE Fail(t)
      BY <3>2 DEF Fail, Trying, Spent
    <3>3. CASE Crash(t)
      <4>1. Become(t, "ended")
        BY <3>3 DEF Crash
      <4>2. task'[t].stage = "ended"
        BY <4>1, TaskGoesOn DEF Base
      <4> QED
        BY <2>3, <4>2
    <3> QED
      BY <1>6, <3>1, <3>2, <3>3
  <2> QED
    BY <1>4, <2>1, <2>3, <2>4
<1>7. CASE Fetch(t)
  <2>1. task[t].stage = "claimed" /\ UNCHANGED <<documents, chunks>>
    BY <1>7 DEF Fetch, database
  <2>2. PICK k : task' = [task EXCEPT ![t] = k]
    BY <1>7 DEF Fetch
  <2>3. t \notin Spent /\ \A u \in Task \ {t} : task'[u] = task[u]
    BY <1>1, <2>1, <2>2 DEF Spent
  <2> QED
    BY <1>4, <2>1, <2>3
<1>8. CASE Recover(t)
  <2>1. UNCHANGED <<documents, chunks>>
    BY <1>8 DEF Recover, database
  <2>2. task' = [task EXCEPT ![t] =
          [task[t] EXCEPT !.stage = IF Exists(Of(t)) THEN "recovered" ELSE "ended",
                          !.row = documents[Of(t)]]]
    BY <1>1, <1>8 DEF Recover
  <2>3. /\ \A u \in Task \ {t} : task'[u] = task[u]
        /\ task'[t].stage \in {"recovered", "ended"}
    BY <1>1, <2>2 DEF TaskType
  <2> QED
    BY <1>4, <2>1, <2>3
<1>9. CASE MarkError(t)
  <2>1. /\ task[t].stage = "recovered" /\ UNCHANGED chunks /\ Become(t, "ended")
    BY <1>9 DEF MarkError
  <2>2. PICK o \in Doc : o = Of(t)
    BY <2>1 DEF Base, TasksFormed, Of
  <2>3. task'[t].stage = "ended" /\ \A u \in Task \ {t} : task'[u] = task[u]
    BY <2>1, TaskGoesOn DEF Base
  <2>4. Spent' = Spent
    BY <2>1, <2>3, SpentBy DEF Spent
  <2> DEFINE w == Written(documents[o], task[t].row, [task[t].row EXCEPT !.status = "ERROR"])
  <2>5. CASE documents[o] # NoRow /\ documents' = [documents EXCEPT ![o] = w]
    <3>1. w # NoRow /\ w.status \in {documents[o].status, "ERROR"}
      <4>1. documents[o] \in Row /\ task[t].row \in Row
        BY <1>1, <2>1, <2>5 DEF Base, TasksFormed
      <4> QED
        BY <4>1, ErrorWritten, RowAssumption
    <3> HIDE DEF w
    <3>2. documents'[o] = w /\ \A d \in Doc \ {o} : documents'[d] = documents[d]
      BY <1>1, <2>5
    <3>3. Index!Withdraw(o) \/ UNCHANGED Index!vars
      BY <1>2, <2>1, <2>4, <2>5, <3>1, <3>2, RowWithdrawn, SeenUnchanged
    <3> QED
      BY <3>3 DEF Index!Next
  <2>6. CASE UNCHANGED documents
    BY <1>4, <2>1, <2>3, <2>6
  <2> QED
    BY <1>9, <2>2, <2>5, <2>6 DEF MarkError, Exists
<1>10. CASE CommitActive(t)
  BY <1>2, <1>10, CommitPublishes
<1> QED
  BY <1>5, <1>6, <1>7, <1>8, <1>9, <1>10 DEF TaskStep

-----------------------------------------------------------------------------
LEMMA InitHolds ==
  ASSUME Init
  PROVE  Base /\ Searchable /\ FilesHold
<1>1. /\ documents = [d \in Doc |-> NoRow] /\ chunks = [d \in Doc |-> {}]
      /\ lock = [d \in Doc |-> Nobody]
      /\ objects = [d \in Doc |-> [k \in Key |-> Absent]]
      /\ extracted = [d \in Doc |-> Absent]
      /\ \A r \in Request : request[r] = [stage |-> "idle", op |-> "none", doc |-> r,
                                          row |-> NoRow, file |-> Absent]
      /\ request = [r \in Request |-> request[r]]
      /\ \A t \in Task : task[t] = [stage |-> "idle", doc |-> Absent, row |-> NoRow,
                                    text |-> Absent]
      /\ task = [t \in Task |-> task[t]]
  BY DEF Init
<1>2. TypeOK
  <2>1. request \in [Request -> RequestType]
    BY <1>1 DEF RequestType, Doc
  <2>2. task \in [Task -> TaskType]
    BY <1>1 DEF TaskType
  <2> QED
    BY <1>1, <2>1, <2>2, TypeParts
<1>3. VersionsCounted /\ RequestsFormed
  BY <1>1 DEF VersionsCounted, RequestsFormed
<1>4. TasksFormed /\ LocksHeld
  BY <1>1 DEF TasksFormed, LocksHeld, Working
<1>5. \A d \in Doc : Active(d) = {}
  BY <1>1 DEF Active
<1>6. Searchable
  BY <1>1, <1>5 DEF Searchable, OneRunIsSearchable, ActiveHasChunks, NoOrphanChunks, Exists
<1>7. FilesHold
  BY <1>1 DEF FilesHold, Files, FileOfRowIsStored, StoredFiles, IdleIsNew, Exists
<1> QED
  BY <1>2, <1>3, <1>4, <1>6, <1>7 DEF Base

(* One step of anybody, or none. *)
LEMMA StepHolds ==
  ASSUME Base, Searchable, FilesHold, [Next]_vars
  PROVE  Base' /\ Searchable' /\ FilesHold' /\ StaysSearchable
<1>1. CASE UNCHANGED vars
  <2>1. UNCHANGED <<documents, chunks, lock, objects, extracted, request, task>>
    BY <1>1 DEF vars, database, storage
  <2>2. Base'
    <3>1. TypeOK'
      BY <2>1, TypeParts DEF Base, TypeOK
    <3> QED
      BY <2>1, <3>1 DEF Base, VersionsCounted, RequestsFormed, TasksFormed, LocksHeld, Started
  <2>3. Searchable' /\ StaysSearchable
    BY <2>1, SearchableKept
  <2>4. FilesHold'
    BY <2>1 DEF FilesHold, Files, FileOfRowIsStored, StoredFiles, IdleIsNew, Exists,
                ErasureBegun, Target, NewKey, Loaded
  <2> QED
    BY <2>2, <2>3, <2>4
<1>2. ASSUME NEW r \in Request, RequestStep(r)
      PROVE  Base' /\ Searchable' /\ FilesHold' /\ StaysSearchable
  BY <1>2, RequestKeepsBase, RequestKeepsSearchable, RequestKeepsFiles
<1>3. ASSUME NEW t \in Task, TaskStep(t)
      PROVE  Base' /\ Searchable' /\ FilesHold' /\ StaysSearchable
  BY <1>3, TaskKeepsBase, TaskKeepsSearchable, TaskKeepsFiles
<1> QED
  BY <1>1, <1>2, <1>3 DEF Next

LEMMA DocumentsHold ==
  Spec => [](Base /\ Searchable /\ FilesHold)
<1>1. Init => Base /\ Searchable /\ FilesHold
  BY InitHolds
<1>2. Base /\ Searchable /\ FilesHold /\ [Next]_vars => (Base /\ Searchable /\ FilesHold)'
  BY StepHolds
<1> QED
  BY <1>1, <1>2, PTL DEF Spec

(* Rows, keys and what requests and tasks hold keep their types; versions stay *)
(* within what the requests can raise them to (document_service.py:187).       *)
THEOREM TypesHold ==
  Spec => []TypeOK
<1>1. Base => TypeOK
  BY DEF Base
<1> QED
  BY <1>1, DocumentsHold, PTL

(* Whatever uploads, re-ingestions, deletes and ingestion runs race, fail or   *)
(* crash, the searchable chunks of a document are one run's and all of that    *)
(* run's (ingestion_service.py:76-112).                                        *)
THEOREM SearchableChunksHold ==
  Spec => []OneRunIsSearchable
<1>1. Searchable => OneRunIsSearchable
  BY DEF Searchable
<1> QED
  BY <1>1, DocumentsHold, PTL

(* A document shown as ACTIVE has searchable chunks (ingestion_service.py:71). *)
THEOREM ActiveIsSearchable ==
  Spec => []ActiveHasChunks
<1>1. Searchable => ActiveHasChunks
  BY DEF Searchable
<1> QED
  BY <1>1, DocumentsHold, PTL

(* A deleted document leaves no chunks, and no late run brings any back        *)
(* (models.py:144).                                                            *)
THEOREM DeletedLeavesNone ==
  Spec => []NoOrphanChunks
<1>1. Searchable => NoOrphanChunks
  BY DEF Searchable
<1> QED
  BY <1>1, DocumentsHold, PTL

(* A row names a file that is in the object store, until a delete of its       *)
(* document has begun (document_service.py:136, 190).                          *)
THEOREM FilesOfRowsHold ==
  Spec => []FileOfRowIsStored
<1>1. FilesHold => FileOfRowIsStored
  BY DEF FilesHold, Files
<1> QED
  BY <1>1, DocumentsHold, PTL

(* No step but the one that deletes its row makes a searchable document        *)
(* unsearchable: ingestion_service.py swaps chunks within one transaction.     *)
THEOREM SearchableStays ==
  Spec => SearchableUntilDeleted
<1>1. Base /\ Searchable /\ FilesHold /\ [Next]_vars
      => [\A d \in Doc : Active(d) # {} => Active(d)' # {} \/ ~Exists(d)']_vars
  BY StepHolds DEF StaysSearchable
<1>2. Spec => [][\A d \in Doc : Active(d) # {} => Active(d)' # {} \/ ~Exists(d)']_vars
  BY <1>1, DocumentsHold, PTL DEF Spec
<1> QED
  BY <1>2 DEF SearchableUntilDeleted

(* Requests and tasks implement SearchIndex: what retrieval finds of a document *)
(* changes in one step from one whole run to another's and goes with the row,   *)
(* an id is minted once, and a run that has failed publishes nothing afterwards *)
(* (ingestion_service.py:56-141, document_service.py:232-243).                  *)
THEOREM IngestionImplementsIndex ==
  Spec => ImplementsIndex
<1>1. Init => Index!Init /\ RowsAreMinted
  BY DEF Init, Index!Init, RowsAreMinted, Minted, Listed, Ready, Found, Spent, Hits, Active,
         Exists
<1>2. Base /\ Searchable /\ FilesHold /\ RowsAreMinted /\ [Next]_vars
      => RowsAreMinted' /\ [Index!Next]_(Index!vars)
  <2> SUFFICES ASSUME Base, Searchable, FilesHold, RowsAreMinted, [Next]_vars
               PROVE  RowsAreMinted' /\ [Index!Next]_(Index!vars)
    OBVIOUS
  <2>1. Base'
    BY StepHolds
  <2>2. CASE UNCHANGED vars
    BY <2>2 DEF vars, database, RowsAreMinted, Index!vars, Minted, Listed, Ready, Found, Spent,
                Hits, Active, Exists
  <2>3. ASSUME NEW r \in Request, RequestStep(r)
        PROVE  RowsAreMinted' /\ [Index!Next]_(Index!vars)
    BY <2>1, <2>3, RequestRefines
  <2>4. ASSUME NEW t \in Task, TaskStep(t)
        PROVE  RowsAreMinted' /\ [Index!Next]_(Index!vars)
    BY <2>4, TaskRefines
  <2> QED
    BY <2>2, <2>3, <2>4 DEF Next
<1>3. Spec => []RowsAreMinted
  BY <1>1, <1>2, DocumentsHold, PTL DEF Spec
<1> QED
  BY <1>1, <1>2, <1>3, DocumentsHold, PTL DEF Spec, ImplementsIndex, Index!Spec
=============================================================================
