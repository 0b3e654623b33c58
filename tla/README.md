# Verification of context-hub

TLA+ models of the context-hub backend (`src/backend/app`), the TLC runs that
check them and the TLAPS proofs about them. Paths below are relative to
`src/backend/app` unless they start with `docs/` (`src/backend/docs`).

## 1. The system

A multi-tenant RAG backend: a FastAPI process, Celery workers, an outbox relay
daemon, PostgreSQL with row-level security, S3-compatible storage and Redis.

| Component | State | Operations | Talks to |
|---|---|---|---|
| Unit of work (`core/uow.py`, `core/events.py`) | a session: tracked objects, recorded events, the open transaction | enter, flush, commit, rollback, exit | pools, outbox table |
| Engines (`core/database.py`) | app pool (RLS), owner pool (2 connections) | check-out, check-in | every unit of work |
| Outbox relay (`infrastructure/outbox.py`, `worker/relay.py`) | `event_outbox` rows; per replica a list of ids and its coroutines | poll, claim, dispatch, record | Postgres, Celery broker |
| Documents (`modules/documents/services/document_service.py`) | `documents` rows, files in storage | upload, reingest, delete, list, get | storage, outbox (events) |
| Ingestion worker (`worker/tasks.py`, `ingestion_service.py`) | `document_chunks` rows, `extracted.txt` | process_document | storage, embedding API, Postgres |
| Auth (`modules/auth/services`) | users, refresh tokens, invitations | login, refresh, logout, logout_all, change_password, update_role, deactivate, reactivate, invite, revoke, resend, join, register | Postgres, JWT |
| Tenants (`modules/tenant`) | tenants | create, update, delete | read by login, refresh |
| Chat (`modules/chat/services`, `memory`, `router.py`) | sessions, messages | process_query (streams), create, rename, delete, titles, summaries, feedback | retrieval queries, LLM APIs, semantic cache |
| Semantic cache (`modules/chat/cache`) | `chat_cache` entries with a lifetime | get, set | Postgres |
| Parsers (`modules/documents/parsers`) | the accumulators of one scan | Markdown, PDF, Word, text, CSV | chunk assembly |
| Chunk assembly (`modules/documents/chunkers`) | headings, buffer and chunks of one document | sections, overlap, splitting | ingestion |
| Retrieval, query pipeline, DLP, embeddings | none (pure, or calls to models) | search, fusion, grading, masking | - |
| Rate limiter (`infrastructure/rate_limiter.py`) | a Redis sorted set per key | one Lua script | Redis |
| Pagination (`core/pagination.py`) | a cursor held by the client | next page | Postgres |

How a document travels: a request stores its file, then commits its row together
with an outbox row; a relay replica claims the outbox row and sends a Celery
task; a worker locks the document row, fetches the file, replaces the chunks and
turns the document ACTIVE; chat retrieval reads the active chunks.

Behaviours that are hard here: several replicas and workers on the same rows with
READ COMMITTED isolation; values read before an `await` and written after it; two
stores (Postgres and S3) without a common transaction; messages delivered late,
twice or never; tenant identity kept on pooled connections; failures in the
middle of a transaction that is then reused.

What makes each component correct:

* unit of work: an event is published iff its change is committed; a connection
  never carries one tenant's identity to another; every unit gives its
  connection back.
* relay: no event is lost while it is pending, none is dispatched twice except
  for a failure nobody could record, retries are bounded, every event settles.
  What reaches the broker after that was on its way before.
* documents and ingestion: what retrieval sees of a document is one complete
  ingestion; failures keep the last good one; nothing survives a delete.
* auth: a session that was rotated, or ended, yields no new one later; a closed
  account or tenant gets none; nobody outranks who founded the tenant, and the
  founder stays; an accepted invitation made its account.
* chat: a stream that ends with `[DONE]` is a stored turn, stored once; one that ends
  otherwise stored nothing but a cached answer, unless it was cut off after its last
  COMMIT; counters fall behind the messages only by turns that overlapped; every turn
  ends. Cache: what it replays was generated, for a question without history, in a stored
  turn.
* parsers and chunk assembly: no line that says something is lost (of a CSV row, no cell
  with a column of its own), repeated or moved except as overlap or table header; a chunk
  keeps to its section, pages and size, and its trail names the titles it is under.
* rate limiter: never more than the limit in a window, and an honest Retry-After.
* pagination: every row once, in order, and the walk ends.

`PROJECT.json` lists the places where each of these can go wrong ("hazards").

## 2. Modules

| Module | Models | Checked by | Proved in |
|---|---|---|---|
| `UnitOfWork` | `core/uow.py`, `core/events.py`, engines, the session calls of upload, reingest, delete, chat and ingestion | `MCUnitOfWork` | `UnitOfWorkProofs` |
| `OutboxDelivery` | what the outbox promises for each event (abstract) | refinement below | |
| `OutboxRelay` | `infrastructure/outbox.py`, any number of replicas | `MCOutboxRelay` | `OutboxRelayProofs` |
| `SearchIndex` | what retrieval may rely on (abstract) | refinement below | |
| `DocumentIngestion` | `document_service.py`, `ingestion_service.py`, `worker/tasks.py` over database and storage | `MCDocumentIngestion` | `DocumentIngestionProofs` |
| `TenantMembers` | `user_service.py`, `invitation_service.py`, `registration_service.py`, `UserRole`, `require_roles` | `MCTenantMembers` | `TenantMembersProofs` |
| `AuthSessions` | `auth_service.py`, the operations of `user_service.py` that end sessions, deletion of a tenant | `MCAuthSessions` | `AuthSessionsProofs` |
| `ChatTurn` | `chat_service.py`, `session_service.py`, `history.py`, `chat/router.py`, `semantic_cache.py` | `MCChatTurn` | `ChatTurnProofs` |
| `SlidingWindow` | what the limiter promises for a key (abstract) | refinement below | |
| `RateLimiter` | `infrastructure/rate_limiter.py` | `MCRateLimiter` | `LimitsAndPagesProofs` |
| `CursorPages` | `core/pagination.py` | `MCCursorPages` | `LimitsAndPagesProofs` |
| `ContentBlocks` | `parsers/types.py`: blocks, lines, the token estimate | `MCTextPipeline` | `TextPipelineProofs` |
| `DocumentParsers` | `parsers/*` | `MCTextPipeline` | `TextPipelineProofs` |
| `ChunkAssembler` | `chunkers/assembler.py` | `MCTextPipeline` | `TextPipelineProofs` |
| `TextPipeline` | the two composed as `ingestion_service.py` calls them | `MCTextPipeline` | `TextPipelineProofs` |

**UnitOfWork.** Each unit runs a *script*, the calls a service and its caller make
on the session in source order. An entity's changes are numbered so an outbox row
can be compared with the change it announces. `Begin` is the `after_begin`
listener on the connection a transaction checks out; `Commit` does what
`UnitOfWork.commit` does, in that order: scan new, dirty and deleted, pull events,
commit. `Raise`, `CommitFails` and `Abort` fail any call; the worker's `except`
branch, which rolls back and reuses the session, is the `handler` stage. The
SQLAlchemy session itself (which objects are new, dirty, clean, when a connection
is needed) is external and modelled from how the code uses it, with
`autoflush=False` and `expire_on_commit=False` as in `database.py`.

**OutboxRelay.** One action per step of `run_outbox_relay` and `process_outbox_event`. A
replica's `batch` is the stale list of ids; `task` is the coroutine of each id: *claimed*
while it hands the event over in a thread, then *sent* or *failed* until its transaction
ends. The clock is abstracted to whether `next_retry_at` has passed. `Slots` is how many
coroutines hold a connection at once (the owner pool has 2, the semaphore 20); a coroutine
that gets none times out. `DispatchFails` may or may not have reached the broker.
`CommitLost` drops the connection of one coroutine: its row is free at once, but a
coroutine that awaits its handover does not notice. It is *cut*, still hands the message
over (`SendLate`), possibly after another replica has claimed the row and recorded SENT,
and fails at its commit. `Crash` loses all transactions of a replica; the threads in which
it hands events over are taken along by a kill and waited for by a stop in order, so any
of them may finish.

`OutboxDelivery` knows rows and messages only. While an event is PENDING any handover may
begin; once it is SENT or FAILED none does, and a message can still arrive only from a
sender that is *late*: one that lost its transaction in the middle of a handover, which
completes it once or not at all.

**DocumentIngestion.** A document is named by the request that uploaded it.
Requests and tasks have a local stage and the row they loaded; committed rows,
chunks and storage are shared. The row lock that the flush of PROCESSING takes is
a variable; a request's flush and commit follow each other directly and are one
step guarded by that lock. `Written` is the ORM's UPDATE of changed columns only:
a column the request did not change relative to what it had loaded keeps what
another transaction committed. Tasks may be delivered for any document at any
time and twice: the relay and the broker deliver at least once and unordered, so
this covers every delivery they can make. Parsing, DLP, chunking and embedding are one
step that can fail; a content is characterised by the number of chunks it yields.
Branches that foreign keys make unreachable (a document without workspace) and
the unique index on active chunks, which the row lock keeps from ever
conflicting, are left out.

`SearchIndex` is what a reader of the documents and chunks relies on, without requests,
locks or stages: ids are added once, a run publishes all its chunks of one content in
place of the last ones, once at most and never after it has given up, a document shown as
ready has chunks, a removed one is found no more. The mapping reads it off the state: a
document is *minted* when its upload is done, *listed* while its row is there, *ready* while
the row is ACTIVE, *found* are its active chunks, and *spent* are the tasks that have
failed or ended. A crash of a task that has already failed is a stutter; so is a delete of
a row that is already gone.

**TenantMembers.** The accounts and invitations of one tenant. A request is one
transaction at READ COMMITTED: it loads and checks without a lock (the action
named after the operation), an administrator's demotion or deactivation counts the
active administrators in a second statement (`CountActiveAdmins`), and the flush
with the commit that follows it is one step (`Save...`) that writes only the
columns the ORM sees changed. Between the flush and the commit the row is locked
and nothing else is read, so one step loses no interleaving. Requests that are
refused change nothing and are left out. `claims` holds the roles of the access
tokens that have not expired: the routes trust the token and not the row, so a
demoted administrator acts as one for a while. An account is named by its address,
unique in the tenant; invitation tokens are numbered in the order they are minted,
and all live equally long, so that the expired ones are those up to `lapsed`.
`Founder` are the accounts a tenant starts with: the administrator of
`register`, and any an operator put beside it (an OWNER or a SUPER_ADMIN cannot be
created through the API, though the routes accept an OWNER's token). The count of
administrators is taken only when the actor is above ADMIN, that is, in tenants an
operator has given an OWNER.

**AuthSessions.** The refresh tokens of one account; a token is named by the
request that inserted its row. Login reads the tenant and then the user, refresh
the token and then the user with its tenant; both insert at the end. Verification
of passwords, signatures and hashes means that the right one was presented, and
requests that present a wrong one are left out. A bulk revocation updates the
rows its statement can see; it is placed at its commit, and a login or rotation whose
new row it does not see (one it waits for, or one that commits before it does) has
the effect of one that commits later. `before` is history, read by
the properties and by no guard: the requests that had been answered when this one
began. It lets the properties tell *later* from *at the same time*, which is the
line between what the code guarantees and what it does not.

**ChatTurn.** Turns on sessions, with everything else that happens to a session:
creation without a turn, renames, deletion, and the expiry of cache entries. A turn
goes through the stages of `process_query`; what it holds between them (its copy of
`message_count`, the messages it has added and not flushed, what it has streamed) is
its own, because the session object is loaded once and `expire_on_commit=False` keeps
it. `Release` is the commit in the middle, which also flushes what happens to be
pending. `total_cost_usd` is a Numeric column, so an attribute that was loaded is a
Decimal and adding the float cost raises; this is modelled (`CostAdds`) because it
decides which turns reach their bookkeeping. The last COMMIT (`Store`, `StoreCached`) and
the `[DONE]` after it (`Done`) are separate steps: a turn between them is *stored*. `Abort`
is a client that leaves or a database or model failure at any stage before; a COMMIT that
fails is an `Abort`, one whose reply is lost is the commit followed by `CutOff`, and so are a
cancellation and a crash in that gap: the turn is stored and its stream ends with an error
or nothing. Which questions are similar enough for the
cache is left open. The rolling summary is not modelled: it is made when a multiple of
six messages is reached, and no turn that gets that far has counted more than two.

**RateLimiter.** One key, that is one user on one route. Redis runs the script
atomically, so a request is a number in the order Redis served them. Tokens of one
user may carry different plans, so every request has its own limit. `FailOpen` is a
RedisError before or after the script ran; `Expire` is EXPIRE, `Forget` the loss of the
key by eviction or restart (`since` remembers it for the property). The clock has
`Second` ticks to the second, which is what the rounding of Retry-After is about. The
refusal's reading of the oldest score is in the same atomic script.

`SlidingWindow` is the limiter without a sorted set: a log of everything admitted, and a
request is admitted exactly when the part of the log in its window is under its limit. The
mapping takes the log to be what the script counted since the key was last lost; cleaning
and expiry are not steps of it. `WindowBound` only says that no window is overfull; this
also says that nobody is refused who should have passed.

**CursorPages.** One client walks one list; other requests insert, delete and move
rows between its pages. Encoding and decoding a cursor keep its value and id. The
seek filter's id condition is `<` whatever the direction, as in the code. Its
specification is `WalkSpec`, so that one module can extend both it and `RateLimiter`.

**ContentBlocks, DocumentParsers, ChunkAssembler, TextPipeline.** A document is built
line by line while it is parsed: a line is its number and its kind, so every document
of `MaxLines` lines is covered, and a chunk can be compared with the lines it came
from. The regular expressions that decide a line's kind, and the libraries that read
PDF and Word, are input. `Level` gives the level of each kind of heading, any of
`1..NumLevels`. Tokens are estimated with the code's formula, in integers.

A line of a CSV file is one record, and `csv.DictReader` is modelled by what it leaves of
it (`Left`): the first line names the columns, even a blank one, which leaves every later
row empty; other blank lines are skipped; a row loses the cells beyond the header (a
*surplus* row) and, under a header that repeats a name (a *surplus* header), all but the
last of the cells with that name. What is left is *trimmed*. Cells missing at the end of a
row read "None", which is formatting and left out.

`headings` has the title of each level that is in force, 0 for none. A section title
replaces those of its level and below (`Entered`), so nested titles stay in the trail
beside it. `NoTrail` is the empty tuple of the code, which is refilled from `headings` where
the code tests for it.

The phases are those of the code: *parse*, one action per kind of line and format;
*chunk*, the end of `parse_document`; *assemble*, one block of `given` per step, of which
`taken` are done (`SectionBreaks`, `MinorHeading`, `BodyBlock` and `LargeBlock` are the
branches of `chunk_document`); *split*, one piece of an oversized block per step
(`NextPiece`), of which `cut` lines are in chunks; and *done*. `given` is what the loop
runs over: the parser's blocks, or the paragraphs of `fullText` when there are none. The
sums of tokens are a recursive function over a sequence (`Total`), and the searches the code
makes backwards or forwards for where an overlap or a piece ends are a minimum or a maximum
of the places where it may (`Retained`, `PieceEnds`). What the properties say of a chunk
holds as soon as there is one, not only of a finished document. Character offsets, token
counts as metadata, and descriptive metadata are left out: the assembly does not read them.

Definitions marked *Variant* in the modules are not part of the model: each is a
plausible bug that a property must notice.

## 3. Runs

Bounds are in the `.cfg` files. Where a configuration says `CHECK_DEADLOCK FALSE`,
units, events, requests or tasks are finite and the system comes to rest when all
are done. `TenantMembers` never rests (access tokens are issued and expire) and is
checked for deadlock.

| Run | Instance | Shows |
|---|---|---|
| `unit_of_work` | 2 units of any kind, 2 tenants, 1 app and 1 owner connection | `TenantBound`, `PoolIsClean`, `ReadyIsAnnounced`, `EventsCommitWithTheirChange`, and `UnitsEnd` under fairness |
| `relay` | 2 replicas, 3 events, batch 2, 1 slot each, 2 retries, 1 loss | `DeliveriesAccounted`, `GivenUpWhenExhausted`, the refinement of `OutboxDelivery` (`ImplementsDelivery`) and `EventsSettle` under fairness |
| `documents` | 3 requests, 2 tasks, files of 2, 1 and 0 chunks | types, `OneRunIsSearchable`, `ActiveHasChunks`, `NoOrphanChunks`, `FileOfRowIsStored`, `SearchableUntilDeleted`, `ImplementsIndex` |
| `members` | an owner, an administrator, an address without account, 4 requests | `RoleCeiling`, `FoundersKeepRank`, `AcceptedHasAccount` |
| `sessions` | 5 requests of any kind | `RotatedAgainOnlyAtOnce`, `OldSessionsEnd`, `ClosedAccountsGetNoSession` |
| `chat` | 2 turns, 1 session made without a turn, 1 old cache entry | `TurnIsAtomic`, `StoredOnce`, `CountLagsOnlyByOverlap`, `CacheIsFirstHand`, and `TurnsEnd` under fairness |
| `limiter` | 4 requests, limits 1 and 2, a window of 4 ticks, 2 ticks to the second, 5 ticks | `WindowBound`, `RetryAfterHonest`, the refinement of `SlidingWindow` (`ImplementsWindow`) |
| `pages` | 4 rows, 2 sort values, pages of 2, 2 writes, descending | `EachOnce`, `InOrder`, and `WalkEnds` under fairness |
| `text` | documents of up to 5 lines, headings of 3 levels of which 2 break sections, PDF of 2 pages, chunks of 3 tokens, overlap 1, CSV batches of 2 with blank lines and surplus cells | `LinesKept`, `ChunksCoverInOrder`, `RepeatsOnlyOverlap`, `SectionsApart`, `ChunksWithinLimit`, `TrailIsOfSection`, `PagesAreOfText` |

The type invariants of `UnitOfWork`, `OutboxRelay`, `TenantMembers`, `AuthSessions`,
`ChatTurn`, `RateLimiter` and `CursorPages`, and `LockDiscipline`, are not in a
configuration because they are proved (section 4).

Why these bounds are enough: two units already compete for each pool's only connection and
reuse it in turn; two replicas hold the same ids, one slot makes coroutines time out, and
of three events a batch of two leaves out the youngest as long as the older two are
pending and due, also when they have failed before; one loss is a handover that ends late,
a crash or an ambiguous reply, each against everything the other replica does; three
requests are an upload and two operations that race on it, or an upload, a re-ingestion
and a delete in sequence; two tasks are a redelivery or the tasks of two versions. Four
requests on a tenant are two invitations of one address with an operation on each, or an
invitation, its acceptance and two operations on or by the new account. Five requests on
an account are a login, its rotation, a revocation, a reactivation and one that follows.
Two turns make sessions for each other, overlap on one, or follow each other through the
cache; the state of a turn does not depend on how many others there were. Four requests
fill a window of two, are refused, and come back when it has moved, with a plan of one in
between; five ticks let a key expire as a whole. Four rows with two sort values put a
page's end inside a group of equals, and two writes can remove the cursor's row and put
another in its place. Five lines are enough for a paragraph, table, list or code block
that another interrupts or a page ends, for a buffer that exceeds its limit with an
overlap to keep, and for a block that is split twice; a line is one token, two joined are
three, three are four. Three levels, of which two break sections, are a section in a
section with a heading below it, as the code's break at 3 of 6 is: text under `# A`, `##
B`, `### C`, and a later title of any of the levels. Not every kind of line occurs in
every format (`MCKinds`): formulas and list items that go on are in PDF, where a page can
end in them, tables and sections in Markdown and Word. For the safety properties, larger
numbers are covered by the proofs.

Fairness: `UnitOfWork` assumes the event loop runs every ready coroutine (weak)
and that the pool's FIFO queue serves a waiting unit when connections keep coming
back (strong fairness of `Begin`); no failure is assumed to happen or not to
happen. `OutboxRelay` assumes that each replica's loop and task group keep running
(weak, per replica; the loop catches every exception, and `send_task` returns or raises) and
that an event which some replica could claim again and again is eventually claimed by one of
them (strong: coroutines race for the connection and the row). The number
of losses is bounded by `MaxLosses`; without a bound a relay that always crashes
settles nothing. `ChatTurn` assumes that a generator which can go on is run (weak): the
clients of the models have timeouts (`core/clients.py`), and a failure is one of the ways to
go on. Statements of the database have none (`core/database.py`); what they wait for is a
row lock, and every transaction that holds one ends. `CursorPages`
assumes a client that asks for pages while it gets a cursor, and a bounded number of
writes: a list that grows at its far end for ever has no last page.

### Disagreements between code and documents

Each `violation` run checks one sentence of the repository and finds it violated.

| Run | The sentence | What happens |
|---|---|---|
| `upload_announced` | `modules/documents/router.py:108` "Upload a file to a workspace and trigger the ingestion pipeline." | `upload` (and `reingest`) flush before `commit`, so the entity is clean when `commit` looks for events and the outbox row is never written (`core/uow.py:86`) |
| `answered_stored` | `docs/DOCUMENT_CHAT_MODULES.md:174` "Persists conversation history, token counters, and accumulated USD costs." | a turn on a session it loaded adds a float to a Decimal after the answer was streamed; the exception rolls back its messages (`chat_service.py:310`) |
| `messages_once` | `modules/chat/memory/session_service.py:120` "List messages for a chat session with pagination in chronological order." | the seek filter of an ascending list compares ids downwards; the two messages of a turn have one `created_at`, and a page that ends between them repeats or skips one (`core/pagination.py:73`) |

Other disagreements and races, which the models contain and no run asserts away; the
properties of the passing runs hold with all of them.

* Relay: a replica with an older list of ids retries before the backoff has elapsed
  (`infrastructure/outbox.py:45`). A coroutine whose connection drops during its handover
  still sends the message, possibly after another replica sent it and recorded SENT
  (`infrastructure/outbox.py:55`).
* Documents: a re-ingestion that loaded PENDING does not write PENDING, so a row can be
  ACTIVE with the chunks of the version before (`ingestion_service.py:121`;
  `docs/RAG_ARCHITECTURE.md:1782` says old chunks are replaced). A document with chunks
  cannot be deleted: the flush sets their NOT NULL `document_id` to NULL after the file
  is gone (`document_service.py:242`; `modules/documents/router.py:188` says it deletes
  "a document and its parsed chunks"). Two re-ingestions compute the same version
  (`document_service.py:187`); a delete leaves the files of earlier versions
  (`document_service.py:235`). Celery's early acknowledgement loses the task of a worker
  that dies (`worker/tasks.py:48`).
* Accounts: an invitation accepted between the read and the write of a revocation ends
  REVOKED, its account in place (`invitation_service.py:133`). A demotion commits although
  its target has been promoted to the actor's rank since it was loaded
  (`user_service.py:82`); two invitations of one address are both pending
  (`invitation_service.py:68`); in a tenant an operator has given an OWNER, two demotions
  at once leave no administrator (`user_service.py:91`).
* Sessions: two overlapping refreshes of one token both return a pair
  (`auth_service.py:103`; `docs/TENANT_AUTH_MODULES.md:219`), and a login that has checked
  the account inserts its token after a deactivation revoked the others
  (`user_service.py:141`; `docs/TENANT_AUTH_MODULES.md:304`).
* Chat: a turn that is cancelled, or loses the reply of its COMMIT, after that COMMIT took
  effect is stored, but its client gets an error or nothing instead of `[DONE]`
  (`chat_service.py:244`, `chat_service.py:108`, `chat/router.py:62`).
* CSV: a blank first line loses the text of every row; cells beyond the header, and all but
  the last of the cells under one name, are dropped (`parsers/__init__.py:53-62`).
* Text: what a line that begins with three backquotes says after them is in no block's
  text; of the opening one it becomes the language of the block, of the closing one it is
  dropped (`parsers/markdown_scanner.py:129`). A section title that another title of its
  level follows is in no chunk and no trail (`chunkers/assembler.py:129`; numbered lines
  such as "1. Install" are titles of level 1). The pieces of an oversized block that
  follows buffered text carry no trail (`assembler.py:151`;
  `docs/DOCUMENT_CHAT_MODULES.md:212` says every chunk has it). Tables from CSV and Word
  do not repeat their header when they are split (`assembler.py:249`;
  `docs/DOCUMENT_CHAT_MODULES.md:214`), an oversized paragraph is never split, minor
  headings are buffered whatever the size, and an empty code fence yields an empty chunk.
  The limit is kept on the sum of the blocks' estimates: the `token_count` of the joined
  text can be larger by rounding and separators. The chunks come from blocks that DLP has
  not masked (`ingestion_service.py:71`; `docs/RAG_ARCHITECTURE.md:1377`).
* Limiter: after a change of plan Retry-After may be too short, since the oldest entry
  leaving does not bring the set under a smaller limit (`rate_limiter.py:43`).

## 4. Proofs

* `OutboxRelayProofs`: `RelaySafe` (`TypeOK`, `LockDiscipline`, `DeliveriesAccounted`)
  and `RetriesBounded` (`GivenUpWhenExhausted`) for every number of replicas, events, retries, slots
  and losses, late handovers included. Their conjunction with `StartedOnce` (an id still in a
  replica's batch has no coroutine there, so none that is cut is started again) is inductive:
  the account of deliveries needs the lock discipline (a coroutine that has sent is the only
  one on its row that can record anything, and the row is still PENDING), and the lock
  discipline needs types. One lemma per group
  of actions, then PTL.
* `OutboxRelayProofs!RelayImplementsDelivery`: every step of the relay is a step of
  `OutboxDelivery` or a stutter. It uses the same invariant: a row recorded as
  SENT was delivered because its coroutine's message is in the account, and whoever becomes
  late held the lock of a row that was PENDING.
* `UnitOfWorkProofs`: for every number of units, tenants and connections,
  `TenantIsolation` (`TenantBound`) and `PoolsStayClean` (`PoolIsClean`), whose invariant
  adds the types of the connection variables and that an idle unit has no connection (its
  kind, and so its pool, is not chosen yet); and `TypesHold` (`TypeOK`), `ReadyAnnounced`
  (`ReadyIsAnnounced`) and `EventsCommitOnce` (`EventsCommitWithTheirChange`), which
  depend on what the services call in which order. Their invariant (`ScriptInv`) follows
  the scripts: how many changes a unit has made at each position (`Numbered`), where its
  entity can have events and where it has been flushed and is not scanned for them
  (`Recorded`), and that the worker's ACTIVE is pending with its event until one commit
  takes both (`ReadyTogether`). That an event is never published for a change the except
  branch rolled back rests on the last two: the handler's own change has another number,
  and the entity keeps no event a later commit would find.
* `TenantMembersProofs`: `NobodyOutranksFounders` (`TypeOK`, `RoleCeiling`),
  `FoundersStay` (`FoundersKeepRank`), `AcceptedMadeAccount` (`AcceptedHasAccount`)
  and, from the second, `RegisteredTenantKeepsAdmin`: a tenant whose only founder is
  an administrator always has an active one. For any addresses, founders, roles and
  number of requests. What a transaction read may be out of date when it writes, so
  the invariant needs `Checked`: what it may still rely on. A claim and a role to be
  granted stay under the ceiling because founders do not change; the target of a
  demotion is not a highest founder because no claim outranks one; an
  invitation's address never changes, so the row that is accepted is the one of
  the account. Invitations have a ceiling of their own, and those that exist
  belong to requests already answered (the row a request is about to insert cannot be
  someone else's).
* `AuthSessionsProofs`: `RotationIsSequential` (`TypeOK`, `RotatedAgainOnlyAtOnce`),
  `RevocationIsFinal` (`OldSessionsEnd`) and `ClosedAccountsStayOut`
  (`ClosedAccountsGetNoSession`) for any number of requests. The properties speak of
  requests that were served; the invariant says it of those still in flight
  (`PastIsSettled`: a request presents no token that one before it rotated or ended;
  `GrantedWhileOpen`: what was granted after a deactivation was granted after its
  reopening, `ActiveIsReopened`), because the check and the insert are different
  steps. `RotatedIsRevoked` and `EndedIsRevoked` are why a later request is refused.

* `LimitsAndPagesProofs`, pagination: `WalkReturnsEachOnce` (`WalkTypeOK`, `EachOnce`) and
  `WalkIsInOrder` (`InOrder`) for descending lists of any rows, values, page size and number
  of writes. The invariant says what the cursor divides: of the rows nobody touched, those
  returned are exactly the ones the seek filter no longer matches. It needs that a page is an
  initial segment of what matches, and that its last row is the cursor: a page of a
  finite list has a last row, and whatever a row of the page precedes is not before it.
  The theorems assume `~Ascending`; the run `messages_once` shows that they must.
* `LimitsAndPagesProofs`, limiter: `WindowHolds` (`WindowBound`) and `RetryAfterHolds`
  (`RetryAfterHonest`) for any number of requests, any limits, window and clock. The first
  rests on `SetCoversWindow`: what was counted since the key was last lost and is still in
  the window is in the set, because cleaning and expiry take only what has left it; so
  the cardinality the script compares with the limit bounds the window. The second rests on
  `OneWillHaveLeft`: until somebody is counted, fewer requests than the refused one found
  will be in the window when its client may come back; the oldest entry exists
  (a well-founded minimum), it leaves by then (`RoundedUp`, division rounded up), and the
  set only shrinks.
  `LimiterTypes` (`TypeOK`) adds the other side: Retry-After is at most the window, since the
  oldest entry is not newer than the clock and the window is whole seconds.
* `LimitsAndPagesProofs!LimiterImplementsWindow`: every step of the limiter is a step of
  `SlidingWindow` or a stutter. `SetCoversWindow` says that the set misses nothing of the log
  that is in the window, `EntriesCounted` that it holds nothing else, so what cleaning leaves
  is the log's window (`KeptIsRecent`) and the two comparisons agree. `Expire` is a stutter
  because the log does not change when the key's entries have left the window.

* `DocumentIngestionProofs`: `TypesHold` (`TypeOK`), `SearchableChunksHold`
  (`OneRunIsSearchable`), `ActiveIsSearchable` (`ActiveHasChunks`), `DeletedLeavesNone`
  (`NoOrphanChunks`), `FilesOfRowsHold` (`FileOfRowIsStored`) and `SearchableStays`
  (`SearchableUntilDeleted`) for any number of requests and tasks, any names and contents.
  The center of the invariant is `LocksHeld`: whoever works on a document holds its row
  lock and the row is there, so a commit never writes chunks of a deleted document, and
  its chunks replace whatever was active. `Written` is why a stale request or task never
  makes a document ACTIVE: a status is either the row's own or PENDING or ERROR. Versions
  are in range because each begun request adds at most one (`VersionsCounted`). The file
  of a row is there because the file of a request that stored one is (`StoredFiles`), as
  long as no delete has begun; what has begun stays begun.
* `DocumentIngestionProofs!IngestionImplementsIndex`: every step of a request or a task is
  a step of `SearchIndex` or a stutter. Besides the invariant above it needs
  `RowsAreMinted`: a row was inserted by an upload that is done and stays done, so the
  INSERT adds an id nobody has seen. The commit of a run is `Publish` because its active
  chunks are exactly the new ones (`CommitSwaps`); a re-ingestion and the except branch are
  `Withdraw` or nothing, because `Written` never makes a row ACTIVE; the delete of a row
  that is gone finds no chunks either.

* `ChatTurnProofs`: `TypesHold` (`TypeOK`), `TurnsAreAtomic` (`TurnIsAtomic`),
  `TurnsStoredOnce` (`StoredOnce`), `CountLags` (`CountLagsOnlyByOverlap`) and
  `CacheHoldsFirstHand` (`CacheIsFirstHand`) for any turns, sessions and cache entries.
  The invariant has three parts. What a turn holds at each stage: when it has made its
  session (`SessionMade`), what it can have shown (`AnswerShown`), and that it has something
  unflushed only between a cached answer it could not book and the commit in the middle
  (`PendingFormed`). What is stored: one pair per turn, which before the last commit of its
  turn is such a cached answer (`PairsFormed`), and the pair of every turn that has made
  its last commit while its session is there (`BookedIsStored`; `Booked` is from the commit
  on, whether [DONE] follows or the turn is cut off). And the count: the copy a turn loaded
  is up to date, or somebody has stored since the turn began, or turns had overlapped
  before (`CopyLags`), which is what makes a count that lags evidence of an overlap
  (`CountsLag`); `PastEnded` says that a turn counted as earlier will not write any more.

* `TextPipelineProofs`: all seven properties of parsing and chunking, for documents of any
  length, format and number of pages, any weights of lines, `MaxChunk`, `Overlap` and
  batch size, any number of heading levels and any `SectionBreak` in `0..NumLevels`:
  `LinesKeptAlways`, `ChunksCoverAlways`, `OverlapOnlyAlways`, `SectionsApartAlways`,
  `WithinLimitAlways`, `TrailAlways` and `PagesAlways`. They follow from invariants of the
  whole state.
  - `ParserInvariant` (`ParserInv`): the numbers of the lines increase through the blocks and
    what is gathered after them, headers that are repeated aside; at most one of paragraph,
    table, list and open code block is being gathered (`Pending`), so appending to it
    or closing it keeps the order; every line that says something is in a block or pending.
    What a block of each type can hold (`BlockOK`) is what the assembler relies on later.
  - `Whole`: what a block or an accumulator holds of a line is what parsing leaves of it,
    the line itself or, of a CSV row, its cells with a column of their own; with `ParserInv` it
    gives `LinesKept`.
  - `TextInvariant` (`AssemblerInv`): every chunk has a *source* (`SourceOK`). Either it
    is consecutive blocks `p..q`, of which the first `r` also ended the chunk before and
    fit the overlap (`FromBuffer`), with the trail and pages of those blocks
    (`ChunkTrail`: for each level that breaks sections the title in force at all of them,
    for a deeper one a title of that section, and nothing only before the first heading);
    or it is consecutive lines of one oversized block, with its header (`FromPiece`),
    whose trail is empty only if the block cut a buffer (`PieceTrail`). The buffer is the
    blocks up to `taken`, from some place on (`BufferOK`), `headings` are the last titles
    of each level up to there (`HeadingsOK`: the title of a level is in force when no
    title of its level or of a higher one came after it, whatever the levels between), and
    the chunks with the buffer hold the lines of exactly the blocks taken (`Seen`,
    `Upto`). One lemma per branch of `chunk_document`; then one lemma per property, which
    reads it off the sources.

  A sum over a sequence is a recursion, and the library's induction theorems cannot be
  instantiated here. The facts needed (`Total` of a concatenation, of a prefix, of a sequence
  of larger numbers) are proved with a least counterexample instead: the set of lengths at
  which a fact fails is a set of numbers, and `NatLessThanWellFounded` gives it a minimum
  (`NatMin`), which the recursion's step refutes. The same lemma gives the minimum behind
  `Retained` and the maximum behind `PieceEnds`. A chunk within the limit rests on
  them: the buffer's tokens are the sum of its blocks', the overlap kept is under `Overlap`,
  and a block is appended only while the sum stays under `MaxChunk`.

The theorems rest on the named assumptions of the modules only: pools are
disjoint, sentinels are not elements, bounds are naturals and at least one where
the code divides the work by them, sets of rows and of requests are finite, weights of
lines and sizes of chunks are naturals, and a format has lines of the kinds its parser knows.

Only model-checked: liveness under fairness (`UnitsEnd`, `EventsSettle`, `TurnsEnd`,
`WalkEnds`), which is out of the prover's reach. Every other property of a passing run is a
theorem. The three `violation` runs are counterexamples, which TLC finds.

## 5. Not modelled

* Retrieval, fusion, reranking, grading, compression and grounding: stateless functions of
  real-valued scores. A turn sees them as a step that may fail. The query pipeline and the
  prompts are calls to models and formatting.
* DLP masking: rewriting of characters that regular expressions find; the chunks are not
  built from its result. `mask_pii` shifts later matches by the difference in length and so
  assumes that matches do not overlap (`modules/documents/security.py:93`), which the
  patterns do not ensure.
* Embeddings and enrichment: a batch succeeds whole or fails after its retries, which is a
  failure of the ingestion.
* The workspace service and the single-row operations of tenants: one transaction each, on
  a unique index.
* Clients, configuration, logging, exceptions, HTTP plumbing, and generated DDL; the
  constraints the models rely on are part of their modules, and the row-level security
  policies are represented by the tenant setting they read.
* The composition of `UnitOfWork`, `OutboxRelay` and `DocumentIngestion` into one
  specification: as the code stands an upload never writes its outbox row, so every
  end-to-end statement would hold because nothing is ever delivered. Instead
  `DocumentIngestion` lets a task arrive for any document at any time, which contains
  whatever the relay and the broker could deliver.
* The encodings of cursors and tokens: they are modelled as records. `decode_cursor` parses
  a sort value that looks like an ISO date as one; names that do are not covered.

## 6. Plan

Order: first what can corrupt or leak data, then sessions, then algorithms.

1. Done: `UnitOfWork`, `OutboxDelivery`/`OutboxRelay`, `DocumentIngestion`, their
   runs, and the proofs of section 4.
2. Done: `TenantMembers` (role hierarchy, last administrator, stale claims,
   invitations) and `AuthSessions` (rotation against what ends sessions).
3. Done: `ChatTurn` with its cache, `RateLimiter`, `CursorPages`, and the text pipeline.
4. Done: the proofs of `DocumentIngestion` and `ChatTurn`, the script-dependent properties
   of `UnitOfWork`, and `SearchIndex` with its refinement.
5. Done: the invariants of the text pipeline, for any document and limits; `SlidingWindow`
   with its refinement.
6. Later: an abstract specification of the sessions (`AuthSessions`) with its refinement; the
   packing of retrieved chunks into a token budget.
