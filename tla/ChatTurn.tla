------------------------------ MODULE ChatTurn ------------------------------
(***************************************************************************)
(* Turns of a conversation, modules/chat: process_query streams an answer   *)
(* while other turns, renames and deletions of the same session go on.  A    *)
(* turn reads its session once, at the start, and works on that copy        *)
(* (expire_on_commit=False); it commits once before the answer is generated *)
(* (to give its connection back) and once after it.                          *)
(*                                                                         *)
(* A session is named by the turn that creates it, or is one that POST       *)
(* /sessions made (Given).  A pair is the question and the answer of a turn, *)
(* inserted by one flush.  Which questions are similar is left open.         *)
(*                                                                         *)
(* total_cost_usd is a Numeric column: an attribute that was loaded is a      *)
(* Decimal, and adding the float cost to it raises TypeError; the one of a    *)
(* session the turn created itself is still the default 0, and adds.  So     *)
(* message_count is 2 whenever a turn gets as far as its summary, which is     *)
(* made when the count is a multiple of RAG_MEMORY_WINDOW, 6: it never is.     *)
(***************************************************************************)
EXTENDS Naturals, FiniteSets

CONSTANTS Turn,       \* requests of POST /chat/stream
          Given,      \* sessions made by POST /chat/sessions
          Earlier,    \* cache entries from before
          NoSession

ASSUME NameAssumption == Turn \cap (Given \cup Earlier) = {} /\ NoSession \notin Turn \cup Given
ASSUME FiniteAssumption == IsFiniteSet(Turn)

VARIABLES
  \* committed rows
  made,    \* sessions that were inserted
  alive,   \* those not deleted
  count,   \* message_count
  title,   \* default ("New Conversation"), custom or auto
  stored,  \* pairs of messages
  cache,   \* unexpired chat_cache entries, named by the turn that made them
  \* a turn
  stage, session,
  memory,  \* the count of its copy of the session
  alone,   \* it found no history
  pending, \* pairs added to its SQLAlchemy session and not flushed
  shown,   \* answers it has streamed: cached, generated or failed
  finish,  \* how its stream ended: DONE, error, left by the client, or cut
           \* off after its last commit
  \* history, read by properties only
  before,  \* the turns that had ended, or only had [DONE] left, when it began
  hurt     \* turns whose client left or that met a failure from outside

rows == <<made, alive, count, title, stored, cache>>
turn == <<stage, session, memory, alone, pending, shown, finish>>
vars == <<rows, turn, before, hurt>>

Session == Turn \cup Given
Fresh(t) == session[t] = t
Pair(t, a) == [session |-> session[t], turn |-> t, answer |-> a]

Goes(t, s) == stage' = [stage EXCEPT ![t] = s]
Ends(t, f) == Goes(t, "ended") /\ finish' = [finish EXCEPT ![t] = f]

-----------------------------------------------------------------------------
(* The other requests on a session. *)

Create(s, name) ==
  /\ s \in Given \ made
  /\ made' = made \cup {s} /\ alive' = alive \cup {s}
  /\ title' = [title EXCEPT ![s] = name]
  /\ UNCHANGED <<count, stored, cache, turn, before, hurt>>

Rename(s) ==
  /\ s \in alive
  /\ title' = [title EXCEPT ![s] = "custom"]
  /\ UNCHANGED <<made, alive, count, stored, cache, turn, before, hurt>>

\* ON DELETE CASCADE
MessagesLeft(s) == {p \in stored : p.session # s}

Delete(s) ==
  /\ s \in alive
  /\ alive' = alive \ {s}
  /\ stored' = MessagesLeft(s)
  /\ count' = [count EXCEPT ![s] = 0] /\ title' = [title EXCEPT ![s] = "default"]
  /\ UNCHANGED <<made, cache, turn, before, hurt>>

Expire(e) ==
  /\ e \in cache
  /\ cache' = cache \ {e}
  /\ UNCHANGED <<made, alive, count, title, stored, turn, before, hurt>>

-----------------------------------------------------------------------------
(* process_query. *)

\* _resolve_session: loads the session, or inserts one and flushes.
Start(t, s) ==
  /\ stage[t] = "idle"
  /\ s \in alive \/ s = t
  /\ session' = [session EXCEPT ![t] = s]
  /\ memory' = [memory EXCEPT ![t] = IF s = t THEN 0 ELSE count[s]]
  /\ before' = [before EXCEPT ![t] = {u \in Turn : stage[u] \in {"stored", "ended"}}]
  /\ Goes(t, "resolved")
  /\ UNCHANGED <<rows, alone, pending, shown, finish, hurt>>

\* get_recent_messages; the cache is asked only without history.
ReadHistory(t) ==
  /\ stage[t] = "resolved"
  /\ LET none == \A p \in stored : p.session # session[t]
     IN /\ alone' = [alone EXCEPT ![t] = none]
        /\ Goes(t, IF none THEN "lookup" ELSE "retrieve")
  /\ UNCHANGED <<rows, session, memory, pending, shown, finish, before, hurt>>

\* No similar entry, or the lookup or the embedding fails.
Miss(t) ==
  /\ stage[t] = "lookup"
  /\ Goes(t, "retrieve")
  /\ UNCHANGED <<rows, session, memory, alone, pending, shown, finish, before, hurt>>

\* The cached answer is streamed, its done event included.
Hit(t) ==
  /\ stage[t] = "lookup"
  /\ cache # {}
  /\ shown' = [shown EXCEPT ![t] = @ \cup {"cached"}]
  /\ Goes(t, "replayed")
  /\ UNCHANGED <<rows, session, memory, alone, pending, finish, before, hurt>>

-----------------------------------------------------------------------------
(* _persist_messages. *)

\* session.total_cost_usd += cost_usd
CostAdds(t) == Fresh(t)

CountAfter(t) == memory[t] + 2

\* flush and commit
Save(t, pairs) ==
  /\ stored' = stored \cup pairs
  /\ count' = [count EXCEPT ![session[t]] = memory'[t]]
  /\ made' = made \cup {session[t]} /\ alive' = alive \cup {session[t]}

\* Variants: the cached answer does not end the turn; it is not committed.
StoreCachedGoesOn(t) ==
  /\ stage[t] = "replayed"
  /\ CostAdds(t)
  /\ memory' = [memory EXCEPT ![t] = CountAfter(t)]
  /\ Save(t, {Pair(t, "cached")})
  /\ Goes(t, "retrieve")
  /\ UNCHANGED <<title, cache, session, alone, pending, shown, finish, before, hurt>>
StoreCachedUncommitted(t) ==
  /\ stage[t] = "replayed"
  /\ CostAdds(t)
  /\ Goes(t, "stored")
  /\ made' = made \cup {session[t]} /\ alive' = alive \cup {session[t]}
  /\ UNCHANGED <<count, stored, title, cache, session, memory, alone, pending, shown,
                 finish, before, hurt>>
\* A new session is committed with its pair.
StoreCached(t) ==
  /\ stage[t] = "replayed"
  /\ CostAdds(t)
  /\ memory' = [memory EXCEPT ![t] = CountAfter(t)]
  /\ Save(t, {Pair(t, "cached")})
  /\ Goes(t, "stored")
  /\ UNCHANGED <<title, cache, session, alone, pending, shown, finish, before, hurt>>

\* Variant: the counters are raised before the messages are added.
AddedLater(t) == {}
Added(t) == {Pair(t, "cached")}

\* The exception is swallowed and the whole pipeline runs.
AfterCachedError == "retrieve"

StoreCachedRaises(t) ==
  /\ stage[t] = "replayed"
  /\ ~CostAdds(t)
  /\ memory' = [memory EXCEPT ![t] = CountAfter(t)]
  /\ pending' = [pending EXCEPT ![t] = Added(t)]
  /\ Goes(t, AfterCachedError)
  /\ UNCHANGED <<rows, session, alone, shown, finish, before, hurt>>

-----------------------------------------------------------------------------
(* Query plan, retrieval, correction: nothing is written.  The commit that     *)
(* releases the connection flushes whatever is pending.                        *)

\* What it left unflushed in a session that it loaded
Dirty(t) == "cached" \in shown[t] /\ ~Fresh(t)

Release(t) ==
  /\ stage[t] = "retrieve"
  /\ Dirty(t) => session[t] \in alive
  /\ IF Fresh(t) \/ Dirty(t)
     THEN memory' = memory /\ Save(t, pending[t])
     ELSE UNCHANGED <<made, alive, count, stored, memory>>
  /\ pending' = [pending EXCEPT ![t] = {}]
  /\ Goes(t, "streaming")
  /\ UNCHANGED <<title, cache, session, alone, shown, finish, before, hurt>>

\* Variant: the commit is tried again with the same messages.
ReleaseRetried(t) ==
  /\ stage[t] = "retrieve"
  /\ Dirty(t) /\ session[t] \notin alive
  /\ UNCHANGED vars
\* The session is gone: the foreign key of the pending messages fails.
ReleaseFails(t) ==
  /\ stage[t] = "retrieve"
  /\ Dirty(t) /\ session[t] \notin alive
  /\ Ends(t, "error")
  /\ UNCHANGED <<rows, session, memory, alone, pending, shown, before, hurt>>

\* stream_synthesis: the text with its done event, or an error event and no text.
Generate(t, answer) ==
  /\ stage[t] = "streaming"
  /\ shown' = [shown EXCEPT ![t] = @ \cup {answer}]
  /\ Goes(t, "answered")
  /\ UNCHANGED <<rows, session, memory, alone, pending, finish, before, hurt>>

Generated(t) == IF "generated" \in shown[t] THEN "generated" ELSE "failed"

\* Variant: whatever was answered is cached.
CacheableAny(t) == TRUE
\* Only for a text, and a turn without history
Cacheable(t) == alone[t] /\ Generated(t) = "generated"

\* auto_title: the copy of a session the turn created has the default title.
Titled(t) == CountAfter(t) <= 2 \/ Fresh(t)

\* Messages, count, title and cache entry.  The flush locks the session's row and
\* nothing is read from then to the commit.
Store(t) ==
  /\ stage[t] = "answered"
  /\ CostAdds(t) /\ session[t] \in alive
  /\ memory' = [memory EXCEPT ![t] = CountAfter(t)]
  /\ Save(t, {Pair(t, Generated(t))})
  /\ title' = IF Titled(t) THEN [title EXCEPT ![session[t]] = "auto"] ELSE title
  /\ \/ cache' = IF Cacheable(t) THEN cache \cup {t} ELSE cache
     \/ cache' = cache   \* the insertion fails in its savepoint
  /\ Goes(t, "stored")
  /\ UNCHANGED <<session, alone, pending, shown, finish, before, hurt>>

\* The cost does not add, or the session is gone.
StoreRaises(t) ==
  /\ stage[t] = "answered"
  /\ ~CostAdds(t) \/ session[t] \notin alive
  /\ Ends(t, "error")
  /\ UNCHANGED <<rows, session, memory, alone, pending, shown, before, hurt>>

\* process_query returns, and the stream is closed with [DONE].
Done(t) ==
  /\ stage[t] = "stored"
  /\ Ends(t, "DONE")
  /\ UNCHANGED <<rows, session, memory, alone, pending, shown, before, hurt>>

-----------------------------------------------------------------------------
(* The client leaves, or the database or a model call fails where nothing      *)
(* catches it; what is not committed is rolled back.  At "streaming" that may   *)
(* be the reply of the commit in the middle: it is done, and the turn ends.     *)
Abort(t, f) ==
  /\ stage[t] \notin {"idle", "stored", "ended"}
  /\ Ends(t, f)
  /\ hurt' = hurt \cup {t}
  /\ UNCHANGED <<rows, session, memory, alone, pending, shown, before>>

(* The last commit is done, but [DONE] is not sent: the request is cancelled or *)
(* the process dies, or the reply of the COMMIT is lost and an error event      *)
(* closes the stream.  (After a cached answer that error is swallowed, but the  *)
(* session, never rolled back, refuses the next statement of the pipeline.)     *)
CutOff(t) ==
  /\ stage[t] = "stored"
  /\ Ends(t, "cut")
  /\ hurt' = hurt \cup {t}
  /\ UNCHANGED <<rows, session, memory, alone, pending, shown, before>>

-----------------------------------------------------------------------------
Init ==
  /\ made = {} /\ alive = {} /\ stored = {} /\ cache = Earlier /\ hurt = {}
  /\ count = [s \in Session |-> 0]
  /\ title = [s \in Session |-> "default"]
  /\ stage = [t \in Turn |-> "idle"]
  /\ session = [t \in Turn |-> NoSession]
  /\ memory = [t \in Turn |-> 0]
  /\ alone = [t \in Turn |-> FALSE]
  /\ pending = [t \in Turn |-> {}]
  /\ shown = [t \in Turn |-> {}]
  /\ finish = [t \in Turn |-> "none"]
  /\ before = [t \in Turn |-> {}]

Answer(t) ==
  \/ ReadHistory(t) \/ Miss(t) \/ Hit(t)
  \/ StoreCached(t) \/ StoreCachedRaises(t)
  \/ Release(t) \/ ReleaseFails(t)
  \/ Generate(t, "generated") \/ Generate(t, "failed")
  \/ Store(t) \/ StoreRaises(t)
  \/ Done(t)

Next ==
  \/ \E s \in Session : Rename(s) \/ Delete(s)
  \/ \E s \in Given : Create(s, "default") \/ Create(s, "custom")
  \/ \E e \in Turn \cup Earlier : Expire(e)
  \/ \E t \in Turn :
       \/ \E s \in Session : Start(t, s)
       \/ Answer(t)
       \/ Abort(t, "error") \/ Abort(t, "left") \/ CutOff(t)

Spec == Init /\ [][Next]_vars

(* The event loop runs a generator that is ready, a call of a model returns or  *)
(* raises, and so does a statement of the database: what it waits for is a row  *)
(* lock, and every transaction that holds one ends.                             *)
FairSpec == Spec /\ \A t \in Turn : WF_vars(Answer(t))

-----------------------------------------------------------------------------
Pairs(s) == {p \in stored : p.session = s}

TypeOK ==
  /\ made \subseteq Session /\ alive \subseteq made
  /\ count \in [Session -> Nat]
  /\ title \in [Session -> {"default", "custom", "auto"}]
  /\ stored \subseteq [session : alive, turn : Turn, answer : {"cached", "generated", "failed"}]
  /\ cache \subseteq Turn \cup Earlier
  /\ stage \in [Turn -> {"idle", "resolved", "lookup", "replayed", "retrieve",
                         "streaming", "answered", "stored", "ended"}]
  /\ session \in [Turn -> Session \cup {NoSession}]
  /\ memory \in [Turn -> Nat]
  /\ alone \in [Turn -> BOOLEAN]
  /\ pending \in [Turn -> SUBSET [session : Session, turn : Turn, answer : {"cached"}]]
  /\ shown \in [Turn -> SUBSET {"cached", "generated", "failed"}]
  /\ finish \in [Turn -> {"none", "DONE", "error", "left", "cut"}]
  /\ before \in [Turn -> SUBSET Turn] /\ hurt \subseteq Turn

\* The last commit of a turn is made, whether or not its client has been told.
Booked(t) == stage[t] = "stored" \/ finish[t] \in {"DONE", "cut"}

(* The [DONE] that closes the stream is the client's receipt: its turn is       *)
(* stored, until somebody deletes the session.  So is a turn that was cut off    *)
(* after its last commit.  Any other left no message behind, except a cached     *)
(* answer that could not be booked and was flushed with the commit that releases *)
(* the connection; and what is stored was streamed before                        *)
(* (chat_service.py:97-112, 163, 206-244; chat/router.py:55-62).                 *)
TurnIsAtomic ==
  \A t \in Turn :
    /\ (Booked(t) /\ session[t] \in alive) => \E p \in stored : p.turn = t
    /\ \A p \in stored :
         p.turn = t => /\ p.answer \in shown[t]
                       /\ Booked(t) \/ (p.answer = "cached" /\ Dirty(t))

(* A turn is stored once, also when it answered twice: first from the cache and  *)
(* then, because booking that failed, from the pipeline (chat_service.py:99-112, *)
(* 206).                                                                         *)
StoredOnce ==
  \A t \in Turn : Cardinality({p \in stored : p.turn = t}) <= 1

(* message_count never exceeds the messages, and falls behind them only by turns *)
(* that overlapped: each wrote the count it had read plus two                     *)
(* (chat_service.py:308).                                                        *)
CountLagsOnlyByOverlap ==
  \A s \in alive :
    /\ count[s] <= 2 * Cardinality(Pairs(s))
    /\ \/ count[s] = 2 * Cardinality(Pairs(s))
       \/ \E p, q \in Pairs(s) : /\ p.turn # q.turn
                                 /\ p.turn \notin before[q.turn]
                                 /\ q.turn \notin before[p.turn]

(* Only first-hand answers are cached: a text the model completed for a question *)
(* without history, in a turn whose last commit was made, never one that came    *)
(* out of the cache itself (chat_service.py:231, semantic_cache.py:86-98).       *)
CacheIsFirstHand ==
  \A e \in cache \ Earlier :
    /\ alone[e] /\ shown[e] = {"generated"}
    /\ Booked(e)

(* Every turn comes to an end, whatever the cache, the model and the other       *)
(* requests on its session do (chat/router.py:55-74).                            *)
TurnsEnd == \A t \in Turn : stage[t] = "resolved" ~> stage[t] = "ended"

(* docs/DOCUMENT_CHAT_MODULES.md:174 "Persists conversation history, token       *)
(* counters, and accumulated USD costs.": a turn that nobody interrupted and      *)
(* nothing from outside disturbed is stored.                                     *)
AnsweredIsStored ==
  \A t \in Turn :
    (stage[t] = "ended" /\ t \notin hurt /\ session[t] \in alive)
    => \E p \in stored : p.turn = t
=============================================================================
