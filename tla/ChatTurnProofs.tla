--------------------------- MODULE ChatTurnProofs ---------------------------
(***************************************************************************)
(* The turns of a conversation for any number of turns, sessions and cache   *)
(* entries: types, what a turn stores, the message count and the cache.      *)
(***************************************************************************)
EXTENDS ChatTurn, FiniteSetTheorems, TLAPS

Early == {"idle", "resolved", "lookup", "replayed", "retrieve"}
Over == {"stored", "ended"}

(* Before its answer is generated a turn has made no session of its own; from  *)
(* then on, and if it loaded one, its session was made.                        *)
SessionMade(t) ==
  /\ stage[t] # "idle" => session[t] \in Session
  /\ stage[t] \in Early => t \notin made
  /\ stage[t] # "idle" /\ ~Fresh(t) => session[t] \in made
  /\ stage[t] \in {"streaming", "answered"} \/ Booked(t) => session[t] \in made

(* What a turn has streamed at each stage: one that answered twice loaded its  *)
(* session.                                                                    *)
AnswerShown(t) ==
  /\ stage[t] \in {"idle", "resolved", "lookup"} => shown[t] = {}
  /\ stage[t] = "replayed" => "cached" \in shown[t]
  /\ Fresh(t) /\ stage[t] \in {"retrieve", "streaming"} => shown[t] = {}
  /\ Fresh(t) /\ stage[t] = "answered" => shown[t] \in {{"generated"}, {"failed"}}
  /\ stage[t] # "ended" => finish[t] = "none"

(* A turn that loaded its session and could not book the cached answer keeps   *)
(* the pair unflushed, until the commit before the answer.                     *)
PendingFormed(t) ==
  stage[t] # "ended" =>
    pending[t] = IF stage[t] = "retrieve" /\ Dirty(t) THEN {Pair(t, "cached")} ELSE {}

TurnFormed(t) == SessionMade(t) /\ AnswerShown(t) /\ PendingFormed(t)

(* A stored pair is of a turn that has reached its commit, and the turn has      *)
(* streamed it; before the last commit of the turn it is a cached answer.        *)
PairFormed(p) ==
  /\ p.session = session[p.turn] /\ p.answer \in shown[p.turn]
  /\ stage[p.turn] \in {"streaming", "answered"} \cup Over
  /\ ~Booked(p.turn) => p.answer = "cached" /\ Dirty(p.turn)

PairsFormed ==
  /\ IsFiniteSet(stored)
  /\ \A p \in stored : PairFormed(p)
  /\ \A p, q \in stored : p.turn = q.turn => p = q

BookedIsStored ==
  \A t \in Turn : Booked(t) /\ session[t] \in alive => \E p \in stored : p.turn = t

PastEnded == \A t, u \in Turn : u \in before[t] => stage[u] \in Over

(* Two turns of the session that overlapped.                                    *)
Overlap(s) ==
  \E p, q \in Pairs(s) : /\ p.turn # q.turn
                         /\ p.turn \notin before[q.turn]
                         /\ q.turn \notin before[p.turn]

(* A turn that may yet write the count it loaded, and what it has added to it   *)
(* so far.                                                                      *)
MayCount(t) ==
  \/ stage[t] \in {"resolved", "lookup", "replayed"}
  \/ stage[t] = "retrieve" /\ (Fresh(t) \/ Dirty(t))
  \/ stage[t] \in {"streaming", "answered"} /\ Fresh(t)
Raised(t) == IF stage[t] = "retrieve" /\ Dirty(t) THEN 2 ELSE 0

(* A count n of the messages of s that turn t has is up to date, or somebody     *)
(* stored messages since t began, or turns had overlapped before.                *)
Lags(n, t, s) ==
  /\ n <= 2 * Cardinality(Pairs(s))
  /\ \/ n = 2 * Cardinality(Pairs(s))
     \/ \E p \in Pairs(s) : p.turn \notin before[t]
     \/ Overlap(s)

CopyLags(t) ==
  /\ Fresh(t) /\ stage[t] \notin {"idle"} \cup Over => memory[t] = 0
  /\ MayCount(t) /\ session[t] \in alive =>
       \E n \in Nat : memory[t] = n + Raised(t) /\ Lags(n, t, session[t])

CountsLag ==
  /\ \A s \in Session \ made : count[s] = 0
  /\ \A s \in alive :
       /\ count[s] <= 2 * Cardinality(Pairs(s))
       /\ count[s] = 2 * Cardinality(Pairs(s)) \/ Overlap(s)

Turns == TypeOK /\ \A t \in Turn : TurnFormed(t)
Messages == PairsFormed /\ BookedIsStored /\ CacheIsFirstHand
Counts == PastEnded /\ (\A t \in Turn : CopyLags(t)) /\ CountsLag
IInv == Turns /\ Messages /\ Counts

-----------------------------------------------------------------------------
AnswerKind == {"cached", "generated", "failed"}
StageName == {"idle", "resolved", "lookup", "replayed", "retrieve", "streaming", "answered",
              "stored", "ended"}
PendingPair == [session : Session, turn : Turn, answer : {"cached"}]

LEMMA TypeParts ==
  TypeOK <=> /\ made \subseteq Session /\ alive \subseteq made
             /\ count \in [Session -> Nat]
             /\ title \in [Session -> {"default", "custom", "auto"}]
             /\ stored \subseteq [session : alive, turn : Turn, answer : AnswerKind]
             /\ cache \subseteq Turn \cup Earlier
             /\ stage \in [Turn -> StageName]
             /\ session \in [Turn -> Session \cup {NoSession}]
             /\ memory \in [Turn -> Nat]
             /\ alone \in [Turn -> BOOLEAN]
             /\ pending \in [Turn -> SUBSET PendingPair]
             /\ shown \in [Turn -> SUBSET AnswerKind]
             /\ finish \in [Turn -> {"none", "DONE", "error", "left", "cut"}]
             /\ before \in [Turn -> SUBSET Turn] /\ hurt \subseteq Turn
BY DEF TypeOK, AnswerKind, StageName, PendingPair

LEMMA PairFacts ==
  ASSUME TypeOK, NEW p \in stored
  PROVE  p.session \in alive /\ p.turn \in Turn /\ p.answer \in AnswerKind
BY TypeParts

(* The number of messages of a session. *)
LEMMA PairsFacts ==
  ASSUME PairsFormed
  PROVE  \A s : /\ Pairs(s) \subseteq stored /\ IsFiniteSet(Pairs(s))
                /\ Cardinality(Pairs(s)) \in Nat
<1> SUFFICES ASSUME NEW s
             PROVE  /\ Pairs(s) \subseteq stored /\ IsFiniteSet(Pairs(s))
                    /\ Cardinality(Pairs(s)) \in Nat
  OBVIOUS
<1>1. Pairs(s) \subseteq stored
  BY DEF Pairs
<1> QED
  BY <1>1, FS_Subset, FS_CardinalityType DEF PairsFormed

(* A session that is not there has no messages. *)
LEMMA NoPairs ==
  ASSUME TypeOK, NEW s, s \notin alive
  PROVE  Pairs(s) = {} /\ Cardinality(Pairs(s)) = 0
<1>1. Pairs(s) = {}
  BY PairFacts DEF Pairs
<1> QED
  BY <1>1, FS_EmptySet

-----------------------------------------------------------------------------
(* Steps of a turn that write no row. *)

TurnSame(u) ==
  /\ stage'[u] = stage[u] /\ session'[u] = session[u] /\ memory'[u] = memory[u]
  /\ alone'[u] = alone[u] /\ pending'[u] = pending[u] /\ shown'[u] = shown[u]
  /\ finish'[u] = finish[u] /\ before'[u] = before[u]

LEMMA LocalStep ==
  ASSUME IInv, TypeOK', NEW t \in Turn, UNCHANGED rows,
         \A u \in Turn \ {t} : TurnSame(u),
         Booked(t)' <=> Booked(t), stage[t] \in Over => stage'[t] \in Over,
         Booked(t) => UNCHANGED <<session[t], alone[t], shown[t]>>,
         TurnFormed(t)', CopyLags(t)',
         \A p \in stored : p.turn = t => PairFormed(p)',
         \A u \in before'[t] : stage[u] \in Over,
         before'[t] = before[t] \/ stage[t] = "idle"
  PROVE  IInv'
<1>1. UNCHANGED <<made, alive, count, title, stored, cache>>
  BY DEF rows
<1>2. \A s : Pairs(s)' = Pairs(s)
  BY <1>1 DEF Pairs
<1>3. \A u \in Turn : Booked(u)' <=> Booked(u)
  BY DEF TurnSame, Booked
<1>4. Turns'
  <2>1. ASSUME NEW u \in Turn \ {t} PROVE TurnFormed(u)'
    <3>1. TurnFormed(u) /\ TurnSame(u)
      BY DEF IInv, Turns
    <3>2. /\ (Fresh(u)' <=> Fresh(u)) /\ (Dirty(u)' <=> Dirty(u))
          /\ Pair(u, "cached")' = Pair(u, "cached")
      BY <3>1 DEF TurnSame, Fresh, Dirty, Pair
    <3>3. SessionMade(u)'
      BY <1>1, <1>3, <3>1, <3>2 DEF TurnFormed, SessionMade, TurnSame, Session
    <3>4. AnswerShown(u)'
      BY <3>1, <3>2 DEF TurnFormed, AnswerShown, TurnSame
    <3>5. PendingFormed(u)'
      BY <3>1, <3>2 DEF TurnFormed, PendingFormed, TurnSame
    <3> QED
      BY <3>3, <3>4, <3>5 DEF TurnFormed
  <2> QED
    BY <2>1 DEF Turns
<1>5. PairsFormed'
  <2>1. ASSUME NEW p \in stored, p.turn # t PROVE PairFormed(p)'
    <3>1. p.turn \in Turn \ {t}
      BY <2>1, PairFacts DEF IInv, Turns
    <3> QED
      BY <1>3, <3>1 DEF IInv, Messages, PairsFormed, PairFormed, TurnSame, Dirty, Fresh
  <2> QED
    BY <1>1, <2>1 DEF IInv, Messages, PairsFormed
<1>6. BookedIsStored'
  BY <1>1, <1>3 DEF IInv, Messages, BookedIsStored, TurnSame
<1>7. CacheIsFirstHand'
  <2> SUFFICES ASSUME NEW e \in cache \ Earlier
               PROVE  alone'[e] /\ shown'[e] = {"generated"} /\ Booked(e)'
    BY <1>1 DEF CacheIsFirstHand
  <2>1. Booked(e) /\ e \in Turn /\ alone[e] /\ shown[e] = {"generated"}
    BY TypeParts DEF IInv, Turns, Messages, CacheIsFirstHand
  <2>2. alone'[e] = alone[e] /\ shown'[e] = shown[e]
    BY <2>1 DEF TurnSame
  <2> QED
    BY <1>3, <2>1, <2>2
<1>8. PastEnded'
  <2> SUFFICES ASSUME NEW v \in Turn, NEW u \in Turn, u \in before'[v]
               PROVE  stage'[u] \in Over
    BY DEF PastEnded
  <2>1. stage[u] \in Over
    BY DEF IInv, Counts, PastEnded, TurnSame
  <2> QED
    BY <2>1 DEF TurnSame
<1>9. \A s : Overlap(s) => Overlap(s)'
  <2> SUFFICES ASSUME NEW s, NEW p \in Pairs(s), NEW q \in Pairs(s), p.turn # q.turn,
                      p.turn \notin before[q.turn], q.turn \notin before[p.turn]
               PROVE  p.turn \notin before'[q.turn] /\ q.turn \notin before'[p.turn]
    BY <1>2 DEF Overlap
  <2>1. p \in stored /\ q \in stored
    BY DEF Pairs
  <2>2. p.turn \in Turn /\ q.turn \in Turn
    BY <2>1, PairFacts DEF IInv, Turns
  <2>3. ASSUME NEW u \in {p.turn, q.turn} PROVE before'[u] = before[u]
    <3>1. CASE u # t
      BY <2>2, <3>1 DEF TurnSame
    <3>2. CASE u = t
      BY <2>1, <3>2 DEF IInv, Messages, PairsFormed, PairFormed, Over
    <3> QED
      BY <3>1, <3>2
  <2> QED
    BY <2>3
<1>10. ASSUME NEW u \in Turn \ {t} PROVE CopyLags(u)'
  <2>1. TurnSame(u) /\ CopyLags(u)
    BY DEF IInv, Counts
  <2>2. /\ session'[u] = session[u] /\ (MayCount(u)' <=> MayCount(u))
        /\ (Fresh(u)' <=> Fresh(u)) /\ Raised(u)' = Raised(u)
    BY <2>1 DEF TurnSame, MayCount, Fresh, Dirty, Raised
  <2>3. ASSUME NEW n \in Nat, Lags(n, u, session[u]) PROVE Lags(n, u, session[u])'
    BY <1>2, <1>9, <2>1, <2>3 DEF Lags, TurnSame
  <2> QED
    BY <1>1, <2>1, <2>2, <2>3 DEF CopyLags, TurnSame
<1>11. CountsLag'
  BY <1>1, <1>2, <1>9 DEF IInv, Counts, CountsLag
<1> QED
  BY <1>4, <1>5, <1>6, <1>7, <1>8, <1>10, <1>11 DEF IInv, Messages, Counts

(* A turn that only goes on: its session, and what it knows of it, stay.        *)
LEMMA GoesOn ==
  ASSUME IInv, TypeOK', NEW t \in Turn, UNCHANGED <<rows, session, before>>,
         \A u \in Turn \ {t} : TurnSame(u),
         stage[t] \notin {"idle"} \cup Over, stage'[t] \notin {"idle", "stored"},
         finish'[t] \notin {"DONE", "cut"},
         stage'[t] \in Early => stage[t] \in Early,
         stage'[t] \in {"streaming", "answered"} => stage[t] \in {"streaming", "answered"},
         AnswerShown(t)', PendingFormed(t)',
         MayCount(t)' => MayCount(t),
         stage'[t] # "ended" => \A n \in Nat : memory[t] = n + Raised(t)
                                               => memory'[t] = n + Raised(t)',
         Fresh(t) /\ stage'[t] # "ended" => memory'[t] = memory[t],
         stage[t] \in {"streaming", "answered"} =>
           stage'[t] \in {"answered", "ended"} /\ shown[t] \subseteq shown'[t]
  PROVE  IInv'
<1>1. UNCHANGED <<made, alive, count, title, stored, cache>>
  BY DEF rows
<1>0. ~Booked(t) /\ ~Booked(t)'
  BY DEF IInv, Turns, TurnFormed, AnswerShown, Booked, Over
<1>2. (Fresh(t)' <=> Fresh(t)) /\ (Dirty(t) /\ shown[t] \subseteq shown'[t] => Dirty(t)')
  BY DEF Fresh, Dirty
<1>3. TurnFormed(t)'
  <2>1. SessionMade(t)'
    BY <1>0, <1>1, <1>2 DEF IInv, Turns, TurnFormed, SessionMade, Session
  <2> QED
    BY <2>1 DEF TurnFormed
<1>4. \A n, s : Lags(n, t, s)' <=> Lags(n, t, s)
  BY <1>1 DEF Lags, Overlap, Pairs
<1>5. CopyLags(t)'
  <2>1. CopyLags(t)
    BY DEF IInv, Counts
  <2>2. Fresh(t)' /\ stage'[t] \notin {"idle"} \cup Over => memory'[t] = 0
    BY <1>2, <2>1 DEF CopyLags, Over
  <2>3. ASSUME MayCount(t)', session[t] \in alive
        PROVE  \E n \in Nat : memory'[t] = n + Raised(t)' /\ Lags(n, t, session[t])'
    <3>1. PICK n \in Nat : memory[t] = n + Raised(t) /\ Lags(n, t, session[t])
      BY <2>1, <2>3 DEF CopyLags
    <3>2. stage'[t] # "ended"
      BY <2>3 DEF MayCount
    <3> QED
      BY <1>4, <3>1, <3>2
  <2> QED
    BY <1>1, <2>2, <2>3 DEF CopyLags
<1>6. ASSUME NEW p \in stored, p.turn = t PROVE PairFormed(p)'
  <2>1. PairFormed(p)
    BY DEF IInv, Messages, PairsFormed
  <2> QED
    BY <1>0, <1>2, <1>6, <2>1 DEF PairFormed, Over
<1>7. \A u \in before'[t] : stage[u] \in Over
  <2>1. before \in [Turn -> SUBSET Turn]
    BY TypeParts DEF IInv, Turns
  <2> QED
    BY <2>1 DEF IInv, Counts, PastEnded
<1> QED
  BY <1>0, <1>3, <1>5, <1>6, <1>7, LocalStep

LEMMA LocalActions ==
  ASSUME IInv, NEW t \in Turn,
         \/ ReadHistory(t) \/ Miss(t) \/ Hit(t) \/ StoreCachedRaises(t) \/ ReleaseFails(t)
         \/ Generate(t, "generated") \/ Generate(t, "failed") \/ StoreRaises(t)
         \/ Abort(t, "error") \/ Abort(t, "left")
  PROVE  IInv'
<1>1. /\ TypeOK /\ SessionMade(t) /\ AnswerShown(t) /\ PendingFormed(t)
  BY DEF IInv, Turns, TurnFormed
<1>2. /\ stored \subseteq [session : alive, turn : Turn, answer : AnswerKind]
      /\ stage \in [Turn -> StageName] /\ session \in [Turn -> Session \cup {NoSession}]
      /\ memory \in [Turn -> Nat] /\ alone \in [Turn -> BOOLEAN]
      /\ pending \in [Turn -> SUBSET PendingPair]
      /\ shown \in [Turn -> SUBSET AnswerKind]
      /\ finish \in [Turn -> {"none", "DONE", "error", "left", "cut"}]
      /\ before \in [Turn -> SUBSET Turn] /\ hurt \subseteq Turn
  BY <1>1, TypeParts
<1>3. UNCHANGED <<made, alive, count, title, stored, cache, session, before>>
  BY DEF ReadHistory, Miss, Hit, StoreCachedRaises, ReleaseFails, Generate, StoreRaises, Abort,
         rows
<1>4. ASSUME stage' \in [Turn -> StageName], memory' \in [Turn -> Nat],
             alone' \in [Turn -> BOOLEAN], pending' \in [Turn -> SUBSET PendingPair],
             shown' \in [Turn -> SUBSET AnswerKind],
             finish' \in [Turn -> {"none", "DONE", "error", "left", "cut"}], hurt' \subseteq Turn
      PROVE  TypeOK'
  BY <1>1, <1>3, <1>4, TypeParts DEF TypeOK, AnswerKind, StageName, PendingPair, Session
<1>5. CASE ReadHistory(t)
  <2>1. /\ stage[t] = "resolved" /\ UNCHANGED <<memory, pending, shown, finish, hurt>>
        /\ alone' \in [Turn -> BOOLEAN] /\ \A u \in Turn \ {t} : alone'[u] = alone[u]
        /\ stage' \in [Turn -> StageName] /\ \A u \in Turn \ {t} : stage'[u] = stage[u]
        /\ stage'[t] \in {"lookup", "retrieve"}
    BY <1>2, <1>5 DEF ReadHistory, Goes, StageName
  <2>2. TypeOK' /\ \A u \in Turn \ {t} : TurnSame(u)
    BY <1>2, <1>3, <1>4, <2>1 DEF TurnSame
  <2>3. AnswerShown(t)' /\ PendingFormed(t)'
    BY <1>1, <2>1 DEF AnswerShown, PendingFormed, Fresh, Dirty
  <2>4. MayCount(t) /\ Raised(t) = 0 /\ Raised(t)' = 0
    BY <1>1, <2>1 DEF MayCount, Raised, AnswerShown, Dirty
  <2> QED
    BY <1>1, <1>3, <2>1, <2>2, <2>3, <2>4, GoesOn DEF Early, Over, AnswerShown, rows
<1>6. CASE Miss(t)
  <2>1. /\ stage[t] = "lookup" /\ UNCHANGED <<memory, alone, pending, shown, finish, hurt>>
        /\ stage' \in [Turn -> StageName] /\ \A u \in Turn \ {t} : stage'[u] = stage[u]
        /\ stage'[t] = "retrieve"
    BY <1>2, <1>6 DEF Miss, Goes, StageName
  <2>2. TypeOK' /\ \A u \in Turn \ {t} : TurnSame(u)
    BY <1>2, <1>3, <1>4, <2>1 DEF TurnSame
  <2>3. AnswerShown(t)' /\ PendingFormed(t)'
    BY <1>1, <2>1 DEF AnswerShown, PendingFormed, Fresh, Dirty
  <2>4. MayCount(t) /\ Raised(t) = 0 /\ Raised(t)' = 0
    BY <1>1, <2>1 DEF MayCount, Raised, AnswerShown, Dirty
  <2> QED
    BY <1>1, <1>3, <2>1, <2>2, <2>3, <2>4, GoesOn DEF Early, Over, AnswerShown, rows
<1>7. CASE Hit(t)
  <2>1. /\ stage[t] = "lookup" /\ UNCHANGED <<memory, alone, pending, finish, hurt>>
        /\ stage' \in [Turn -> StageName] /\ \A u \in Turn \ {t} : stage'[u] = stage[u]
        /\ shown' \in [Turn -> SUBSET AnswerKind] /\ \A u \in Turn \ {t} : shown'[u] = shown[u]
        /\ stage'[t] = "replayed" /\ shown'[t] = shown[t] \cup {"cached"}
    BY <1>2, <1>7 DEF Hit, Goes, StageName, AnswerKind
  <2>2. TypeOK' /\ \A u \in Turn \ {t} : TurnSame(u)
    BY <1>2, <1>3, <1>4, <2>1 DEF TurnSame
  <2>3. AnswerShown(t)' /\ PendingFormed(t)'
    BY <1>1, <2>1 DEF AnswerShown, PendingFormed, Fresh, Dirty
  <2>4. MayCount(t) /\ Raised(t) = 0 /\ Raised(t)' = 0
    BY <1>1, <2>1 DEF MayCount, Raised
  <2> QED
    BY <1>1, <1>3, <2>1, <2>2, <2>3, <2>4, GoesOn DEF Early, Over, AnswerShown, rows
<1>8. CASE StoreCachedRaises(t)
  <2>1. /\ stage[t] = "replayed" /\ ~Fresh(t) /\ UNCHANGED <<alone, shown, finish, hurt>>
        /\ stage' \in [Turn -> StageName] /\ \A u \in Turn \ {t} : stage'[u] = stage[u]
        /\ stage'[t] = "retrieve"
        /\ memory' = [memory EXCEPT ![t] = memory[t] + 2]
        /\ pending' = [pending EXCEPT ![t] = {Pair(t, "cached")}]
    BY <1>2, <1>8 DEF StoreCachedRaises, Goes, StageName, CostAdds, CountAfter, Added,
                      AfterCachedError
  <2>2. Pair(t, "cached") \in PendingPair /\ memory[t] \in Nat
    BY <1>1, <1>2, <2>1 DEF SessionMade, Pair, PendingPair
  <2>3. /\ memory' \in [Turn -> Nat] /\ \A u \in Turn \ {t} : memory'[u] = memory[u]
        /\ memory'[t] = memory[t] + 2
        /\ pending' \in [Turn -> SUBSET PendingPair] /\ \A u \in Turn \ {t} : pending'[u] = pending[u]
        /\ pending'[t] = {Pair(t, "cached")}
    BY <1>2, <2>1, <2>2
  <2>4. TypeOK' /\ \A u \in Turn \ {t} : TurnSame(u)
    BY <1>2, <1>3, <1>4, <2>1, <2>3 DEF TurnSame
  <2>5. "cached" \in shown'[t] /\ Dirty(t)' /\ ~Fresh(t)' /\ Pair(t, "cached")' = Pair(t, "cached")
    BY <1>1, <1>3, <2>1 DEF AnswerShown, Dirty, Fresh, Pair
  <2>6. AnswerShown(t)' /\ PendingFormed(t)'
    BY <1>1, <2>1, <2>3, <2>5 DEF AnswerShown, PendingFormed
  <2>7. MayCount(t) /\ Raised(t) = 0 /\ Raised(t)' = 2
    BY <1>1, <2>1, <2>5 DEF MayCount, Raised
  <2>8. \A n \in Nat : memory[t] = n + Raised(t) => memory'[t] = n + Raised(t)'
    BY <2>3, <2>7
  <2> QED
    BY <1>1, <1>3, <2>1, <2>4, <2>6, <2>7, <2>8, GoesOn DEF Early, Over, AnswerShown, rows
<1>9. CASE Generate(t, "generated") \/ Generate(t, "failed")
  <2>1. PICK a \in {"generated", "failed"} : Generate(t, a)
    BY <1>9
  <2>2. /\ stage[t] = "streaming" /\ UNCHANGED <<memory, alone, pending, finish, hurt>>
        /\ stage' \in [Turn -> StageName] /\ \A u \in Turn \ {t} : stage'[u] = stage[u]
        /\ shown' \in [Turn -> SUBSET AnswerKind] /\ \A u \in Turn \ {t} : shown'[u] = shown[u]
        /\ stage'[t] = "answered" /\ shown'[t] = shown[t] \cup {a}
    BY <1>2, <2>1 DEF Generate, Goes, StageName, AnswerKind
  <2>3. TypeOK' /\ \A u \in Turn \ {t} : TurnSame(u)
    BY <1>2, <1>3, <1>4, <2>2 DEF TurnSame
  <2>4. AnswerShown(t)'
    BY <1>1, <1>3, <2>2 DEF AnswerShown, Fresh
  <2>5. PendingFormed(t)'
    BY <1>1, <2>2 DEF PendingFormed
  <2>6. (MayCount(t)' => MayCount(t)) /\ Raised(t) = 0 /\ Raised(t)' = 0
    BY <1>1, <1>3, <2>2 DEF MayCount, Raised, Fresh
  <2> QED
    BY <1>1, <1>3, <2>2, <2>3, <2>4, <2>5, <2>6, GoesOn DEF Early, Over, AnswerShown, rows
<1>10. CASE ReleaseFails(t) \/ StoreRaises(t) \/ Abort(t, "error") \/ Abort(t, "left")
  <2>1. PICK f \in {"error", "left"} : Ends(t, f)
    BY <1>10 DEF ReleaseFails, StoreRaises, Abort
  <2>2. /\ stage[t] \notin {"idle"} \cup Over /\ UNCHANGED <<memory, alone, pending, shown>>
        /\ hurt' \subseteq Turn
    BY <1>2, <1>10 DEF ReleaseFails, StoreRaises, Abort, Over
  <2>3. /\ stage' \in [Turn -> StageName] /\ \A u \in Turn \ {t} : stage'[u] = stage[u]
        /\ finish' \in [Turn -> {"none", "DONE", "error", "left", "cut"}]
        /\ \A u \in Turn \ {t} : finish'[u] = finish[u]
        /\ stage'[t] = "ended" /\ finish'[t] = f
    BY <1>2, <2>1 DEF Ends, Goes, StageName
  <2>4. TypeOK' /\ \A u \in Turn \ {t} : TurnSame(u)
    BY <1>2, <1>3, <1>4, <2>2, <2>3 DEF TurnSame
  <2>5. AnswerShown(t)' /\ PendingFormed(t)' /\ ~MayCount(t)'
    BY <2>3 DEF AnswerShown, PendingFormed, MayCount
  <2> QED
    BY <1>1, <1>3, <2>2, <2>3, <2>4, <2>5, GoesOn DEF Early, Over, rows
<1> QED
  BY <1>5, <1>6, <1>7, <1>8, <1>9, <1>10

(* The stream of a booked turn is closed, with [DONE] or without. *)
LEMMA CloseKeeps ==
  ASSUME IInv, NEW t \in Turn, Done(t) \/ CutOff(t)
  PROVE  IInv'
<1>1. /\ TypeOK /\ TurnFormed(t) /\ stage[t] = "stored" /\ Booked(t)
      /\ UNCHANGED <<rows, session, memory, alone, pending, shown, before>> /\ hurt' \subseteq Turn
  BY TypeParts DEF IInv, Turns, Done, CutOff, Booked
<1>2. UNCHANGED <<made, alive, count, title, stored, cache>>
  BY <1>1 DEF rows
<1>3. PICK f \in {"DONE", "cut"} : Ends(t, f)
  BY DEF Done, CutOff
<1>4. /\ stage \in [Turn -> StageName] /\ before \in [Turn -> SUBSET Turn]
      /\ finish \in [Turn -> {"none", "DONE", "error", "left", "cut"}]
  BY <1>1, TypeParts
<1>5. /\ stage' \in [Turn -> StageName] /\ \A u \in Turn \ {t} : stage'[u] = stage[u]
      /\ finish' \in [Turn -> {"none", "DONE", "error", "left", "cut"}]
      /\ \A u \in Turn \ {t} : finish'[u] = finish[u]
      /\ stage'[t] = "ended" /\ finish'[t] = f
  BY <1>3, <1>4 DEF Ends, Goes, StageName
<1>6. TypeOK'
  BY <1>1, <1>2, <1>5, TypeParts DEF TypeOK, AnswerKind, StageName, PendingPair, Session
<1>7. \A u \in Turn \ {t} : TurnSame(u)
  BY <1>1, <1>5 DEF TurnSame
<1>8. Booked(t)' /\ (Fresh(t)' <=> Fresh(t)) /\ (Dirty(t)' <=> Dirty(t))
  BY <1>1, <1>3, <1>5 DEF Booked, Fresh, Dirty
<1>9. TurnFormed(t)'
  <2>1. SessionMade(t)'
    BY <1>1, <1>2, <1>5, <1>8 DEF TurnFormed, SessionMade, Early, Session
  <2>2. AnswerShown(t)' /\ PendingFormed(t)'
    BY <1>5 DEF AnswerShown, PendingFormed
  <2> QED
    BY <2>1, <2>2 DEF TurnFormed
<1>10. CopyLags(t)'
  BY <1>5 DEF CopyLags, MayCount, Over
<1>11. ASSUME NEW p \in stored, p.turn = t PROVE PairFormed(p)'
  BY <1>1, <1>5, <1>8, <1>11 DEF IInv, Messages, PairsFormed, PairFormed, Over
<1>12. \A u \in before'[t] : stage[u] \in Over
  BY <1>1, <1>4 DEF IInv, Counts, PastEnded
<1> QED
  BY <1>1, <1>5, <1>6, <1>7, <1>8, <1>9, <1>10, <1>11, <1>12, LocalStep DEF Over

(* A turn that begins has the count of now. *)
LEMMA StartKeeps ==
  ASSUME IInv, NEW t \in Turn, NEW s \in Session, Start(t, s)
  PROVE  IInv'
<1>1. /\ TypeOK /\ TurnFormed(t) /\ stage[t] = "idle"
  BY DEF IInv, Turns, Start
<1>2. /\ made \subseteq Session /\ alive \subseteq made /\ count \in [Session -> Nat]
      /\ stage \in [Turn -> StageName] /\ session \in [Turn -> Session \cup {NoSession}]
      /\ memory \in [Turn -> Nat] /\ before \in [Turn -> SUBSET Turn]
  BY <1>1, TypeParts
<1>3. UNCHANGED <<made, alive, count, title, stored, cache, alone, pending, shown, finish, hurt>>
  BY DEF Start, rows
<1>4. /\ session' \in [Turn -> Session \cup {NoSession}] /\ session'[t] = s
      /\ \A u \in Turn \ {t} : session'[u] = session[u]
  BY <1>2 DEF Start
<1>5. /\ stage' \in [Turn -> StageName] /\ stage'[t] = "resolved"
      /\ \A u \in Turn \ {t} : stage'[u] = stage[u]
  BY <1>2 DEF Start, Goes, StageName
<1>6. /\ before' \in [Turn -> SUBSET Turn] /\ before'[t] = {u \in Turn : stage[u] \in Over}
      /\ \A u \in Turn \ {t} : before'[u] = before[u]
  BY <1>2 DEF Start, Over
<1>7. /\ memory' \in [Turn -> Nat] /\ memory'[t] = (IF s = t THEN 0 ELSE count[s])
      /\ \A u \in Turn \ {t} : memory'[u] = memory[u]
  <2>1. (IF s = t THEN 0 ELSE count[s]) \in Nat
    BY <1>2
  <2> QED
    BY <1>2, <2>1 DEF Start
<1>8. TypeOK'
  BY <1>1, <1>3, <1>4, <1>5, <1>6, <1>7, TypeParts
     DEF TypeOK, AnswerKind, StageName, PendingPair, Session
<1>9. \A u \in Turn \ {t} : TurnSame(u)
  BY <1>3, <1>4, <1>5, <1>6, <1>7 DEF TurnSame
<1>10. t \notin made /\ (s # t => s \in alive)
  BY <1>1 DEF Start, TurnFormed, SessionMade, Early
<1>11. (Fresh(t)' <=> s = t) /\ ~Dirty(t)' /\ ~Dirty(t)
  BY <1>1, <1>3, <1>4 DEF Fresh, Dirty, TurnFormed, AnswerShown
<1>15. ~Booked(t) /\ ~Booked(t)'
  BY <1>1, <1>3, <1>5 DEF TurnFormed, AnswerShown, Booked
<1>12. TurnFormed(t)'
  <2>1. SessionMade(t)'
    BY <1>1, <1>2, <1>3, <1>4, <1>5, <1>10, <1>11, <1>15
       DEF TurnFormed, SessionMade, AnswerShown, Session
  <2>2. AnswerShown(t)' /\ PendingFormed(t)'
    BY <1>1, <1>3, <1>5 DEF TurnFormed, AnswerShown, PendingFormed
  <2> QED
    BY <2>1, <2>2 DEF TurnFormed
<1>13. \A p \in stored : p.turn # t
  BY <1>1 DEF IInv, Messages, PairsFormed, PairFormed, Over
<1>14. CopyLags(t)'
  <2>1. CASE s = t
    <3>1. session'[t] \notin alive' /\ memory'[t] = 0
      BY <1>2, <1>3, <1>4, <1>7, <1>10, <2>1
    <3> QED
      BY <3>1 DEF CopyLags
  <2>2. CASE s # t
    <3>1. s \in alive /\ memory'[t] = count[s] /\ count[s] \in Nat
      BY <1>2, <1>7, <1>10, <2>2
    <3>2. Pairs(s)' = Pairs(s)
      BY <1>3 DEF Pairs
    <3>3. Overlap(s) => Overlap(s)'
      <4> SUFFICES ASSUME NEW p \in Pairs(s), NEW q \in Pairs(s), p.turn # q.turn,
                          p.turn \notin before[q.turn], q.turn \notin before[p.turn]
                   PROVE  p.turn \notin before'[q.turn] /\ q.turn \notin before'[p.turn]
        BY <3>2 DEF Overlap
      <4>1. p \in stored /\ q \in stored
        BY DEF Pairs
      <4>2. p.turn \in Turn \ {t} /\ q.turn \in Turn \ {t}
        BY <1>1, <1>13, <4>1, PairFacts
      <4> QED
        BY <1>6, <4>2
    <3>4. PICK n \in Nat : n = count[s]
      BY <3>1
    <3>5. Lags(n, t, s)'
      BY <3>1, <3>2, <3>3, <3>4 DEF Lags, IInv, Counts, CountsLag
    <3>6. Raised(t)' = 0 /\ ~Fresh(t)'
      BY <1>11, <2>2 DEF Raised
    <3>7. memory'[t] = n + Raised(t)' /\ Lags(n, t, session[t])'
      BY <1>4, <3>1, <3>4, <3>5, <3>6 DEF Lags, Pairs, Overlap
    <3> QED
      BY <3>6, <3>7 DEF CopyLags
  <2> QED
    BY <2>1, <2>2
<1> QED
  BY <1>1, <1>3, <1>6, <1>8, <1>9, <1>12, <1>13, <1>14, <1>15, LocalStep DEF rows, Over

-----------------------------------------------------------------------------
(* The other requests on sessions, and the expiry of cache entries. *)

(* Turns do not notice a session that is made, renamed or deleted.              *)
LEMMA TurnsUndisturbed ==
  ASSUME IInv, UNCHANGED <<turn, before>>, made' \subseteq made \cup Given
  PROVE  /\ made \subseteq made' => \A t \in Turn : TurnFormed(t)'
         /\ PastEnded'
<1>1. UNCHANGED <<stage, session, memory, alone, pending, shown, finish>>
  BY DEF turn
<1>2. ASSUME made \subseteq made', NEW t \in Turn PROVE TurnFormed(t)'
  <2>1. TurnFormed(t) /\ (t \in made' => t \in made)
    BY NameAssumption DEF IInv, Turns
  <2>2. /\ (Fresh(t)' <=> Fresh(t)) /\ (Dirty(t)' <=> Dirty(t))
        /\ Pair(t, "cached")' = Pair(t, "cached")
    BY <1>1 DEF Fresh, Dirty, Pair
  <2>3. SessionMade(t)'
    BY <1>1, <1>2, <2>1, <2>2 DEF TurnFormed, SessionMade, Booked, Session
  <2>4. AnswerShown(t)' /\ PendingFormed(t)'
    BY <1>1, <2>1, <2>2 DEF TurnFormed, AnswerShown, PendingFormed
  <2> QED
    BY <2>3, <2>4 DEF TurnFormed
<1> QED
  BY <1>1, <1>2 DEF IInv, Counts, PastEnded

LEMMA CreateKeeps ==
  ASSUME IInv, NEW s \in Given, NEW name \in {"default", "custom"}, Create(s, name)
  PROVE  IInv'
<1>1. /\ s \notin made /\ made' = made \cup {s} /\ alive' = alive \cup {s}
      /\ title' = [title EXCEPT ![s] = name]
      /\ UNCHANGED <<count, stored, cache, turn, before, hurt>>
  BY DEF Create
<1>2. UNCHANGED <<stage, session, memory, alone, pending, shown, finish>>
  BY <1>1 DEF turn
<1>3. TypeOK /\ made \subseteq Session /\ alive \subseteq made /\ s \in Session /\ s \notin alive
  BY <1>1, TypeParts DEF IInv, Turns, Session
<1>4. TypeOK'
  <2>1. title' \in [Session -> {"default", "custom", "auto"}]
    BY <1>1, <1>3, TypeParts
  <2>2. stored' \subseteq [session : alive', turn : Turn, answer : AnswerKind]
    BY <1>1, <1>3, TypeParts
  <2> QED
    BY <1>1, <1>2, <1>3, <2>1, <2>2, TypeParts DEF TypeOK, AnswerKind, StageName, PendingPair,
       Session
<1>5. (\A t \in Turn : TurnFormed(t)') /\ PastEnded'
  BY <1>1, TurnsUndisturbed
<1>6. Messages'
  <2>1. BookedIsStored'
    <3> SUFFICES ASSUME NEW t \in Turn, Booked(t), session[t] \in alive \cup {s}
                 PROVE  \E p \in stored : p.turn = t
      BY <1>1, <1>2 DEF BookedIsStored, Booked
    <3>1. session[t] \in made
      BY DEF IInv, Turns, TurnFormed, SessionMade
    <3> QED
      BY <1>1, <3>1 DEF IInv, Messages, BookedIsStored
  <2>2. PairsFormed' /\ CacheIsFirstHand'
    BY <1>1, <1>2 DEF IInv, Messages, PairsFormed, PairFormed, Booked, Dirty, Fresh,
                      CacheIsFirstHand
  <2> QED
    BY <2>1, <2>2 DEF Messages
<1>7. \A x : Pairs(x)' = Pairs(x) /\ (Overlap(x)' <=> Overlap(x))
  BY <1>1 DEF Pairs, Overlap
<1>8. ASSUME NEW t \in Turn PROVE CopyLags(t)'
  <2>1. CopyLags(t) /\ TurnFormed(t)
    BY DEF IInv, Turns, Counts
  <2>2. /\ (MayCount(t)' <=> MayCount(t)) /\ Raised(t)' = Raised(t) /\ (Fresh(t)' <=> Fresh(t))
        /\ \A n : Lags(n, t, session[t])' <=> Lags(n, t, session[t])
    BY <1>1, <1>2, <1>7 DEF MayCount, Raised, Fresh, Dirty, Lags, Pairs, Overlap
  <2>3. MayCount(t) => session[t] # s
    <3>1. CASE Fresh(t)
      BY <3>1, NameAssumption DEF Fresh
    <3>2. CASE ~Fresh(t)
      BY <1>1, <2>1, <3>2 DEF TurnFormed, SessionMade, MayCount
    <3> QED
      BY <3>1, <3>2
  <2> QED
    BY <1>1, <1>2, <2>1, <2>2, <2>3 DEF CopyLags
<1>9. CountsLag'
  <2>1. count[s] = 0 /\ Cardinality(Pairs(s)) = 0
    BY <1>1, <1>3, NoPairs DEF IInv, Counts, CountsLag
  <2> QED
    BY <1>1, <1>7, <2>1 DEF IInv, Counts, CountsLag, Session
<1> QED
  BY <1>4, <1>5, <1>6, <1>8, <1>9 DEF IInv, Turns, Counts

LEMMA RenameOrExpireKeeps ==
  ASSUME IInv, UNCHANGED <<made, alive, count, stored, turn, before, hurt>>,
         title' \in [Session -> {"default", "custom", "auto"}], cache' \subseteq cache
  PROVE  IInv'
<1>1. UNCHANGED <<stage, session, memory, alone, pending, shown, finish>>
  BY DEF turn
<1>2. TypeOK'
  BY <1>1, TypeParts DEF IInv, Turns, TypeOK, AnswerKind, StageName, PendingPair, Session
<1>3. (\A t \in Turn : TurnFormed(t)') /\ PastEnded'
  BY TurnsUndisturbed
<1>4. Messages'
  BY <1>1 DEF IInv, Messages, PairsFormed, PairFormed, Booked, Dirty, Fresh, BookedIsStored,
              CacheIsFirstHand
<1>5. \A x : Pairs(x)' = Pairs(x) /\ (Overlap(x)' <=> Overlap(x))
  BY DEF Pairs, Overlap
<1>6. ASSUME NEW t \in Turn PROVE CopyLags(t)'
  <2>1. /\ (MayCount(t)' <=> MayCount(t)) /\ Raised(t)' = Raised(t) /\ (Fresh(t)' <=> Fresh(t))
        /\ \A n : Lags(n, t, session[t])' <=> Lags(n, t, session[t])
    BY <1>1, <1>5 DEF MayCount, Raised, Fresh, Dirty, Lags, Pairs, Overlap
  <2> QED
    BY <1>1, <2>1 DEF IInv, Counts, CopyLags
<1>7. CountsLag'
  BY <1>5 DEF IInv, Counts, CountsLag, Session
<1> QED
  BY <1>2, <1>3, <1>4, <1>6, <1>7 DEF IInv, Turns, Counts

LEMMA DeleteKeeps ==
  ASSUME IInv, NEW s \in Session, Delete(s)
  PROVE  IInv'
<1>1. /\ s \in alive /\ alive' = alive \ {s} /\ made' = made
      /\ stored' = {p \in stored : p.session # s}
      /\ count' = [count EXCEPT ![s] = 0] /\ title' = [title EXCEPT ![s] = "default"]
      /\ UNCHANGED <<cache, turn, before, hurt>>
  BY DEF Delete, MessagesLeft
<1>2. UNCHANGED <<stage, session, memory, alone, pending, shown, finish>>
  BY <1>1 DEF turn
<1>3. /\ TypeOK /\ made \subseteq Session /\ alive \subseteq made /\ count \in [Session -> Nat]
      /\ title \in [Session -> {"default", "custom", "auto"}]
      /\ stored \subseteq [session : alive, turn : Turn, answer : AnswerKind]
  BY TypeParts DEF IInv, Turns
<1>4. TypeOK'
  <2>1. /\ title' \in [Session -> {"default", "custom", "auto"}]
        /\ count' \in [Session -> Nat] /\ alive' \subseteq made'
    BY <1>1, <1>3
  <2>2. stored' \subseteq [session : alive', turn : Turn, answer : AnswerKind]
    BY <1>1, <1>3
  <2> QED
    BY <1>1, <1>2, <1>3, <2>1, <2>2, TypeParts DEF TypeOK, AnswerKind, StageName, PendingPair,
       Session
<1>5. (\A t \in Turn : TurnFormed(t)') /\ PastEnded'
  BY <1>1, TurnsUndisturbed
<1>6. Messages'
  <2>1. PairsFormed'
    <3>1. stored' \subseteq stored /\ IsFiniteSet(stored')
      BY <1>1, FS_Subset DEF IInv, Messages, PairsFormed
    <3> QED
      BY <1>2, <3>1 DEF IInv, Messages, PairsFormed, PairFormed, Booked, Dirty, Fresh
  <2>2. BookedIsStored'
    <3> SUFFICES ASSUME NEW t \in Turn, Booked(t), session[t] \in alive \ {s}
                 PROVE  \E p \in stored' : p.turn = t
      BY <1>1, <1>2 DEF BookedIsStored, Booked
    <3>1. PICK p \in stored : p.turn = t
      BY DEF IInv, Messages, BookedIsStored
    <3>2. p.session = session[t]
      BY <3>1 DEF IInv, Messages, PairsFormed, PairFormed
    <3> QED
      BY <1>1, <3>1, <3>2
  <2>3. CacheIsFirstHand'
    BY <1>1, <1>2 DEF IInv, Messages, CacheIsFirstHand, Booked
  <2> QED
    BY <2>1, <2>2, <2>3 DEF Messages
<1>7. \A x : x # s => Pairs(x)' = Pairs(x) /\ (Overlap(x)' <=> Overlap(x))
  BY <1>1 DEF Pairs, Overlap
<1>8. ASSUME NEW t \in Turn PROVE CopyLags(t)'
  <2>1. /\ (MayCount(t)' <=> MayCount(t)) /\ Raised(t)' = Raised(t) /\ (Fresh(t)' <=> Fresh(t))
    BY <1>2 DEF MayCount, Raised, Fresh, Dirty
  <2>2. session[t] # s => \A n : Lags(n, t, session[t])' <=> Lags(n, t, session[t])
    <3> SUFFICES ASSUME session[t] # s, NEW n
                 PROVE  Lags(n, t, session[t])' <=> Lags(n, t, session[t])
      OBVIOUS
    <3>1. PICK x : x = session[t] /\ x = session'[t]
      BY <1>2
    <3>2. Pairs(x)' = Pairs(x) /\ (Overlap(x)' <=> Overlap(x))
      BY <1>7, <3>1
    <3>3. Lags(n, t, x)' <=> Lags(n, t, x)
      BY <1>1, <3>2 DEF Lags
    <3> QED
      BY <3>1, <3>3 DEF Lags, Pairs, Overlap
  <2> QED
    BY <1>1, <1>2, <2>1, <2>2 DEF IInv, Counts, CopyLags
<1>9. CountsLag'
  BY <1>1, <1>3, <1>7 DEF IInv, Counts, CountsLag, Session
<1> QED
  BY <1>4, <1>5, <1>6, <1>8, <1>9 DEF IInv, Turns, Counts

-----------------------------------------------------------------------------
(* The commits of a turn. *)

(* The first of a session that is new, or one of a session that is there; of    *)
(* nothing, or of a pair and the count that goes with it.                       *)
Commits(t, pairs) ==
  /\ Save(t, pairs)
  /\ UNCHANGED <<session, alone, shown, before, hurt>>
  /\ \A u \in Turn \ {t} : TurnSame(u)
  /\ stage[t] \notin {"idle"} \cup Over
  /\ \A p \in stored : p.turn # t
  /\ session[t] \in alive \/ (Fresh(t) /\ t \notin made)
  /\ \/ /\ pairs = {} /\ Fresh(t) /\ t \notin made /\ memory'[t] = 0 /\ shown[t] = {}
        /\ stage'[t] = "streaming"
     \/ /\ \E a \in shown[t] : pairs = {Pair(t, a)}
        /\ \E n \in Nat : memory'[t] = n + 2 /\ Lags(n, t, session[t])
  /\ finish'[t] = "none" /\ pending'[t] = {}
  /\ \/ stage'[t] = "stored" /\ pairs # {}
     \/ /\ stage'[t] = "streaming"
        /\ pairs # {} => pairs = {Pair(t, "cached")} /\ Dirty(t)
  /\ cache' \subseteq cache \cup {t}
  /\ t \in cache' => alone[t] /\ shown[t] = {"generated"} /\ stage'[t] = "stored"

CommitTypes ==
  /\ title' \in [Session -> {"default", "custom", "auto"}]
  /\ stage' \in [Turn -> StageName] /\ memory' \in [Turn -> Nat]
  /\ pending' \in [Turn -> SUBSET PendingPair]
  /\ finish' \in [Turn -> {"none", "DONE", "error", "left", "cut"}]

LEMMA CommitKeepsTurns ==
  ASSUME IInv, NEW t \in Turn, NEW pairs, Commits(t, pairs), CommitTypes
  PROVE  Turns'
<1>1. /\ TypeOK /\ made \subseteq Session /\ alive \subseteq made /\ count \in [Session -> Nat]
      /\ stored \subseteq [session : alive, turn : Turn, answer : AnswerKind]
      /\ cache \subseteq Turn \cup Earlier
  BY TypeParts DEF IInv, Turns
<1>2. session[t] \in Session
  BY DEF IInv, Turns, TurnFormed, SessionMade, Commits
<1>3. /\ stored' = stored \cup pairs
      /\ count' = [count EXCEPT ![session[t]] = memory'[t]]
      /\ made' = made \cup {session[t]} /\ alive' = alive \cup {session[t]}
  BY DEF Commits, Save
<1>4. TypeOK'
  <2>1. /\ made' \subseteq Session /\ alive' \subseteq made' /\ cache' \subseteq Turn \cup Earlier
    BY <1>1, <1>2, <1>3 DEF Commits
  <2>2. memory'[t] \in Nat
    BY DEF CommitTypes
  <2>3. count' \in [Session -> Nat]
    BY <1>1, <1>3, <2>2
  <2>4. pairs \subseteq [session : alive', turn : Turn, answer : AnswerKind]
    <3>1. shown[t] \subseteq AnswerKind
      BY <1>1, TypeParts
    <3> QED
      BY <1>3, <3>1 DEF Commits, Pair
  <2>5. stored' \subseteq [session : alive', turn : Turn, answer : AnswerKind]
    BY <1>1, <1>3, <2>4
  <2> QED
    BY <1>1, <2>1, <2>3, <2>5, TypeParts
       DEF TypeOK, AnswerKind, StageName, PendingPair, Session, Commits, CommitTypes
<1>5. ASSUME NEW u \in Turn \ {t} PROVE TurnFormed(u)'
  <2>1. TurnFormed(u) /\ TurnSame(u)
    BY DEF IInv, Turns, Commits
  <2>2. /\ (Fresh(u)' <=> Fresh(u)) /\ (Dirty(u)' <=> Dirty(u))
        /\ Pair(u, "cached")' = Pair(u, "cached")
    BY <2>1 DEF TurnSame, Fresh, Dirty, Pair
  <2>3. u \in made' => u \in made
    BY <1>1, <1>3 DEF Commits, Fresh
  <2>4. SessionMade(u)'
    BY <1>3, <2>1, <2>2, <2>3 DEF TurnFormed, SessionMade, TurnSame, Booked, Session
  <2>5. AnswerShown(u)' /\ PendingFormed(u)'
    BY <2>1, <2>2 DEF TurnFormed, AnswerShown, PendingFormed, TurnSame
  <2> QED
    BY <2>4, <2>5 DEF TurnFormed
<1>6. TurnFormed(t)'
  <2>1. (Fresh(t)' <=> Fresh(t)) /\ session'[t] = session[t] /\ session'[t] \in made'
    BY <1>3 DEF Commits, Fresh
  <2>2. stage'[t] \in {"streaming", "stored"}
    BY DEF Commits
  <2>3. SessionMade(t)'
    BY <1>2, <2>1, <2>2 DEF SessionMade, Early, Session
  <2>4. AnswerShown(t)'
    BY <2>1, <2>2 DEF AnswerShown, Commits, Dirty
  <2>5. PendingFormed(t)'
    BY <2>2 DEF PendingFormed, Commits
  <2> QED
    BY <2>3, <2>4, <2>5 DEF TurnFormed
<1> QED
  BY <1>4, <1>5, <1>6 DEF Turns

LEMMA CommitKeepsMessages ==
  ASSUME IInv, NEW t \in Turn, NEW pairs, Commits(t, pairs)
  PROVE  Messages'
<1>1. /\ TypeOK /\ PairsFormed /\ stored' = stored \cup pairs /\ alive \subseteq made
      /\ alive' = alive \cup {session[t]}
  BY TypeParts DEF IInv, Turns, Messages, Commits, Save
<1>2. Booked(t)' <=> stage'[t] = "stored"
  BY DEF Commits, Booked
<1>3. \A p \in pairs : /\ p.session = session[t] /\ p.turn = t /\ p.answer \in shown[t]
                       /\ ~Booked(t)' => p.answer = "cached" /\ Dirty(t)
                       /\ pairs = {p}
  <2> SUFFICES ASSUME NEW p \in pairs
               PROVE  /\ p.session = session[t] /\ p.turn = t /\ p.answer \in shown[t]
                      /\ ~Booked(t)' => p.answer = "cached" /\ Dirty(t)
                      /\ pairs = {p}
    OBVIOUS
  <2>1. PICK a \in shown[t] : pairs = {Pair(t, a)}
    BY DEF Commits
  <2>2. p = [session |-> session[t], turn |-> t, answer |-> a] /\ pairs = {p}
    BY <2>1 DEF Pair
  <2>3. ~Booked(t)' => p = Pair(t, "cached") /\ Dirty(t)
    BY <1>2, <2>1 DEF Commits
  <2> QED
    BY <2>2, <2>3 DEF Pair
<1>4. PairsFormed'
  <2>1. IsFiniteSet(stored')
    <3>1. IsFiniteSet(pairs)
      <4>1. CASE pairs = {}
        BY <4>1, FS_EmptySet
      <4>2. CASE pairs # {}
        <5>1. PICK x : pairs = {x}
          BY <4>2 DEF Commits
        <5> QED
          BY <5>1, FS_Singleton
      <4> QED
        BY <4>1, <4>2
    <3> QED
      BY <1>1, <3>1, FS_Union DEF PairsFormed
  <2>2. ASSUME NEW p \in stored PROVE PairFormed(p)'
    <3>1. p.turn \in Turn \ {t}
      BY <1>1, PairFacts DEF Commits
    <3>2. TurnSame(p.turn)
      BY <3>1 DEF Commits
    <3> QED
      BY <1>1, <3>2 DEF PairsFormed, PairFormed, TurnSame, Booked, Dirty, Fresh
  <2>3. ASSUME NEW p \in pairs PROVE PairFormed(p)'
    BY <1>3 DEF PairFormed, Commits, Dirty, Fresh, Over
  <2>4. \A p, q \in stored' : p.turn = q.turn => p = q
    BY <1>1, <1>3 DEF PairsFormed, Commits
  <2> QED
    BY <1>1, <2>1, <2>2, <2>3, <2>4 DEF PairsFormed
<1>5. BookedIsStored'
  <2> SUFFICES ASSUME NEW u \in Turn, Booked(u)', session'[u] \in alive'
               PROVE  \E p \in stored' : p.turn = u
    BY DEF BookedIsStored
  <2>1. CASE u = t
    <3>1. PICK p : p \in pairs
      BY <1>2, <2>1 DEF Commits
    <3> QED
      BY <1>1, <1>3, <2>1, <3>1
  <2>2. CASE u # t
    <3>1. Booked(u) /\ session'[u] = session[u] /\ session[u] \in made
      BY <2>2 DEF Commits, TurnSame, Booked, IInv, Turns, TurnFormed, SessionMade
    <3>2. session[u] \in alive
      BY <1>1, <3>1 DEF Commits, Fresh
    <3> QED
      BY <1>1, <3>1, <3>2 DEF IInv, Messages, BookedIsStored
  <2> QED
    BY <2>1, <2>2
<1>6. CacheIsFirstHand'
  <2> SUFFICES ASSUME NEW e \in cache' \ Earlier
               PROVE  alone'[e] /\ shown'[e] = {"generated"} /\ Booked(e)'
    BY DEF CacheIsFirstHand
  <2>1. CASE e = t
    BY <1>2, <2>1 DEF Commits
  <2>2. CASE e # t
    <3>1. e \in cache /\ e \in Turn
      BY <1>1, <2>2, TypeParts DEF Commits
    <3> QED
      BY <2>2, <3>1 DEF Commits, TurnSame, Booked, IInv, Messages, CacheIsFirstHand
  <2> QED
    BY <2>1, <2>2
<1> QED
  BY <1>4, <1>5, <1>6 DEF Messages

LEMMA CommitKeepsCounts ==
  ASSUME IInv, NEW t \in Turn, NEW pairs, Commits(t, pairs), CommitTypes
  PROVE  Counts'
<1>0. PICK s : s = session[t]
  OBVIOUS
<1>1. /\ TypeOK /\ PairsFormed /\ stored' = stored \cup pairs /\ alive \subseteq made
      /\ made \subseteq Session /\ count \in [Session -> Nat]
      /\ alive' = alive \cup {s} /\ made' = made \cup {s}
      /\ count' = [count EXCEPT ![s] = memory'[t]] /\ s \in Session
      /\ UNCHANGED <<session, before, shown>>
  BY <1>0, TypeParts DEF IInv, Turns, TurnFormed, SessionMade, Messages, Commits, Save
<1>2. \A x : x # s => Pairs(x)' = Pairs(x)
  BY <1>0, <1>1 DEF Pairs, Commits, Pair
<1>3. Pairs(s)' = Pairs(s) \cup pairs
  BY <1>0, <1>1 DEF Pairs, Commits, Pair
<1>4. /\ IsFiniteSet(Pairs(s)) /\ Cardinality(Pairs(s)) \in Nat
      /\ Pairs(s) \subseteq stored
  BY <1>1, PairsFacts
<1>5. \A x : Overlap(x) => Overlap(x)'
  BY <1>1, <1>2, <1>3 DEF Overlap
<1>6. ASSUME NEW u \in Turn PROVE t \notin before[u]
  BY DEF IInv, Counts, PastEnded, Commits
<1>7. PastEnded'
  <2> SUFFICES ASSUME NEW v \in Turn, NEW u \in Turn, u \in before[v] PROVE stage'[u] \in Over
    BY <1>1 DEF PastEnded
  <2>1. u # t /\ stage[u] \in Over
    BY <1>6 DEF IInv, Counts, PastEnded
  <2> QED
    BY <2>1 DEF Commits, TurnSame
<1>8. CASE pairs = {}
  <2>1. /\ s = t /\ t \notin made /\ memory'[t] = 0 /\ Pairs(s) = {} /\ Cardinality(Pairs(s)) = 0
        /\ stage'[t] = "streaming" /\ shown[t] = {}
    BY <1>0, <1>1, <1>8, NoPairs DEF Commits, Fresh, Pair
  <2>2. \A x : Pairs(x)' = Pairs(x) /\ (Overlap(x)' <=> Overlap(x))
    BY <1>1, <1>8 DEF Pairs, Overlap
  <2>3. CountsLag'
    BY <1>1, <2>1, <2>2 DEF IInv, Counts, CountsLag, Session
  <2>4. CopyLags(t)'
    <3>1. Raised(t)' = 0 /\ memory'[t] = 0
      BY <2>1 DEF Raised
    <3>2. session'[t] = s
      BY <1>0, <1>1
    <3>3. Lags(0, t, session[t])'
      BY <2>1, <2>2, <3>2 DEF Lags
    <3> QED
      BY <3>1, <3>3 DEF CopyLags
  <2>5. ASSUME NEW u \in Turn \ {t} PROVE CopyLags(u)'
    <3>1. CopyLags(u) /\ TurnSame(u) /\ TurnFormed(u)
      BY DEF IInv, Counts, Turns, Commits
    <3>2. /\ (MayCount(u)' <=> MayCount(u)) /\ Raised(u)' = Raised(u) /\ (Fresh(u)' <=> Fresh(u))
      BY <3>1 DEF MayCount, Raised, Fresh, Dirty, TurnSame
    <3>3. ASSUME NEW n PROVE Lags(n, u, session[u])' <=> Lags(n, u, session[u])
      <4>1. PICK x : x = session[u] /\ x = session'[u]
        BY <1>1
      <4>2. Lags(n, u, x)' <=> Lags(n, u, x)
        BY <1>1, <2>2 DEF Lags
      <4> QED
        BY <4>1, <4>2 DEF Lags, Pairs, Overlap
    <3>4. MayCount(u) => session[u] # t
      BY <2>1, <3>1 DEF MayCount, TurnFormed, SessionMade, Fresh
    <3> QED
      BY <1>1, <2>1, <3>1, <3>2, <3>3, <3>4 DEF CopyLags, TurnSame
  <2> QED
    BY <1>7, <2>3, <2>4, <2>5 DEF Counts
<1>9. CASE pairs # {}
  <2>1. PICK a \in shown[t] : pairs = {Pair(t, a)}
    BY <1>9 DEF Commits
  <2>2. PICK p : pairs = {p} /\ p.turn = t /\ p \notin stored
    <3>1. Pair(t, a).turn = t
      BY DEF Pair
    <3> QED
      BY <2>1, <3>1 DEF Commits
  <2>3. PICK n \in Nat : memory'[t] = n + 2 /\ Lags(n, t, s)
    BY <1>0, <1>9 DEF Commits
  <2>4. /\ Cardinality(Pairs(s)') = Cardinality(Pairs(s)) + 1
        /\ p \in Pairs(s)'
    BY <1>3, <1>4, <2>2, FS_AddElement
  <2>5. ASSUME NEW q \in Pairs(s), q.turn \notin before[t] PROVE Overlap(s)'
    <3>1. q \in stored /\ q.turn \in Turn /\ q.turn # t /\ q \in Pairs(s)'
      BY <1>1, <1>3, <1>4, PairFacts DEF Commits
    <3>2. t \notin before[q.turn]
      BY <1>6, <3>1
    <3> QED
      BY <1>1, <2>2, <2>4, <2>5, <3>1, <3>2 DEF Overlap
  <2>6. /\ n + 2 <= 2 * Cardinality(Pairs(s)')
        /\ n + 2 = 2 * Cardinality(Pairs(s)') \/ Overlap(s)'
    <3>1. n <= 2 * Cardinality(Pairs(s))
      BY <2>3 DEF Lags
    <3>2. n = 2 * Cardinality(Pairs(s)) \/ Overlap(s)'
      BY <1>5, <2>3, <2>5 DEF Lags
    <3> QED
      BY <1>4, <2>4, <3>1, <3>2
  <2>7. CountsLag'
    <3>1. ASSUME NEW x \in Session \ made' PROVE count'[x] = 0
      BY <1>1 DEF IInv, Counts, CountsLag
    <3>2. ASSUME NEW x \in alive'
          PROVE  /\ count'[x] <= 2 * Cardinality(Pairs(x)')
                 /\ count'[x] = 2 * Cardinality(Pairs(x)') \/ Overlap(x)'
      <4>1. CASE x = s
        BY <1>1, <2>3, <2>6, <4>1
      <4>2. CASE x # s
        BY <1>1, <1>2, <1>5, <4>2 DEF IInv, Counts, CountsLag
      <4> QED
        BY <4>1, <4>2
    <3> QED
      BY <3>1, <3>2 DEF CountsLag, Session
  <2>8. CopyLags(t)'
    <3>1. stage'[t] = "stored" \/ (stage'[t] = "streaming" /\ Dirty(t))
      BY <1>9 DEF Commits
    <3>2. Dirty(t) => ~Fresh(t)'
      BY <1>1 DEF Dirty, Fresh
    <3> QED
      BY <3>1, <3>2 DEF CopyLags, MayCount, Over
  <2>9. ASSUME NEW u \in Turn \ {t} PROVE CopyLags(u)'
    <3>1. CopyLags(u) /\ TurnSame(u) /\ TurnFormed(u)
      BY DEF IInv, Counts, Turns, Commits
    <3>2. /\ (MayCount(u)' <=> MayCount(u)) /\ Raised(u)' = Raised(u) /\ (Fresh(u)' <=> Fresh(u))
          /\ Raised(u) \in Nat
      BY <3>1 DEF MayCount, Raised, Fresh, Dirty, TurnSame
    <3>3. MayCount(u) /\ session[u] \in alive' => session[u] \in alive
      <4>1. CASE s \in alive
        BY <1>1, <4>1
      <4>2. CASE s \notin alive
        <5>1. s = t /\ t \notin made
          BY <1>0, <4>2 DEF Commits, Fresh
        <5> QED
          BY <1>1, <3>1, <5>1 DEF MayCount, TurnFormed, SessionMade, Fresh
      <4> QED
        BY <4>1, <4>2
    <3>4. ASSUME NEW m \in Nat, NEW x, x = session[u], Lags(m, u, x) PROVE Lags(m, u, x)'
      <4>1. CASE x = s
        <5>1. p.turn \notin before'[u]
          BY <1>1, <1>6, <2>2
        <5>2. m <= 2 * Cardinality(Pairs(s)) 
          BY <3>4, <4>1 DEF Lags
        <5>3. m <= 2 * Cardinality(Pairs(s)')
          BY <1>4, <2>4, <5>2
        <5> QED
          BY <2>4, <4>1, <5>1, <5>3 DEF Lags
      <4>2. CASE x # s
        BY <1>1, <1>2, <1>5, <3>4, <4>2 DEF Lags
      <4> QED
        BY <4>1, <4>2
    <3>5. ASSUME NEW m \in Nat, Lags(m, u, session[u]) PROVE Lags(m, u, session[u])'
      <4>1. PICK x : x = session[u] /\ x = session'[u]
        BY <1>1
      <4>2. Lags(m, u, x)'
        BY <3>4, <3>5, <4>1
      <4> QED
        BY <4>1, <4>2 DEF Lags, Pairs, Overlap
    <3> QED
      BY <1>1, <3>1, <3>2, <3>3, <3>5 DEF CopyLags, TurnSame
  <2> QED
    BY <1>7, <2>7, <2>8, <2>9 DEF Counts
<1> QED
  BY <1>8, <1>9

LEMMA CommitKeeps ==
  ASSUME IInv, NEW t \in Turn, NEW pairs, Commits(t, pairs), CommitTypes
  PROVE  IInv'
BY CommitKeepsTurns, CommitKeepsMessages, CommitKeepsCounts DEF IInv

(* What is known of a turn before it commits. *)
LEMMA TurnFacts ==
  ASSUME IInv, NEW t \in Turn
  PROVE  /\ TypeOK /\ SessionMade(t) /\ AnswerShown(t) /\ PendingFormed(t) /\ CopyLags(t)
         /\ alive \subseteq made
         /\ title \in [Session -> {"default", "custom", "auto"}]
         /\ stage \in [Turn -> StageName] /\ memory \in [Turn -> Nat]
         /\ shown \in [Turn -> SUBSET AnswerKind]
         /\ pending \in [Turn -> SUBSET PendingPair]
         /\ finish \in [Turn -> {"none", "DONE", "error", "left", "cut"}]
         /\ cache \subseteq Turn \cup Earlier
BY TypeParts DEF IInv, Turns, TurnFormed, Counts

(* A cache entry is of a turn that has stored its answer. *)
LEMMA NotYetCached ==
  ASSUME IInv, NEW t \in Turn, stage[t] \notin Over
  PROVE  t \notin cache
<1>1. ~Booked(t) /\ t \notin Earlier
  BY TurnFacts, NameAssumption DEF AnswerShown, Booked, Over
<1> QED
  BY <1>1 DEF IInv, Messages, CacheIsFirstHand

LEMMA StoreCachedKeeps ==
  ASSUME IInv, NEW t \in Turn, StoreCached(t)
  PROVE  IInv'
<1> DEFINE pairs == {Pair(t, "cached")}
<1>1. /\ stage[t] = "replayed" /\ Fresh(t)
      /\ UNCHANGED <<title, cache, session, alone, pending, shown, finish, before, hurt>>
      /\ Save(t, pairs)
      /\ memory' = [memory EXCEPT ![t] = memory[t] + 2]
      /\ Goes(t, "stored")
  BY DEF StoreCached, CostAdds, CountAfter
<1>2. /\ memory[t] = 0 /\ t \notin made /\ t \notin alive /\ t \notin cache
      /\ finish[t] = "none" /\ pending[t] = {} /\ "cached" \in shown[t]
  BY <1>1, TurnFacts, NotYetCached
     DEF CopyLags, SessionMade, AnswerShown, PendingFormed, Early, Over
<1>3. CommitTypes
  BY <1>1, TurnFacts DEF CommitTypes, Goes, StageName
<1>4. /\ \A u \in Turn \ {t} : TurnSame(u)
      /\ stage'[t] = "stored" /\ finish'[t] = "none" /\ pending'[t] = {} /\ memory'[t] = 0 + 2
  BY <1>1, <1>2, TurnFacts DEF TurnSame, Goes
<1>5. \A p \in stored : p.turn # t
  BY <1>1 DEF IInv, Messages, PairsFormed, PairFormed, Over
<1>6. Lags(0, t, session[t])
  BY <1>1, <1>2, TurnFacts, NoPairs DEF Fresh, Lags
<1>7. \E n \in Nat : memory'[t] = n + 2 /\ Lags(n, t, session[t])
  BY <1>4, <1>6
<1>8. pairs # {} /\ \E a \in shown[t] : pairs = {Pair(t, a)}
  BY <1>2
<1> HIDE DEF pairs
<1>9. Commits(t, pairs)
  BY <1>1, <1>2, <1>4, <1>5, <1>7, <1>8 DEF Commits, Over
<1> QED
  BY <1>3, <1>9, CommitKeeps

LEMMA ReleaseKeeps ==
  ASSUME IInv, NEW t \in Turn, Release(t)
  PROVE  IInv'
<1>1. /\ stage[t] = "retrieve" /\ (Dirty(t) => session[t] \in alive)
      /\ UNCHANGED <<title, cache, session, alone, shown, finish, before, hurt>>
      /\ pending' = [pending EXCEPT ![t] = {}]
      /\ Goes(t, "streaming")
      /\ Fresh(t) \/ Dirty(t) => memory' = memory /\ Save(t, pending[t])
      /\ ~(Fresh(t) \/ Dirty(t)) => UNCHANGED <<made, alive, count, stored, memory>>
  BY DEF Release
<1>2. /\ finish[t] = "none" /\ t \notin made /\ t \notin alive /\ t \notin cache
      /\ pending[t] = IF Dirty(t) THEN {Pair(t, "cached")} ELSE {}
      /\ memory' = memory
  BY <1>1, TurnFacts, NotYetCached DEF SessionMade, AnswerShown, PendingFormed, Early, Over
<1>3. CommitTypes
  BY <1>1, <1>2, TurnFacts DEF CommitTypes, Goes, StageName
<1>4. /\ \A u \in Turn \ {t} : TurnSame(u)
      /\ stage'[t] = "streaming" /\ finish'[t] = "none" /\ pending'[t] = {}
      /\ memory'[t] = memory[t]
  BY <1>1, <1>2, TurnFacts DEF TurnSame, Goes
<1>5. \A p \in stored : p.turn # t
  BY <1>1 DEF IInv, Messages, PairsFormed, PairFormed, Over
<1>6. CASE Fresh(t)
  <2>1. pending[t] = {} /\ shown[t] = {} /\ memory'[t] = 0 /\ Save(t, {})
    BY <1>1, <1>2, <1>4, <1>6, TurnFacts DEF Dirty, AnswerShown, CopyLags, Over
  <2>2. Commits(t, {})
    BY <1>1, <1>2, <1>4, <1>5, <1>6, <2>1 DEF Commits, Over
  <2> QED
    BY <1>3, <2>2, CommitKeeps
<1>7. CASE Dirty(t)
  <2> DEFINE pairs == {Pair(t, "cached")}
  <2>1. pending[t] = pairs /\ session[t] \in alive /\ Save(t, pairs)
    BY <1>1, <1>2, <1>7
  <2>2. \E n \in Nat : memory'[t] = n + 2 /\ Lags(n, t, session[t])
    BY <1>1, <1>4, <1>7, <2>1, TurnFacts DEF CopyLags, MayCount, Raised
  <2>3. \E a \in shown[t] : pairs = {Pair(t, a)}
    BY <1>7 DEF Dirty
  <2>4. pairs = {Pair(t, "cached")}
    OBVIOUS
  <2> HIDE DEF pairs
  <2>5. Commits(t, pairs)
    BY <1>1, <1>2, <1>4, <1>5, <1>7, <2>1, <2>2, <2>3, <2>4 DEF Commits, Over
  <2> QED
    BY <1>3, <2>5, CommitKeeps
<1>8. CASE ~Fresh(t) /\ ~Dirty(t)
  <2>1. /\ UNCHANGED rows /\ UNCHANGED <<session, before>>
    BY <1>1, <1>8 DEF rows
  <2>2. TypeOK'
    BY <1>1, <1>3, <2>1, TurnFacts, TypeParts
       DEF CommitTypes, rows, TypeOK, AnswerKind, StageName, PendingPair, Session
  <2>6. ~Booked(t) /\ ~Booked(t)'
    BY <1>1, <1>2, <1>4 DEF Booked
  <2>3. TurnFormed(t)'
    <3>1. ~Fresh(t)' /\ session[t] \in made
      BY <1>1, <1>8, TurnFacts DEF Fresh, SessionMade
    <3>2. SessionMade(t)'
      BY <1>1, <1>4, <2>1, <3>1, TurnFacts DEF SessionMade, Early, rows, Session
    <3>3. AnswerShown(t)' /\ PendingFormed(t)'
      BY <1>1, <1>4, <3>1, TurnFacts DEF AnswerShown, PendingFormed
    <3> QED
      BY <3>2, <3>3 DEF TurnFormed
  <2>4. CopyLags(t)'
    BY <1>1, <1>4, <1>8 DEF CopyLags, MayCount, Fresh
  <2>5. \A u \in before'[t] : stage[u] \in Over
    <3>1. before \in [Turn -> SUBSET Turn]
      BY TypeParts, TurnFacts
    <3> QED
      BY <1>1, <3>1 DEF IInv, Counts, PastEnded
  <2> QED
    BY <1>1, <1>4, <1>5, <2>1, <2>2, <2>3, <2>4, <2>5, <2>6, LocalStep DEF Over
<1> QED
  BY <1>6, <1>7, <1>8

LEMMA StoreKeeps ==
  ASSUME IInv, NEW t \in Turn, Store(t)
  PROVE  IInv'
<1> DEFINE pairs == {Pair(t, Generated(t))}
<1>1. /\ stage[t] = "answered" /\ Fresh(t) /\ session[t] \in alive
      /\ UNCHANGED <<session, alone, pending, shown, finish, before, hurt>>
      /\ memory' = [memory EXCEPT ![t] = memory[t] + 2]
      /\ Save(t, pairs)
      /\ title' = IF Titled(t) THEN [title EXCEPT ![session[t]] = "auto"] ELSE title
      /\ cache' \subseteq cache \cup {t} /\ (t \in cache' => t \in cache \/ Cacheable(t))
      /\ Goes(t, "stored")
  BY DEF Store, CostAdds, CountAfter
<1>2. /\ t \notin cache /\ finish[t] = "none" /\ pending[t] = {}
      /\ shown[t] \in {{"generated"}, {"failed"}}
  BY <1>1, NotYetCached, TurnFacts DEF AnswerShown, PendingFormed, Over
<1>3. CommitTypes
  <2>1. title' \in [Session -> {"default", "custom", "auto"}]
    BY <1>1, TurnFacts
  <2> QED
    BY <1>1, <2>1, TurnFacts DEF CommitTypes, Goes, StageName
<1>4. /\ \A u \in Turn \ {t} : TurnSame(u)
      /\ stage'[t] = "stored" /\ finish'[t] = "none" /\ pending'[t] = {}
      /\ memory'[t] = memory[t] + 2
  BY <1>1, <1>2, TurnFacts DEF TurnSame, Goes
<1>5. \A p \in stored : p.turn # t
  BY <1>1, <1>2 DEF IInv, Messages, PairsFormed, PairFormed, Booked, Dirty
<1>6. \E n \in Nat : memory'[t] = n + 2 /\ Lags(n, t, session[t])
  <2>1. MayCount(t) /\ Raised(t) = 0
    BY <1>1 DEF MayCount, Raised
  <2>2. PICK n \in Nat : memory[t] = n + 0 /\ Lags(n, t, session[t])
    BY <1>1, <2>1, TurnFacts DEF CopyLags
  <2> QED
    BY <1>4, <2>2
<1>7. pairs # {} /\ \E a \in shown[t] : pairs = {Pair(t, a)}
  BY <1>2 DEF Generated
<1>8. t \in cache' => alone[t] /\ shown[t] = {"generated"} /\ stage'[t] = "stored"
  <2>1. ASSUME t \in cache' PROVE alone[t] /\ Generated(t) = "generated"
    BY <1>1, <1>2, <2>1 DEF Cacheable
  <2> QED
    BY <1>2, <1>4, <2>1 DEF Generated
<1> HIDE DEF pairs
<1>9. Commits(t, pairs)
  BY <1>1, <1>4, <1>5, <1>6, <1>7, <1>8 DEF Commits, Over
<1> QED
  BY <1>3, <1>9, CommitKeeps

-----------------------------------------------------------------------------
LEMMA InitIInv == Init => IInv
<1> SUFFICES ASSUME Init PROVE IInv
  OBVIOUS
<1>1. TypeOK
  BY DEF Init, TypeOK
<1>2. \A t \in Turn : TurnFormed(t)
  BY NameAssumption
     DEF Init, TurnFormed, SessionMade, AnswerShown, PendingFormed, Booked, Fresh, Dirty
<1>3. Messages
  BY FS_EmptySet DEF Init, Messages, PairsFormed, BookedIsStored, Booked, CacheIsFirstHand
<1>4. Counts
  BY DEF Init, Counts, PastEnded, CopyLags, MayCount, CountsLag
<1> QED
  BY <1>1, <1>2, <1>3, <1>4 DEF IInv, Turns

LEMMA NextIInv == IInv /\ [Next]_vars => IInv'
<1> SUFFICES ASSUME IInv, [Next]_vars PROVE IInv'
  OBVIOUS
<1>1. ASSUME NEW s \in Session, Rename(s) PROVE IInv'
  <2>1. title \in [Session -> {"default", "custom", "auto"}]
    BY TypeParts DEF IInv, Turns
  <2> QED
    BY <1>1, <2>1, RenameOrExpireKeeps DEF Rename
<1>2. ASSUME NEW s \in Session, Delete(s) PROVE IInv'
  BY <1>2, DeleteKeeps
<1>3. ASSUME NEW s \in Given, Create(s, "default") \/ Create(s, "custom") PROVE IInv'
  BY <1>3, CreateKeeps
<1>4. ASSUME NEW e, Expire(e) PROVE IInv'
  <2>1. title \in [Session -> {"default", "custom", "auto"}]
    BY TypeParts DEF IInv, Turns
  <2> QED
    BY <1>4, <2>1, RenameOrExpireKeeps DEF Expire
<1>5. ASSUME NEW t \in Turn, NEW s \in Session, Start(t, s) PROVE IInv'
  BY <1>5, StartKeeps
<1>6. ASSUME NEW t \in Turn, Answer(t) PROVE IInv'
  BY <1>6, LocalActions, StoreCachedKeeps, ReleaseKeeps, StoreKeeps, CloseKeeps DEF Answer
<1>7. ASSUME NEW t \in Turn, Abort(t, "error") \/ Abort(t, "left") \/ CutOff(t) PROVE IInv'
  BY <1>7, LocalActions, CloseKeeps
<1>8. CASE UNCHANGED vars
  <2>1. UNCHANGED <<made, alive, count, title, stored, cache, turn, before, hurt>>
    BY <1>8 DEF vars, rows
  <2>2. title \in [Session -> {"default", "custom", "auto"}]
    BY TypeParts DEF IInv, Turns
  <2> QED
    BY <2>1, <2>2, RenameOrExpireKeeps
<1> QED
  BY <1>1, <1>2, <1>3, <1>4, <1>5, <1>6, <1>7, <1>8 DEF Next

LEMMA Inductive == Spec => []IInv
BY InitIInv, NextIInv, PTL DEF Spec

(* Every variable keeps its type: a message is of a session that is there, and *)
(* counts are natural numbers (chat_service.py:297-327).                       *)
THEOREM TypesHold == Spec => []TypeOK
<1>1. IInv => TypeOK
  BY DEF IInv, Turns
<1> QED
  BY <1>1, Inductive, PTL

(* However the turns, deletions and broken streams of a session interleave: a   *)
(* turn closed with [DONE], or cut off after its last commit, is stored until its *)
(* session is deleted, any other left nothing but a cached answer it could not    *)
(* book, and whatever is stored was streamed (chat_service.py:97-112, 163,        *)
(* 206-244; chat/router.py:55-62).                                                *)
THEOREM TurnsAreAtomic == Spec => []TurnIsAtomic
<1>1. IInv => TurnIsAtomic
  <2> SUFFICES ASSUME IInv, NEW t \in Turn
               PROVE  /\ (Booked(t) /\ session[t] \in alive) => \E p \in stored : p.turn = t
                      /\ \A p \in stored :
                           p.turn = t => /\ p.answer \in shown[t]
                                         /\ Booked(t) \/ (p.answer = "cached" /\ Dirty(t))
    BY DEF TurnIsAtomic
  <2>1. \A p \in stored :
          p.turn = t => /\ p.answer \in shown[t]
                        /\ Booked(t) \/ (p.answer = "cached" /\ Dirty(t))
    BY DEF IInv, Messages, PairsFormed, PairFormed
  <2> QED
    BY <2>1 DEF IInv, Messages, BookedIsStored
<1> QED
  BY <1>1, Inductive, PTL

(* A turn is stored at most once, also when it answered from the cache and then *)
(* from the pipeline (chat_service.py:99-112, 206).                             *)
THEOREM TurnsStoredOnce == Spec => []StoredOnce
<1>1. IInv => StoredOnce
  <2> SUFFICES ASSUME IInv, NEW t \in Turn
               PROVE  Cardinality({p \in stored : p.turn = t}) <= 1
    BY DEF StoredOnce
  <2>1. \A p, q \in stored : p.turn = q.turn => p = q
    BY DEF IInv, Messages, PairsFormed
  <2>2. CASE {p \in stored : p.turn = t} = {}
    BY <2>2, FS_EmptySet
  <2>3. CASE {p \in stored : p.turn = t} # {}
    <3>1. PICK p \in stored : p.turn = t
      BY <2>3
    <3>2. {q \in stored : q.turn = t} = {p}
      BY <2>1, <3>1
    <3>3. Cardinality({p}) = 1
      BY FS_Singleton
    <3> QED
      BY <3>2, <3>3
  <2> QED
    BY <2>2, <2>3
<1> QED
  BY <1>1, Inductive, PTL

(* message_count is never more than the messages of the session, and less only  *)
(* if two turns that stored in it overlapped (chat_service.py:308).              *)
THEOREM CountLags == Spec => []CountLagsOnlyByOverlap
<1>1. IInv => CountLagsOnlyByOverlap
  BY DEF IInv, Counts, CountsLag, Overlap, CountLagsOnlyByOverlap
<1> QED
  BY <1>1, Inductive, PTL

(* The semantic cache holds only texts that were completed first-hand, in turns  *)
(* without history whose last commit was made (chat_service.py:231, semantic_cache.py:86-98). *)
THEOREM CacheHoldsFirstHand == Spec => []CacheIsFirstHand
<1>1. IInv => CacheIsFirstHand
  BY DEF IInv, Messages
<1> QED
  BY <1>1, Inductive, PTL
=============================================================================
