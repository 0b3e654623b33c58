------------------------ MODULE LimitsAndPagesProofs ------------------------
(***************************************************************************)
(* Two components that stand alone.  The sliding window, for any number of    *)
(* requests, any plans and window, any clock, and any number of lost replies,  *)
(* expiries and losses of the key.  A walk over a descending list, which        *)
(* returns every row that stays where it is once and in order, for any rows,     *)
(* sort values, page size and number of changes.                                 *)
(***************************************************************************)
EXTENDS RateLimiter, CursorPages, FiniteSetTheorems, WellFoundedInduction, TLAPS

-----------------------------------------------------------------------------
(* The sliding window. *)

\* Of TypeOK, what the proofs of the window need
Types ==
  /\ now \in Nat
  /\ served \in 0..NumRequests /\ since \in 0..served
  /\ entries \subseteq since + 1..served
  /\ at \in [Request -> Nat]
  /\ limit \in [Request -> Limits \cup {0}]
  /\ counted \in [Request -> BOOLEAN]
  /\ answer \in [Request -> {"none", "allowed", "refused", "unlimited"}]
  /\ found \in [Request -> Nat]
  /\ retry \in [Request -> Nat]

(* Nothing is known of a request before it is served, and the clock does not *)
(* go back.                                                                  *)
History ==
  /\ \A n \in Request : n > served => ~counted[n] /\ answer[n] = "none"
  /\ \A n \in Request : n <= served => at[n] <= now

(* Whatever the limiter counted since the key was last lost and is still in   *)
(* the window is in the set: expiry and cleaning take only what is out of it.  *)
SetCoversWindow ==
  \A m \in Request :
    (counted[m] /\ m > since /\ at[m] > now - Window) => m \in entries

IInv == Types /\ History /\ SetCoversWindow /\ WindowBound

-----------------------------------------------------------------------------
LEMMA RequestsAreFinite ==
  ASSUME NEW S \in SUBSET Request
  PROVE  IsFiniteSet(S) /\ Cardinality(S) \in Nat
<1>1. IsFiniteSet(1..NumRequests)
  BY RequestAssumption, FS_Interval
<1> QED
  BY <1>1, FS_Subset, FS_CardinalityType DEF Request

LEMMA KeptIsRequests ==
  ASSUME Types
  PROVE  Kept \subseteq Request /\ Kept \subseteq entries
<1>1. \A e \in entries : e \in Request
  BY RequestAssumption DEF Types, Request
<1> QED
  BY <1>1 DEF Kept

(* The set has an oldest entry unless it is empty.                           *)
LEMMA OldestExists ==
  ASSUME Types, NEW S \in SUBSET Request, S # {}
  PROVE  Oldest(S) \in S /\ \A f \in S : at[Oldest(S)] <= at[f]
<1> DEFINE Times == {at[e] : e \in S}
<1>1. Times \subseteq Nat /\ Times # {}
  BY DEF Types
<1>2. \E x \in Times : \A y \in Times : <<y, x>> \notin OpToRel(<, Nat)
  BY <1>1, NatLessThanWellFounded, WFMin
<1>3. PICK x \in Times : \A y \in Times : ~(y < x)
  BY <1>1, <1>2 DEF OpToRel
<1>4. PICK e \in S : at[e] = x
  BY <1>3
<1>5. \A f \in S : at[e] <= at[f]
  BY <1>1, <1>3, <1>4
<1> QED
  BY <1>4, <1>5 DEF Oldest

-----------------------------------------------------------------------------
(* What one request does to the invariant. *)

LEMMA InitIInv == Init => IInv
<1> SUFFICES ASSUME Init PROVE IInv
  OBVIOUS
<1>1. Types
  BY RequestAssumption DEF Init, Types
<1>2. History /\ SetCoversWindow /\ WindowBound
  BY DEF Init, History, SetCoversWindow, WindowBound
<1> QED
  BY <1>1, <1>2 DEF IInv

(* The windows of the requests served before are closed.                      *)
LEMMA EarlierWindows ==
  ASSUME IInv, NEW n \in Request, n = served + 1,
         counted' = counted \/ counted' = [counted EXCEPT ![n] = TRUE],
         at' = [at EXCEPT ![n] = now],
         NEW m \in Request, m <= served
  PROVE  InWindow(m)' = InWindow(m) /\ counted'[m] = counted[m]
<1> USE DEF IInv, Types
<1>1. served \in Nat /\ n \in Nat /\ m \in Nat
  BY RequestAssumption DEF Request
<1>2. ASSUME NEW k \in Request, k <= m
      PROVE  counted'[k] = counted[k] /\ at'[k] = at[k]
  <2>1. k \in Nat
    BY RequestAssumption DEF Request
  <2>2. k # n
    BY <1>1, <1>2, <2>1
  <2> QED
    BY <2>2
<1>3. m \in Request /\ m <= m
  BY <1>1
<1>4. InWindow(m)' = InWindow(m)
  BY <1>2, <1>3 DEF InWindow
<1> QED
  BY <1>2, <1>3, <1>4

(* Serving a request makes its record and no other.                           *)
LEMMA HistoryGrows ==
  ASSUME Types, History, NEW n \in Request, n = served + 1, served' = n,
         at' = [at EXCEPT ![n] = now], now' = now,
         \A m \in Request \ {n} : counted'[m] = counted[m] /\ answer'[m] = answer[m]
  PROVE  History'
<1>1. served \in Nat /\ now \in Nat /\ at \in [Request -> Nat]
  BY DEF Types
<1>2. \A m \in Request : m \in Nat
  BY RequestAssumption DEF Request
<1>3. ASSUME NEW m \in Request, m > served' PROVE ~counted'[m] /\ answer'[m] = "none"
  <2>1. m # n /\ m > served
    BY <1>1, <1>2, <1>3
  <2> QED
    BY <2>1 DEF History
<1>4. ASSUME NEW m \in Request, m <= served' PROVE at'[m] <= now'
  <2>1. CASE m = n
    BY <1>1, <2>1
  <2>2. CASE m # n
    BY <1>1, <1>2, <1>4, <2>2 DEF History
  <2> QED
    BY <2>1, <2>2
<1> QED
  BY <1>3, <1>4 DEF History

(* A request that is counted.                                                 *)
LEMMA CountingPreserves ==
  ASSUME IInv, NEW n \in Request, NEW l \in Limits, Serve(n, l), Allows(l),
         entries' = Kept \cup {n}, counted' = [counted EXCEPT ![n] = TRUE],
         UNCHANGED <<now, retry, since>>,
         answer' = [answer EXCEPT ![n] = "allowed"]
           \/ answer' = [answer EXCEPT ![n] = "unlimited"]
  PROVE  IInv'
<1> USE DEF IInv
<1>1. /\ n = served + 1 /\ served' = n
      /\ at' = [at EXCEPT ![n] = now] /\ limit' = [limit EXCEPT ![n] = l]
      /\ found' = [found EXCEPT ![n] = Cardinality(Kept)]
  BY DEF Serve
<1>2. /\ Kept \subseteq Request /\ Kept \subseteq entries
      /\ IsFiniteSet(Kept) /\ Cardinality(Kept) \in Nat
  BY KeptIsRequests, RequestsAreFinite
<1>3. n \in Nat /\ n <= NumRequests
  BY RequestAssumption DEF Request
<1>4. Types'
  <2>1. entries' \subseteq since' + 1..served'
    <3> SUFFICES ASSUME NEW e \in entries' PROVE e \in since' + 1..served'
      OBVIOUS
    <3>1. e \in entries \/ e = n
      BY <1>2
    <3>2. since \in Nat /\ served \in Nat /\ since <= served /\ since' = since
      BY RequestAssumption DEF Types
    <3>3. e \in entries => e \in since + 1..served
      BY DEF Types
    <3> QED
      BY <1>1, <3>1, <3>2, <3>3
  <2> QED
    BY <1>1, <1>2, <1>3, <2>1 DEF Types
<1>5. History'
  <2>1. \A m \in Request \ {n} : counted'[m] = counted[m] /\ answer'[m] = answer[m]
    BY DEF Types
  <2> QED
    BY <1>1, <2>1, HistoryGrows
<1>6. SetCoversWindow'
  BY <1>1, <1>3 DEF SetCoversWindow, Types, History, Kept, Request
<1>7. ASSUME \A m \in InWindow(n)' : m > since
      PROVE  Cardinality(InWindow(n)') <= l
  <2>1. ASSUME NEW m \in InWindow(n)', m # n PROVE m \in Kept
    <3>1. m \in Request /\ m <= n /\ counted[m] /\ at[m] > now - Window
      BY <1>1, <2>1 DEF InWindow, Types
    <3> QED
      BY <1>7, <2>1, <3>1 DEF SetCoversWindow, Kept
  <2>2. InWindow(n)' \subseteq Kept \cup {n}
    BY <2>1
  <2>3. /\ IsFiniteSet(Kept \cup {n})
        /\ Cardinality(Kept \cup {n}) <= Cardinality(Kept) + 1
        /\ Cardinality(Kept \cup {n}) \in Nat
    <3>1. /\ IsFiniteSet(Kept \cup {n})
          /\ \/ Cardinality(Kept \cup {n}) = Cardinality(Kept)
             \/ Cardinality(Kept \cup {n}) = Cardinality(Kept) + 1
      BY <1>2, FS_AddElement
    <3> QED
      BY <1>2, <3>1
  <2>4. /\ Cardinality(InWindow(n)') <= Cardinality(Kept \cup {n})
        /\ Cardinality(InWindow(n)') \in Nat
    BY <2>2, <2>3, FS_Subset, FS_CardinalityType
  <2>5. Cardinality(Kept) < l /\ l \in Nat
    BY LimitAssumption DEF Allows
  <2> QED
    BY <1>2, <2>3, <2>4, <2>5
<1>8. WindowBound'
  <2> SUFFICES ASSUME NEW m \in Request, counted'[m]
               PROVE  \/ Cardinality(InWindow(m)') <= limit'[m]
                      \/ \E k \in InWindow(m)' : k <= since'
    BY DEF WindowBound
  <2>1. CASE m = n
    <3>1. limit'[m] = l /\ since' = since
      BY <1>1, <2>1 DEF Types
    <3>2. \A k \in InWindow(n)' : k \in Nat
      BY DEF InWindow, Request
    <3>3. since \in Nat
      BY DEF Types
    <3> QED
      BY <1>7, <2>1, <3>1, <3>2, <3>3
  <2>2. CASE m # n
    <3>1. m <= served
      BY <1>1, <1>3, <1>5, <2>2 DEF History, Types, Request
    <3>2. InWindow(m)' = InWindow(m) /\ counted[m] /\ limit'[m] = limit[m]
      BY <1>1, <2>2, <3>1, EarlierWindows DEF Types
    <3> QED
      BY <3>2 DEF WindowBound
  <2> QED
    BY <2>1, <2>2
<1> QED
  BY <1>4, <1>5, <1>6, <1>8

(* A request that is not.                                                     *)
LEMMA RefusalPreserves ==
  ASSUME IInv, NEW n \in Request, NEW l \in Limits, Serve(n, l),
         entries' = Kept \/ entries' = entries,
         UNCHANGED <<now, counted, since>>,
         answer' = [answer EXCEPT ![n] = "refused"]
           \/ answer' = [answer EXCEPT ![n] = "unlimited"],
         retry' \in [Request -> Nat]
  PROVE  IInv'
<1> USE DEF IInv
<1>1. /\ n = served + 1 /\ served' = n
      /\ at' = [at EXCEPT ![n] = now] /\ limit' = [limit EXCEPT ![n] = l]
      /\ found' = [found EXCEPT ![n] = Cardinality(Kept)]
  BY DEF Serve
<1>2. /\ Kept \subseteq Request /\ Kept \subseteq entries
      /\ IsFiniteSet(Kept) /\ Cardinality(Kept) \in Nat
  BY KeptIsRequests, RequestsAreFinite
<1>3. n \in Nat /\ n <= NumRequests
  BY RequestAssumption DEF Request
<1>4. Types'
  <2>1. entries' \subseteq since' + 1..served'
    <3> SUFFICES ASSUME NEW e \in entries' PROVE e \in since' + 1..served'
      OBVIOUS
    <3>1. e \in entries \/ e = n
      BY <1>2
    <3>2. since \in Nat /\ served \in Nat /\ since <= served /\ since' = since
      BY RequestAssumption DEF Types
    <3>3. e \in entries => e \in since + 1..served
      BY DEF Types
    <3> QED
      BY <1>1, <3>1, <3>2, <3>3
  <2> QED
    BY <1>1, <1>2, <1>3, <2>1 DEF Types
<1>5. History'
  <2>1. \A m \in Request \ {n} : counted'[m] = counted[m] /\ answer'[m] = answer[m]
    BY DEF Types
  <2> QED
    BY <1>1, <2>1, HistoryGrows
<1>6. SetCoversWindow'
  BY <1>1, <1>3 DEF SetCoversWindow, Types, History, Kept, Request
<1>7. WindowBound'
  <2> SUFFICES ASSUME NEW m \in Request, counted'[m]
               PROVE  \/ Cardinality(InWindow(m)') <= limit'[m]
                      \/ \E k \in InWindow(m)' : k <= since'
    BY DEF WindowBound
  <2>1. m # n /\ m <= served
    BY <1>1, <1>3 DEF History, Types, Request
  <2>2. InWindow(m)' = InWindow(m) /\ counted[m] /\ limit'[m] = limit[m]
    BY <1>1, <2>1, EarlierWindows DEF Types
  <2> QED
    BY <2>2 DEF WindowBound
<1> QED
  BY <1>4, <1>5, <1>6, <1>7

(* A time to wait is a whole number of seconds.                               *)
LEMMA RoundedUp ==
  ASSUME NEW x \in Int
  PROVE  /\ (x + Second - 1) \div Second \in Int
         /\ ((x + Second - 1) \div Second) * Second >= x
<1>1. Second \in Nat \ {0}
  BY WindowAssumption
<1>2. x + Second - 1 \in Int
  BY <1>1
<1> DEFINE y == x + Second - 1
           q == y \div Second
           r == y % Second
<1>3. q \in Int /\ r \in 0..Second - 1 /\ y = Second * q + r
  BY <1>1, <1>2, Z3
<1> QED
  BY <1>1, <1>3

(* A refusal leaves the set with an oldest entry, and the client waits until   *)
(* that entry has left the window.                                            *)
LEMMA RefusalWaits ==
  ASSUME Types, NEW l \in Limits, ~Allows(l)
  PROVE  /\ Oldest(Kept) \in Kept
         /\ RetryAfter(Oldest(Kept)) \in Nat
         /\ now + RetryAfter(Oldest(Kept)) * Second - Window >= at[Oldest(Kept)]
<1>1. Kept \in SUBSET Request
  BY KeptIsRequests
<1>2. Cardinality(Kept) \in Nat /\ Cardinality(Kept) >= l /\ l \in Nat \ {0}
  BY <1>1, RequestsAreFinite, LimitAssumption DEF Allows
<1>3. Kept # {}
  BY <1>2, FS_EmptySet
<1>4. Oldest(Kept) \in Kept
  BY <1>1, <1>3, OldestExists
<1> DEFINE x == at[Oldest(Kept)] + Window - now
           q == (x + Second - 1) \div Second
<1>5. /\ at[Oldest(Kept)] \in Nat /\ now \in Nat /\ Window \in Nat
      /\ Second \in Nat /\ Second > 0 /\ x \in Int
  BY <1>1, <1>4, WindowAssumption DEF Types
<1>6. q \in Int /\ q * Second >= x
  BY <1>5, RoundedUp
<1>7. RetryAfter(Oldest(Kept)) = IF q > 0 THEN q ELSE 1
  BY DEF RetryAfter
<1> HIDE DEF q
<1>8. CASE q > 0
  BY <1>4, <1>5, <1>6, <1>7, <1>8
<1>9. CASE ~(q > 0)
  <2>1. q * Second <= 0
    BY <1>5, <1>6, <1>9
  <2>2. x <= 0
    BY <1>5, <1>6, <2>1
  <2> QED
    BY <1>4, <1>5, <1>7, <1>9, <2>2
<1> QED
  BY <1>8, <1>9

-----------------------------------------------------------------------------
(* Every step keeps the window. *)

LEMMA NextIInv == IInv /\ [Next]_vars => IInv'
<1> SUFFICES ASSUME IInv, [Next]_vars PROVE IInv'
  OBVIOUS
<1>1. Types /\ now \in Nat /\ served \in Nat /\ since \in Nat /\ at \in [Request -> Nat]
  BY RequestAssumption DEF IInv, Types
<1>2. ASSUME UNCHANGED request, UNCHANGED served, Types', since' >= since,
             since' \in Nat, now' >= now, now' \in Nat,
             SetCoversWindow'
      PROVE  IInv'
  <2>1. History'
    <3>1. \A n \in Request : at[n] <= now => at[n] <= now'
      BY <1>1, <1>2
    <3> QED
      BY <1>2, <3>1 DEF IInv, History, request
  <2>2. WindowBound'
    <3> SUFFICES ASSUME NEW n \in Request, counted[n]
                 PROVE  \/ Cardinality(InWindow(n)) <= limit[n]
                        \/ \E m \in InWindow(n) : m <= since'
      BY <1>2 DEF WindowBound, InWindow, request
    <3>1. CASE Cardinality(InWindow(n)) <= limit[n]
      BY <3>1
    <3>2. ASSUME NEW m \in InWindow(n), m <= since PROVE m <= since'
      BY <1>1, <1>2, <3>2, RequestAssumption DEF InWindow, Request
    <3> QED
      BY <3>1, <3>2 DEF IInv, WindowBound
  <2> QED
    BY <1>2, <2>1, <2>2 DEF IInv
<1>3. CASE Tick
  <2>1. now' = now + 1 /\ UNCHANGED <<served, entries, request, since>>
    BY <1>3 DEF Tick
  <2>2. Types'
    BY <1>1, <2>1 DEF Types, request
  <2>3. SetCoversWindow'
    BY <1>1, <2>1, WindowAssumption DEF IInv, SetCoversWindow, request
  <2> QED
    BY <1>1, <1>2, <2>1, <2>2, <2>3
<1>4. CASE Expire
  <2>1. /\ entries' = {} /\ UNCHANGED <<now, served, request, since>>
        /\ \A e \in entries : now >= at[e] + Window
    BY <1>4 DEF Expire, Lasts
  <2>2. Types'
    BY <1>1, <2>1 DEF Types, request
  <2>3. ASSUME NEW m \in Request, counted[m], m > since, at[m] > now - Window
        PROVE  FALSE
    <3>1. m \in entries
      BY <2>3 DEF IInv, SetCoversWindow
    <3>2. now >= at[m] + Window /\ at[m] \in Nat /\ Window \in Nat
      BY <1>1, <2>1, <3>1, WindowAssumption
    <3> QED
      BY <1>1, <2>3, <3>2
  <2>4. SetCoversWindow'
    BY <2>1, <2>3 DEF SetCoversWindow, request
  <2> QED
    BY <1>1, <1>2, <2>1, <2>2, <2>4
<1>5. CASE Forget
  <2>1. /\ entries' = {} /\ since' = served /\ UNCHANGED <<now, served, request>>
    BY <1>5 DEF Forget
  <2>2. Types'
    BY <1>1, <2>1 DEF Types, request
  <2>3. SetCoversWindow'
    BY <2>1 DEF IInv, History, SetCoversWindow, request
  <2>4. since' >= since
    BY <2>1, RequestAssumption DEF IInv, Types
  <2> QED
    BY <1>1, <1>2, <2>1, <2>2, <2>3, <2>4
<1>6. ASSUME NEW n \in Request, NEW l \in Limits, Allow(n, l) PROVE IInv'
  BY <1>6, CountingPreserves DEF Allow
<1>7. ASSUME NEW n \in Request, NEW l \in Limits, Refuse(n, l) PROVE IInv'
  <2>1. retry' \in [Request -> Nat]
    BY <1>1, <1>7, RefusalWaits DEF Refuse, Types
  <2> QED
    BY <1>7, <2>1, RefusalPreserves DEF Refuse
<1>8. ASSUME NEW n \in Request, NEW l \in Limits, FailOpen(n, l) PROVE IInv'
  <2>1. Serve(n, l) /\ answer' = [answer EXCEPT ![n] = "unlimited"]
        /\ UNCHANGED <<now, retry, since>> /\ retry' \in [Request -> Nat]
    BY <1>1, <1>8 DEF FailOpen, Types
  <2>2. CASE UNCHANGED <<entries, counted>>
    BY <2>1, <2>2, RefusalPreserves
  <2>3. CASE /\ Allows(l) /\ entries' = Kept \cup {n}
             /\ counted' = [counted EXCEPT ![n] = TRUE]
    BY <2>1, <2>3, CountingPreserves
  <2>4. CASE ~Allows(l) /\ entries' = Kept /\ UNCHANGED counted
    BY <2>1, <2>4, RefusalPreserves
  <2> QED
    BY <1>8, <2>2, <2>3, <2>4 DEF FailOpen
<1>9. CASE UNCHANGED vars
  <2>1. Types' /\ SetCoversWindow'
    BY <1>9 DEF IInv, Types, SetCoversWindow, vars
  <2> QED
    BY <1>1, <1>2, <1>9, <2>1 DEF vars, request
<1> QED
  BY <1>3, <1>4, <1>5, <1>6, <1>7, <1>8, <1>9 DEF Next

(* The window holds whatever the limits of the tokens, with lost replies and   *)
(* expiries; only a loss of the key forgets (rate_limiter.py:34-40).           *)
THEOREM WindowHolds == Spec => []WindowBound
<1>1. Spec => []IInv
  BY InitIInv, NextIInv, PTL DEF Spec
<1> QED
  BY <1>1, PTL DEF IInv

-----------------------------------------------------------------------------
(* The set implements the log. *)

\* Only what was counted is in the set.
EntriesCounted == \A e \in entries : counted[e]

\* So what cleaning leaves is the log's window.
LEMMA KeptIsRecent ==
  ASSUME IInv, EntriesCounted
  PROVE  Kept = Ideal!Recent
<1> USE DEF IInv, Types
<1>1. ASSUME NEW e \in Kept PROVE e \in Ideal!Recent
  <2>1. e \in Request /\ e \in entries /\ at[e] > now - Window
    BY <1>1, KeptIsRequests DEF Kept
  <2>2. e \in since + 1..served /\ since \in Nat
    BY <2>1, RequestAssumption
  <2>3. e \in Log
    BY <2>1, <2>2 DEF Log, EntriesCounted
  <2> QED BY <2>1, <2>3 DEF Ideal!Recent
<1>2. ASSUME NEW e \in Ideal!Recent PROVE e \in Kept
  BY <1>2 DEF Ideal!Recent, Log, SetCoversWindow, Kept
<1> QED BY <1>1, <1>2

LEMMA NextEntriesCounted == IInv /\ EntriesCounted /\ [Next]_vars => EntriesCounted'
<1> SUFFICES ASSUME IInv, EntriesCounted, [Next]_vars PROVE EntriesCounted'
  OBVIOUS
<1>1. /\ \A e \in entries : e \in Request /\ counted[e]
      /\ counted \in [Request -> BOOLEAN]
      /\ Kept \subseteq entries
  BY KeptIsRequests, RequestAssumption DEF IInv, Types, EntriesCounted, Request
<1>2. CASE entries' \subseteq entries /\ UNCHANGED counted
  BY <1>1, <1>2 DEF EntriesCounted
<1>3. ASSUME NEW n \in Request, entries' = Kept \cup {n}, counted' = [counted EXCEPT ![n] = TRUE]
      PROVE  EntriesCounted'
  BY <1>1, <1>3 DEF EntriesCounted
<1>4. ASSUME NEW n \in Request, NEW l \in Limits, Allow(n, l) \/ Refuse(n, l) \/ FailOpen(n, l)
      PROVE  \/ entries' \subseteq entries /\ UNCHANGED counted
             \/ entries' = Kept \cup {n} /\ counted' = [counted EXCEPT ![n] = TRUE]
  BY <1>1, <1>4 DEF Allow, Refuse, FailOpen
<1>5. CASE Tick \/ Expire \/ Forget \/ UNCHANGED vars
  BY <1>2, <1>5 DEF Tick, Expire, Forget, vars, request
<1> QED BY <1>2, <1>3, <1>4, <1>5 DEF Next

\* A request that is served has not been judged before.
LEMMA ServedIsJudged ==
  ASSUME IInv, NEW n \in Request, NEW l \in Limits, Serve(n, l), NEW v,
         answer' = [answer EXCEPT ![n] = v], now' = now
  PROVE  Ideal!Judge(n, v)
<1>1. n > served
  BY RequestAssumption DEF Serve, IInv, Types
<1>2. answer[n] = "none"
  BY <1>1 DEF IInv, History
<1> QED BY <1>2 DEF Serve, Ideal!Judge

\* The log of a request that is counted, and of one that is not
LEMMA CountedIsLogged ==
  ASSUME IInv, NEW n \in Request, NEW l \in Limits, Serve(n, l), since' = since,
         counted' = [counted EXCEPT ![n] = TRUE]
  PROVE  Log' = Log \cup {n}
<1>1. n > since /\ counted \in [Request -> BOOLEAN]
  BY RequestAssumption DEF Serve, IInv, Types
<1> QED BY <1>1 DEF Log

LEMMA UncountedIsNot ==
  ASSUME UNCHANGED <<counted, since>>
  PROVE  Log' = Log
BY DEF Log

\* The limiter's comparison is the log's.
LEMMA SameVerdict ==
  ASSUME IInv, EntriesCounted, NEW l \in Limits
  PROVE  Allows(l) <=> ~Ideal!Full(l)
<1>1. Cardinality(Kept) \in Nat /\ l \in Nat
  BY KeptIsRequests, RequestsAreFinite, LimitAssumption DEF IInv
<1>2. Kept = Ideal!Recent
  BY KeptIsRecent
<1>3. Ideal!Full(l) <=> Cardinality(Kept) >= l
  BY <1>2, Zenon DEF Ideal!Full, Ideal!Cardinality, Cardinality
<1>4. Allows(l) <=> Cardinality(Kept) < l
  BY DEF Allows
<1> QED BY <1>1, <1>3, <1>4

LEMMA StepIsIdeal == IInv /\ EntriesCounted /\ [Next]_vars => [Ideal!Next]_(Ideal!vars)
<1> SUFFICES ASSUME IInv, EntriesCounted, [Next]_vars PROVE [Ideal!Next]_(Ideal!vars)
  OBVIOUS
<1>1. CASE Tick
  <2>1. now' = now + 1 /\ UNCHANGED <<at, answer, counted, since>>
    BY <1>1 DEF Tick, request
  <2>2. Ideal!Tick
    BY <2>1, UncountedIsNot DEF Ideal!Tick
  <2> QED BY <2>2 DEF Ideal!Next
<1>2. CASE Expire \/ UNCHANGED vars
  <2>1. UNCHANGED <<now, at, answer, counted, since>>
    BY <1>2 DEF Expire, request, vars
  <2> QED BY <2>1, UncountedIsNot DEF Ideal!vars
<1>3. CASE Forget
  <2>1. since' = served /\ UNCHANGED <<now, at, answer, counted>>
    BY <1>3 DEF Forget, request
  <2>2. Log' = {}
    BY <2>1 DEF Log, IInv, History
  <2>3. Ideal!Lose
    BY <2>1, <2>2 DEF Ideal!Lose
  <2> QED BY <2>3 DEF Ideal!Next
<1>4. ASSUME NEW n \in Request, NEW l \in Limits, Allow(n, l) PROVE Ideal!Next
  <2>1. Ideal!Judge(n, "allowed")
    BY <1>4, ServedIsJudged DEF Allow
  <2>2. ~Ideal!Full(l) /\ Log' = Log \cup {n}
    BY <1>4, SameVerdict, CountedIsLogged DEF Allow
  <2>3. Ideal!Admit(n, l)
    BY <2>1, <2>2 DEF Ideal!Admit
  <2> QED BY <2>3 DEF Ideal!Next
<1>5. ASSUME NEW n \in Request, NEW l \in Limits, Refuse(n, l) PROVE Ideal!Next
  <2>1. Ideal!Judge(n, "refused")
    BY <1>5, ServedIsJudged DEF Refuse
  <2>2. Ideal!Full(l) /\ Log' = Log
    BY <1>5, SameVerdict, UncountedIsNot DEF Refuse
  <2>3. Ideal!Refuse(n, l)
    BY <2>1, <2>2 DEF Ideal!Refuse
  <2> QED BY <2>3 DEF Ideal!Next
<1>6. ASSUME NEW n \in Request, NEW l \in Limits, FailOpen(n, l) PROVE Ideal!Next
  <2>1. Ideal!Judge(n, "unlimited")
    BY <1>6, ServedIsJudged DEF FailOpen
  <2>2. Log' = Log \/ (~Ideal!Full(l) /\ Log' = Log \cup {n})
    <3>1. CASE UNCHANGED counted
      BY <1>6, <3>1, UncountedIsNot DEF FailOpen
    <3>2. CASE Allows(l) /\ counted' = [counted EXCEPT ![n] = TRUE]
      BY <1>6, <3>2, SameVerdict, CountedIsLogged DEF FailOpen
    <3> QED BY <1>6, <3>1, <3>2 DEF FailOpen
  <2>3. Ideal!Pass(n, l)
    BY <2>1, <2>2 DEF Ideal!Pass
  <2> QED BY <2>3 DEF Ideal!Next
<1> QED BY <1>1, <1>2, <1>3, <1>4, <1>5, <1>6 DEF Next

(* The limiter implements SlidingWindow: the sorted set, its cleaning and its   *)
(* expiry judge every request as a log of all that was counted would           *)
(* (rate_limiter.py:26-46, 158-188).                                            *)
THEOREM LimiterImplementsWindow == Spec => ImplementsWindow
<1>1. Init => EntriesCounted /\ Ideal!Init
  BY DEF Init, EntriesCounted, Log, Ideal!Init
<1>2. Spec => [](IInv /\ EntriesCounted)
  BY <1>1, InitIInv, NextIInv, NextEntriesCounted, PTL DEF Spec
<1>3. Spec => Ideal!Spec
  BY <1>1, <1>2, StepIsIdeal, PTL DEF Spec, Ideal!Spec
<1> QED BY <1>3 DEF ImplementsWindow

-----------------------------------------------------------------------------
(* How long Retry-After is. *)

\* Nobody is sent away for longer than a window.
RetryBound == \A n \in Request : retry[n] <= Window \div Second

\* Dividing and rounding up does not leave a window that is whole seconds.
LEMMA RoundedWithin ==
  ASSUME NEW x \in Int, x <= Window
  PROVE  /\ (x + Second - 1) \div Second <= Window \div Second
         /\ Window \div Second \in Nat \ {0}
<1> DEFINE k == Window \div Second
           q == (x + Second - 1) \div Second
<1>1. Second \in Nat \ {0} /\ Window \in Nat \ {0}
  BY WindowAssumption
<1>2. k \in Int /\ Window = Second * k
  BY <1>1, WindowAssumption, Z3
<1>3. k >= 1
  <2>1. CASE k <= 0
    <3>1. Second * k <= 0
      BY <1>1, <1>2, <2>1
    <3> QED BY <1>1, <1>2, <3>1
  <2> QED BY <1>2, <2>1
<1>4. q \in Int /\ Second * q <= x + Second - 1
  BY <1>1, Z3
<1> HIDE DEF k, q
<1>5. q <= k
  <2>1. CASE q >= k + 1
    <3>1. Second * q >= Second * (k + 1)
      BY <1>1, <1>2, <1>4, <2>1
    <3>2. Second * (k + 1) = Window + Second
      BY <1>1, <1>2
    <3> QED BY <1>1, <1>4, <3>1, <3>2
  <2> QED BY <1>2, <1>4, <2>1
<1> QED BY <1>2, <1>3, <1>5 DEF k, q

\* The oldest entry entered the set in the past.
LEMMA RetryWithin ==
  ASSUME IInv, NEW l \in Limits, ~Allows(l)
  PROVE  RetryAfter(Oldest(Kept)) <= Window \div Second
<1> DEFINE o == Oldest(Kept)
           x == at[o] + Window - now
<1>1. o \in Kept
  BY RefusalWaits DEF IInv
<1>2. o \in Request /\ o <= served
  <2>1. Types
    BY DEF IInv
  <2>2. o \in Request /\ o \in entries
    BY <1>1, <2>1, KeptIsRequests
  <2> HIDE DEF o
  <2> QED BY <2>1, <2>2 DEF Types
<1>3. at[o] \in Nat /\ now \in Nat /\ at[o] <= now /\ Window \in Nat
  BY <1>2, WindowAssumption DEF IInv, Types, History
<1>4. x \in Int /\ x <= Window
  BY <1>3
<1>5. RetryAfter(o) = IF (x + Second - 1) \div Second > 0 THEN (x + Second - 1) \div Second ELSE 1
  BY DEF RetryAfter
<1> HIDE DEF x
<1> QED BY <1>4, <1>5, RoundedWithin

LEMMA NextRetryBound == IInv /\ RetryBound /\ [Next]_vars => RetryBound'
<1> SUFFICES ASSUME IInv, RetryBound, [Next]_vars PROVE RetryBound'
  OBVIOUS
<1>1. ASSUME NEW n \in Request, NEW l \in Limits, Refuse(n, l) PROVE RetryBound'
  BY <1>1, RetryWithin DEF Refuse, RetryBound, IInv, Types
<1>2. CASE UNCHANGED retry
  BY <1>2 DEF RetryBound
<1>3. (\E n \in Request, l \in Limits : Refuse(n, l)) \/ UNCHANGED retry
  BY DEF Next, Tick, Expire, Forget, Allow, FailOpen, vars, request
<1> QED BY <1>1, <1>2, <1>3

(* Types, and with them that Retry-After is between nothing and the window's      *)
(* seconds, rounding included (rate_limiter.py:43-45).                             *)
THEOREM LimiterTypes == Spec => []TypeOK
<1>1. Init => RetryBound
  BY RoundedWithin, WindowAssumption DEF Init, RetryBound
<1>2. IInv /\ RetryBound => TypeOK
  BY RoundedWithin, WindowAssumption DEF IInv, Types, RetryBound, TypeOK
<1> QED
  BY <1>1, <1>2, InitIInv, NextIInv, NextRetryBound, PTL DEF Spec

-----------------------------------------------------------------------------
(* What Retry-After promises. *)

Uncounted(r) == \A m \in Request : r <= m /\ m <= served => ~counted[m]
Remain(r) == {e \in entries : at[e] > at[r] + retry[r] * Second - Window}

(* Until somebody is counted, fewer requests than the refused one found will   *)
(* be in the window when its client may come back.                             *)
OneWillHaveLeft ==
  \A r \in Request : answer[r] = "refused" =>
    /\ r <= served
    /\ Uncounted(r) => Cardinality(Remain(r)) < found[r]

RInv == IInv /\ OneWillHaveLeft /\ RetryAfterHonest

LEMMA EntriesAreFinite ==
  ASSUME Types
  PROVE  /\ entries \subseteq Request
         /\ \A S \in SUBSET entries : S \in SUBSET Request
         /\ IsFiniteSet(entries)
<1>1. entries \subseteq Request
  BY RequestAssumption DEF Types, Request
<1> QED
  BY <1>1, RequestsAreFinite

LEMMA InitRInv == Init => RInv
<1> SUFFICES ASSUME Init PROVE RInv
  OBVIOUS
<1>1. OneWillHaveLeft /\ RetryAfterHonest
  BY DEF Init, OneWillHaveLeft, RetryAfterHonest
<1> QED
  BY <1>1, InitIInv DEF RInv

(* A step that serves nobody, and adds nothing to the set.                     *)
LEMMA QuietKeepsPromise ==
  ASSUME RInv, UNCHANGED request, UNCHANGED served, entries' \subseteq entries
  PROVE  OneWillHaveLeft' /\ RetryAfterHonest'
<1>1. RetryAfterHonest'
  BY DEF RInv, RetryAfterHonest, request
<1>2. ASSUME NEW r \in Request, answer[r] = "refused", Uncounted(r)
      PROVE  Cardinality(Remain(r)') < found[r]
  <2>1. Remain(r)' \subseteq Remain(r) /\ Remain(r) \in SUBSET entries
    BY DEF Remain, request
  <2>2. Remain(r) \in SUBSET Request /\ Remain(r)' \in SUBSET Request
    BY <2>1, EntriesAreFinite DEF RInv, IInv
  <2>3. /\ IsFiniteSet(Remain(r)) /\ Cardinality(Remain(r)) \in Nat
        /\ Cardinality(Remain(r)') \in Nat
    BY <2>2, RequestsAreFinite
  <2>4. Cardinality(Remain(r)') <= Cardinality(Remain(r))
    BY <2>1, <2>3, FS_Subset
  <2>5. Cardinality(Remain(r)) < found[r] /\ found[r] \in Nat
    BY <1>2 DEF RInv, IInv, Types, OneWillHaveLeft
  <2> QED
    BY <2>3, <2>4, <2>5
<1>3. OneWillHaveLeft'
  BY <1>2 DEF RInv, OneWillHaveLeft, Uncounted, request
<1> QED
  BY <1>1, <1>3

(* A step that serves a request: it is counted, or the set does not grow.       *)
LEMMA ServingKeepsPromise ==
  ASSUME RInv, NEW n \in Request, NEW l \in Limits, Serve(n, l), now' = now,
         \/ counted' = [counted EXCEPT ![n] = TRUE]
         \/ entries' \subseteq entries /\ counted' = counted,
         \/ /\ answer' = [answer EXCEPT ![n] = "refused"]
            /\ retry' = [retry EXCEPT ![n] = RetryAfter(Oldest(Kept))]
            /\ ~Allows(l) /\ entries' = Kept
         \/ /\ \/ answer' = [answer EXCEPT ![n] = "allowed"]
               \/ answer' = [answer EXCEPT ![n] = "unlimited"]
            /\ retry' = retry
  PROVE  OneWillHaveLeft' /\ RetryAfterHonest'
<1>1. Types /\ History /\ OneWillHaveLeft
  BY DEF RInv, IInv
<1>2. /\ n = served + 1 /\ served' = n
      /\ at' = [at EXCEPT ![n] = now] /\ limit' = [limit EXCEPT ![n] = l]
      /\ found' = [found EXCEPT ![n] = Cardinality(Kept)]
  BY DEF Serve
<1>3. /\ served \in Nat /\ now \in Nat /\ n \in Nat /\ l \in Nat /\ Window \in Nat
      /\ Second \in Nat /\ \A m \in Request : m \in Nat
  BY <1>1, RequestAssumption, LimitAssumption, WindowAssumption DEF Types, Request
<1>4. /\ at \in [Request -> Nat] /\ retry \in [Request -> Nat]
      /\ found \in [Request -> Nat] /\ counted \in [Request -> BOOLEAN]
      /\ answer \in [Request -> {"none", "allowed", "refused", "unlimited"}]
      /\ limit \in [Request -> Limits \cup {0}]
  BY <1>1 DEF Types
<1>5. \A m \in Request \ {n} :
        /\ at'[m] = at[m] /\ limit'[m] = limit[m] /\ found'[m] = found[m]
        /\ counted'[m] = counted[m] /\ answer'[m] = answer[m] /\ retry'[m] = retry[m]
  BY <1>2, <1>4
<1>6. ASSUME NEW r \in Request, r # n, answer[r] = "refused"
      PROVE  /\ r <= served
             /\ Uncounted(r)' => Uncounted(r) /\ ~counted'[n]
  <2>1. r <= served
    BY <1>1, <1>6 DEF OneWillHaveLeft
  <2>2. ASSUME Uncounted(r)' PROVE Uncounted(r) /\ ~counted'[n]
    <3>1. ~counted'[n]
      BY <1>2, <1>3, <2>1, <2>2 DEF Uncounted
    <3>2. ASSUME NEW m \in Request, r <= m, m <= served PROVE ~counted[m]
      <4>1. m # n /\ m <= served'
        BY <1>2, <1>3, <3>2
      <4> QED
        BY <1>5, <2>2, <3>2, <4>1 DEF Uncounted
    <3> QED
      BY <3>1, <3>2 DEF Uncounted
  <2> QED
    BY <2>1, <2>2
<1>7. OneWillHaveLeft'
  <2> SUFFICES ASSUME NEW r \in Request, answer'[r] = "refused"
               PROVE  /\ r <= served'
                      /\ Uncounted(r)' => Cardinality(Remain(r)') < found'[r]
    BY DEF OneWillHaveLeft
  <2>1. CASE r = n
    <3>1. /\ ~Allows(l) /\ entries' = Kept
          /\ retry'[n] = RetryAfter(Oldest(Kept)) /\ at'[n] = now
          /\ found'[n] = Cardinality(Kept)
      BY <1>2, <1>4, <2>1
    <3>2. /\ Oldest(Kept) \in Kept
          /\ now + retry'[n] * Second - Window >= at[Oldest(Kept)]
          /\ retry'[n] \in Nat
      BY <1>1, <3>1, RefusalWaits
    <3>3. /\ Kept \in SUBSET Request /\ Kept \in SUBSET entries
          /\ IsFiniteSet(Kept) /\ Cardinality(Kept) \in Nat
      BY <1>1, KeptIsRequests, RequestsAreFinite
    <3>4. \A e \in entries : at'[e] = at[e]
      <4>1. \A e \in entries : e \in Request /\ e <= served
        BY <1>1, RequestAssumption, EntriesAreFinite DEF Types
      <4> QED
        BY <1>2, <1>3, <1>5, <4>1
    <3>5. Remain(n)' \subseteq Kept \ {Oldest(Kept)}
      <4>1. ASSUME NEW e \in Remain(n)' PROVE e \in Kept /\ e # Oldest(Kept)
        <5>1. e \in Kept /\ at'[e] > now + retry'[n] * Second - Window
          BY <3>1, <4>1 DEF Remain
        <5>2. at'[e] = at[e] /\ at[e] \in Nat /\ at[Oldest(Kept)] \in Nat
          BY <1>4, <3>2, <3>3, <3>4, <5>1
        <5> QED
          BY <1>3, <3>2, <5>1, <5>2
      <4> QED
        BY <4>1
    <3>6. Cardinality(Kept \ {Oldest(Kept)}) = Cardinality(Kept) - 1
          /\ IsFiniteSet(Kept \ {Oldest(Kept)})
      BY <3>2, <3>3, FS_RemoveElement
    <3>7. Cardinality(Remain(n)') <= Cardinality(Kept) - 1
          /\ Cardinality(Remain(n)') \in Nat
      BY <3>5, <3>6, FS_Subset, FS_CardinalityType
    <3> QED
      BY <1>2, <1>3, <2>1, <3>1, <3>3, <3>7
  <2>2. CASE r # n
    <3>1. answer[r] = "refused" /\ found'[r] = found[r] /\ found[r] \in Nat
      BY <1>4, <1>5, <2>2
    <3>2. r <= served /\ (Uncounted(r)' => Uncounted(r) /\ ~counted'[n])
      BY <1>6, <2>2, <3>1
    <3>3. ASSUME Uncounted(r)' PROVE Cardinality(Remain(r)') < found'[r]
      <4>1. entries' \subseteq entries
        BY <1>4, <3>2, <3>3
      <4>2. \A e \in entries : e \in Request /\ e # n
        BY <1>1, <1>2, <1>3, EntriesAreFinite, RequestAssumption DEF Types
      <4>3. Remain(r)' \subseteq Remain(r)
        BY <1>5, <2>2, <4>1, <4>2 DEF Remain
      <4>4. Remain(r) \in SUBSET Request /\ Remain(r)' \in SUBSET Request
        BY <4>2, <4>3 DEF Remain
      <4>5. /\ IsFiniteSet(Remain(r)) /\ Cardinality(Remain(r)) \in Nat
            /\ Cardinality(Remain(r)') \in Nat
        BY <4>4, RequestsAreFinite
      <4>6. Cardinality(Remain(r)') <= Cardinality(Remain(r))
        BY <4>3, <4>5, FS_Subset
      <4>7. Cardinality(Remain(r)) < found[r]
        BY <1>1, <3>1, <3>2, <3>3 DEF OneWillHaveLeft
      <4> QED
        BY <3>1, <4>5, <4>6, <4>7
    <3> QED
      BY <1>2, <1>3, <3>2, <3>3
  <2> QED
    BY <2>1, <2>2
<1>8. RetryAfterHonest'
  <2> SUFFICES ASSUME NEW r \in Request, NEW k \in Request, r < k,
                      answer'[r] = "refused", found'[r] = limit'[r],
                      at'[k] >= at'[r] + retry'[r] * Second, limit'[k] >= limit'[r],
                      \A m \in r..k - 1 : ~counted'[m], answer'[k] = "refused"
               PROVE  FALSE
    BY DEF RetryAfterHonest
  <2>1. CASE k # n
    <3>1. answer[k] = "refused" /\ k <= served
      BY <1>1, <1>5, <2>1 DEF OneWillHaveLeft
    <3>2. r # n /\ \A m \in r..k - 1 : m # n /\ m \in Request
      BY <1>2, <1>3, <3>1, RequestAssumption DEF Request
    <3>3. /\ answer[r] = "refused" /\ found[r] = limit[r]
          /\ at[k] >= at[r] + retry[r] * Second /\ limit[k] >= limit[r]
          /\ \A m \in r..k - 1 : ~counted[m]
      BY <1>5, <2>1, <3>2
    <3> QED
      BY <3>1, <3>3 DEF RInv, RetryAfterHonest
  <2>2. CASE k = n
    <3>1. r # n /\ r \in Nat
      BY <1>3, <2>2
    <3>2. /\ answer[r] = "refused" /\ found[r] = limit[r] /\ found[r] \in Nat
          /\ at'[r] = at[r] /\ retry'[r] = retry[r] /\ limit'[r] = limit[r]
      BY <1>4, <1>5, <3>1
    <3>3. /\ at'[n] = now /\ limit'[n] = l /\ now >= at[r] + retry[r] * Second
          /\ l >= found[r]
      BY <1>2, <1>4, <2>2, <3>2
    <3>4. ~Allows(l)
      BY <1>4, <2>2
    <3>5. Uncounted(r)
      <4>1. ASSUME NEW m \in Request, r <= m, m <= served PROVE ~counted[m]
        <5>1. m \in r..k - 1 /\ m # n
          BY <1>2, <1>3, <2>2, <4>1
        <5> QED
          BY <1>5, <5>1
      <4> QED
        BY <4>1 DEF Uncounted
    <3>6. Cardinality(Remain(r)) < found[r]
      BY <1>1, <3>2, <3>5 DEF OneWillHaveLeft
    <3>7. Kept \subseteq Remain(r)
      <4>1. ASSUME NEW e \in Kept PROVE at[e] > at[r] + retry[r] * Second - Window
        <5>1. /\ e \in entries /\ at[e] > now - Window /\ at[e] \in Nat
              /\ at[r] \in Nat /\ retry[r] \in Nat
          BY <1>1, <1>4, <4>1, EntriesAreFinite DEF Kept
        <5> QED
          BY <1>3, <3>3, <5>1
      <4> QED
        BY <4>1 DEF Kept, Remain
    <3>8. Remain(r) \in SUBSET Request /\ Kept \in SUBSET Request
      BY <1>1, EntriesAreFinite, KeptIsRequests DEF Remain
    <3>9. /\ IsFiniteSet(Remain(r)) /\ Cardinality(Remain(r)) \in Nat
          /\ Cardinality(Kept) \in Nat
      BY <3>8, RequestsAreFinite
    <3>10. Cardinality(Kept) <= Cardinality(Remain(r))
      BY <3>7, <3>9, FS_Subset
    <3> QED
      BY <1>3, <3>2, <3>3, <3>4, <3>6, <3>9, <3>10 DEF Allows
  <2> QED
    BY <2>1, <2>2
<1> QED
  BY <1>7, <1>8

LEMMA NextRInv == RInv /\ [Next]_vars => RInv'
<1> SUFFICES ASSUME RInv, [Next]_vars PROVE RInv'
  OBVIOUS
<1>1. IInv' /\ Types
  BY NextIInv DEF RInv, IInv
<1>2. CASE Tick \/ Expire \/ Forget \/ UNCHANGED vars
  <2>1. UNCHANGED request /\ UNCHANGED served /\ entries' \subseteq entries
    BY <1>2 DEF Tick, Expire, Forget, vars, request
  <2> QED
    BY <1>1, <2>1, QuietKeepsPromise DEF RInv
<1>3. ASSUME NEW n \in Request, NEW l \in Limits, Allow(n, l) PROVE RInv'
  BY <1>1, <1>3, ServingKeepsPromise DEF Allow, RInv
<1>4. ASSUME NEW n \in Request, NEW l \in Limits, Refuse(n, l) PROVE RInv'
  BY <1>1, <1>4, ServingKeepsPromise, KeptIsRequests DEF Refuse, RInv
<1>5. ASSUME NEW n \in Request, NEW l \in Limits, FailOpen(n, l) PROVE RInv'
  <2>1. /\ Serve(n, l) /\ now' = now /\ retry' = retry
        /\ answer' = [answer EXCEPT ![n] = "unlimited"]
        /\ \/ counted' = [counted EXCEPT ![n] = TRUE]
           \/ entries' \subseteq entries /\ counted' = counted
    BY <1>1, <1>5, KeptIsRequests DEF FailOpen
  <2> QED
    BY <1>1, <2>1, ServingKeepsPromise DEF RInv
<1> QED
  BY <1>2, <1>3, <1>4, <1>5 DEF Next

(* A refused client that waits as long as it was told, and comes back with a   *)
(* plan at least as good before anybody else is counted, is not refused again   *)
(* (rate_limiter.py:43-45): for any rounding of seconds and any loss of keys.   *)
THEOREM RetryAfterHolds == Spec => []RetryAfterHonest
<1>1. Spec => []RInv
  BY InitRInv, NextRInv, PTL DEF Spec
<1> QED
  BY <1>1, PTL DEF RInv

-----------------------------------------------------------------------------
(* The walk over a list. *)

(* The walk is described by its cursor alone: of the rows nobody touched it   *)
(* has returned those that the cursor leaves behind, and at its end all.      *)
Passed(i) == ended \/ ~Matches(i)
ReturnedIfPassed == \A i \in Steady : times[i] = IF Passed(i) THEN 1 ELSE 0

\* Of WalkTypeOK, what the order of the rows needs
WalkTypes ==
  /\ value \in [Id -> Nat]
  /\ seek \in [value : Nat, id : Nat]
  /\ times \in [Id -> 0..2]
  /\ ended \in BOOLEAN

WalkInv == ~Ascending /\ WalkTypeOK /\ WalkTypes /\ ReturnedIfPassed

-----------------------------------------------------------------------------
(* The order of the rows. *)

LEMMA PageIsFinite ==
  ASSUME NEW S \in SUBSET Id
  PROVE  IsFiniteSet(S) /\ Cardinality(S) \in Nat
BY RowAssumption, FS_Subset, FS_CardinalityType

(* Two rows of the list are in order one way or the other.                    *)
LEMMA RowsAreOrdered ==
  ASSUME WalkTypes, NEW i \in Id, NEW j \in Id, i # j
  PROVE  Precedes(i, j) \/ Precedes(j, i)
BY RowAssumption, BoundAssumption DEF WalkTypes, Precedes

(* The page is a beginning of what matches: the rows after it come after the   *)
(* row its cursor names.                                                      *)
LEMMA RestFollowsCursor ==
  ASSUME WalkInv, NEW c \in Id, IsCursor(c), NEW i \in Matching, i \notin Page
  PROVE  Precedes(c, i)
<1>1. c # i /\ c \in Page /\ i \in Id
  BY DEF IsCursor, Matching
<1>2. SUFFICES ASSUME Precedes(i, c) PROVE FALSE
  BY <1>1, RowsAreOrdered DEF WalkInv
<1>3. Preceding(i) \subseteq Preceding(c)
  <2> SUFFICES ASSUME NEW j \in Matching, Precedes(j, i) PROVE Precedes(j, c)
    BY DEF Preceding
  <2>1. i \in Id /\ j \in Id /\ c \in Id /\ ~Ascending /\ value \in [Id -> Nat]
    BY <1>1 DEF Matching, WalkInv, WalkTypes
  <2>2. Id \subseteq Nat
    BY RowAssumption
  <2>3. (value[j] > value[i] \/ (value[j] = value[i] /\ j > i))
        /\ (value[i] > value[c] \/ (value[i] = value[c] /\ i > c))
    BY <1>2, <2>1 DEF Precedes
  <2>4. value[j] > value[c] \/ (value[j] = value[c] /\ j > c)
    BY <2>1, <2>2, <2>3
  <2> QED
    BY <2>1, <2>4 DEF Precedes
<1>4. Preceding(c) \subseteq Id
  BY DEF Preceding, Matching
<1>5. Cardinality(Preceding(i)) <= Cardinality(Preceding(c))
  BY <1>3, <1>4, PageIsFinite, FS_Subset
<1>6. Cardinality(Preceding(i)) \in Nat /\ Cardinality(Preceding(c)) \in Nat
  BY <1>3, <1>4, PageIsFinite
<1> QED
  BY <1>1, <1>5, <1>6, PageAssumption DEF Page

-----------------------------------------------------------------------------
LEMMA InitWalkInv == WalkInit /\ ~Ascending => WalkInv
<1> SUFFICES ASSUME WalkInit, ~Ascending PROVE WalkInv
  OBVIOUS
<1>1. WalkTypes
  <2>1. /\ value \in [Id -> Value \cup {0}] /\ seek = [value |-> 0, id |-> 0]
        /\ ended = FALSE /\ times = [i \in Id |-> 0]
    BY Zenon DEF WalkInit, Gone
  <2>2. Value \cup {0} \subseteq Nat
    BY RowAssumption
  <2>3. value \in [Id -> Nat]
    BY <2>1, <2>2
  <2>4. seek \in [value : Nat, id : Nat] /\ times \in [Id -> 0..2]
    BY <2>1
  <2> QED
    BY <2>1, <2>3, <2>4 DEF WalkTypes
<1>2. ReturnedIfPassed
  BY DEF WalkInit, ReturnedIfPassed, Passed, Matches, Steady, Gone
<1>3. WalkTypeOK
  <2>1. /\ value \in [Id -> Value \cup {0}] /\ seek = [value |-> 0, id |-> 0]
        /\ touched = {} /\ writes = 0
    BY Zenon DEF WalkInit, Gone
  <2> QED
    BY <1>1, <2>1, BoundAssumption DEF WalkTypeOK, WalkTypes, Gone
<1> QED
  BY <1>1, <1>2, <1>3 DEF WalkInv

LEMMA NextPagePreserves ==
  ASSUME WalkInv, NextPage
  PROVE  WalkInv'
<1> USE DEF WalkInv
<1>1. PICK c \in Id : IsCursor(c) /\ seek' = CursorAt(c)
  BY DEF NextPage
<1>2. c \in Page /\ c \in Matching /\ value[c] # 0 /\ Matches(c)
  BY <1>1 DEF IsCursor, Page, Matching, Gone
<1>3. WalkTypes'
  <2>1. seek' \in [value : Nat, id : Nat]
    BY <1>1, RowAssumption DEF CursorAt, WalkTypes
  <2>2. times' \in [Id -> 0..2]
    BY DEF NextPage, Returned, WalkTypes
  <2> QED
    BY <2>1, <2>2 DEF NextPage, WalkTypes
<1>4. ASSUME NEW i \in Steady'
      PROVE  times'[i] = IF Passed(i)' THEN 1 ELSE 0
  <2> i \in Steady /\ i \in Id /\ value[i] # 0 /\ ~ended /\ ~ended'
    BY <1>4 DEF Steady, NextPage, Gone
  <2>1. times[i] = IF Passed(i) THEN 1 ELSE 0
    BY DEF ReturnedIfPassed
  <2>2. times'[i] = IF i \in Page /\ times[i] < 2 THEN times[i] + 1 ELSE times[i]
    BY DEF NextPage, Returned
  <2>3. Matches(i)' <=> \/ value[i] < value[c]
                        \/ value[i] = value[c] /\ i < c
    BY <1>1, <1>2, <1>3 DEF Matches, CursorAt, NextPage, Gone
  <2>4. CASE ~Matches(i)
    <3>1. i \notin Page
      BY <2>4 DEF Page, Matching
    <3>2. ~Matches(i)'
      BY <1>2, <2>3, <2>4, RowAssumption DEF Matches, WalkTypes, Gone
    <3> QED
      BY <2>1, <2>2, <3>1, <3>2, <2>4 DEF Passed
  <2>5. CASE i \in Page
    <3>1. Matches(i)
      BY <2>5 DEF Page, Matching
    <3>2. i = c \/ Precedes(i, c)
      BY <1>1, <2>5 DEF IsCursor
    <3>3. ~Matches(i)'
      BY <2>3, <3>2, RowAssumption DEF Precedes, WalkTypes
    <3> QED
      BY <2>1, <2>2, <3>1, <3>3, <2>5 DEF Passed
  <2>6. CASE Matches(i) /\ i \notin Page
    <3>1. Precedes(c, i)
      BY <1>1, <2>6, RestFollowsCursor DEF Matching, Gone
    <3>2. Matches(i)'
      BY <2>3, <3>1, RowAssumption DEF Precedes, WalkTypes
    <3> QED
      BY <2>1, <2>2, <3>2, <2>6 DEF Passed
  <2> QED
    BY <2>4, <2>5, <2>6
<1>5. WalkTypeOK'
  BY <1>1, <1>3, RowAssumption DEF WalkTypeOK, WalkTypes, NextPage, CursorAt
<1> QED
  BY <1>3, <1>4, <1>5 DEF ReturnedIfPassed

LEMMA LastPagePreserves ==
  ASSUME WalkInv, LastPage
  PROVE  WalkInv'
<1> USE DEF WalkInv
<1>1. WalkTypes'
  <2>1. times' \in [Id -> 0..2]
    BY DEF LastPage, Returned, WalkTypes
  <2> QED
    BY <2>1 DEF LastPage, WalkTypes
<1>2. ASSUME NEW i \in Steady'
      PROVE  times'[i] = 1
  <2>1. i \in Steady /\ i \in Id /\ ~ended
    BY <1>2 DEF Steady, LastPage
  <2>2. times[i] = IF Matches(i) THEN 0 ELSE 1
    BY <2>1 DEF ReturnedIfPassed, Passed
  <2>3. i \in Page <=> Matches(i)
    BY <2>1 DEF LastPage, HasMore, Matching, Steady, Page
  <2> QED
    BY <2>1, <2>2, <2>3 DEF LastPage, Returned
<1>3. WalkTypeOK'
  BY <1>1 DEF WalkTypeOK, WalkTypes, LastPage
<1> QED
  BY <1>1, <1>2, <1>3 DEF ReturnedIfPassed, Passed, LastPage

(* A change of a row touches it; the others stay on their side of the cursor. *)
LEMMA WritePreserves ==
  ASSUME WalkInv, NEW i \in Id, NEW v \in Value \cup {Gone}, Write(i, v)
  PROVE  WalkInv'
<1> USE DEF WalkInv
<1>1. WalkTypes'
  BY RowAssumption DEF Write, WalkTypes, Gone
<1>2. ASSUME NEW j \in Steady'
      PROVE  j \in Steady /\ (Passed(j)' <=> Passed(j)) /\ times'[j] = times[j]
  <2>1. j # i /\ j \in Id /\ value'[j] = value[j]
    BY <1>2 DEF Steady, Write, WalkTypes
  <2> QED
    BY <1>2, <2>1 DEF Steady, Write, Passed, Matches
<1>3. WalkTypeOK'
  BY BoundAssumption DEF WalkTypeOK, Write
<1> QED
  BY <1>1, <1>2, <1>3 DEF ReturnedIfPassed, Write

LEMMA NextWalkInv == WalkInv /\ [WalkNext]_walkVars => WalkInv'
<1> SUFFICES ASSUME WalkInv, [WalkNext]_walkVars PROVE WalkInv'
  OBVIOUS
<1>1. CASE UNCHANGED walkVars
  BY <1>1 DEF walkVars, WalkInv, WalkTypeOK, WalkTypes, ReturnedIfPassed, Steady, Passed, Matches
<1> QED
  BY <1>1, NextPagePreserves, LastPagePreserves, WritePreserves DEF WalkNext

-----------------------------------------------------------------------------
(* Each row that nobody touched has been returned once when the walk ends and  *)
(* at most once before (pagination.py:69-98).                                 *)
THEOREM WalkReturnsEachOnce == WalkSpec /\ ~Ascending => [](WalkTypeOK /\ EachOnce)
<1>1. WalkInv => WalkTypeOK /\ EachOnce
  BY DEF WalkInv, WalkTypes, ReturnedIfPassed, EachOnce, Passed, Steady
<1> QED
  BY <1>1, InitWalkInv, NextWalkInv, PTL DEF WalkSpec

(* The pages follow each other in the order of the list (pagination.py:76-80). *)
THEOREM WalkIsInOrder == WalkSpec /\ ~Ascending => []InOrder
<1>1. WalkInv => InOrder
  <2> SUFFICES ASSUME WalkInv, NEW i \in Steady, NEW j \in Steady,
                      Precedes(i, j), times[j] > 0
               PROVE  times[i] > 0
    BY DEF InOrder
  <2>1. i \in Id /\ j \in Id
    BY DEF Steady
  <2>2. Passed(j)
    BY DEF WalkInv, ReturnedIfPassed
  <2>3. Passed(i)
    BY <2>1, <2>2, RowAssumption DEF WalkInv, WalkTypes, Passed, Matches, Precedes
  <2> QED
    BY <2>3 DEF WalkInv, ReturnedIfPassed
<1> QED
  BY <1>1, InitWalkInv, NextWalkInv, PTL DEF WalkSpec
=============================================================================
