----------------------------- MODULE RateLimiter -----------------------------
(***************************************************************************)
(* The sliding window rate limiter, infrastructure/rate_limiter.py, for one *)
(* key: one user on one route.  The script runs atomically in Redis, so the *)
(* requests of the key are numbered in the order Redis serves them; a       *)
(* request is a member of the sorted set and its score is the time at which *)
(* it was served.                                                           *)
(*                                                                         *)
(* The key does not contain the plan.  Access tokens of one user may name   *)
(* different plans, so each request comes with a limit of its own.  Redis    *)
(* may fail before or after it ran the script (the limiter then lets the     *)
(* request pass), and may lose the key (allkeys-lru, a restart).             *)
(***************************************************************************)
EXTENDS Integers, FiniteSets

CONSTANTS NumRequests,
          Limits,     \* the numbers of requests the plans allow
          Window,     \* window_seconds, in ticks of Redis' clock
          Second,     \* ticks per second: the script rounds to seconds
          MaxTime     \* bound on the clock

ASSUME RequestAssumption == NumRequests \in Nat /\ MaxTime \in Nat
ASSUME LimitAssumption == Limits \subseteq Nat \ {0}
ASSUME WindowAssumption ==
  /\ Window \in Nat \ {0} /\ Second \in Nat \ {0}
  /\ Window % Second = 0

VARIABLES now,
          served,   \* how many requests reached the limiter
          entries,  \* the sorted set: the requests it holds
          answer,   \* of each request: none, allowed, refused or unlimited
          at,       \* its score: when the script ran
          limit,    \* the limit its token gave it
          counted,  \* the script added it to the set
          found,    \* the cardinality the script found
          retry,    \* Retry-After, in seconds
          since     \* the requests served before the key was last lost

vars == <<now, served, entries, answer, at, limit, counted, found, retry, since>>
request == <<answer, at, limit, counted, found, retry>>

Request == 1..NumRequests

Tick ==
  /\ now < MaxTime
  /\ now' = now + 1
  /\ UNCHANGED <<served, entries, request, since>>

-----------------------------------------------------------------------------
(* The script. *)

\* Variant: an entry on the edge of the window stays.
KeptOnEdge == {e \in entries : at[e] >= now - Window}
\* What ZREMRANGEBYSCORE key -inf (now - window) leaves.
Kept == {e \in entries : at[e] > now - Window}

Oldest(S) == CHOOSE e \in S : \A f \in S : at[e] <= at[f]

\* Variant: rounded down.
RetryAfterFloor(oldest) == LET s == (at[oldest] + Window - now) \div Second
                           IN IF s > 0 THEN s ELSE 1
\* math.ceil(oldest + window - now), and at least 1
RetryAfter(oldest) ==
  LET s == (at[oldest] + Window - now + Second - 1) \div Second
  IN IF s > 0 THEN s ELSE 1

Allows(l) == Cardinality(Kept) < l

Serve(n, l) ==
  /\ n = served + 1 /\ served' = n
  /\ at' = [at EXCEPT ![n] = now]
  /\ limit' = [limit EXCEPT ![n] = l]
  /\ found' = [found EXCEPT ![n] = Cardinality(Kept)]

Allow(n, l) ==
  /\ Serve(n, l)
  /\ Allows(l)
  /\ entries' = Kept \cup {n}
  /\ counted' = [counted EXCEPT ![n] = TRUE]
  /\ answer' = [answer EXCEPT ![n] = "allowed"]
  /\ UNCHANGED <<now, retry, since>>

Refuse(n, l) ==
  /\ Serve(n, l)
  /\ ~Allows(l)
  /\ entries' = Kept
  /\ answer' = [answer EXCEPT ![n] = "refused"]
  /\ retry' = [retry EXCEPT ![n] = RetryAfter(Oldest(Kept))]
  /\ UNCHANGED <<now, counted, since>>

-----------------------------------------------------------------------------
(* What Redis does besides. *)

\* The call raises RedisError and the limiter fails open.  The script may have
\* run all the same, and then its verdict is lost.
FailOpen(n, l) ==
  /\ Serve(n, l)
  /\ answer' = [answer EXCEPT ![n] = "unlimited"]
  /\ \/ UNCHANGED <<entries, counted>>
     \/ /\ Allows(l)
        /\ entries' = Kept \cup {n}
        /\ counted' = [counted EXCEPT ![n] = TRUE]
     \/ ~Allows(l) /\ entries' = Kept /\ UNCHANGED counted
  /\ UNCHANGED <<now, retry, since>>

\* Variant: the key lives one tick less than the window.
LastsShort == Window - 1
\* EXPIRE key window, renewed by every insertion
Lasts == Window

Expire ==
  /\ entries # {}
  /\ \A e \in entries : now >= at[e] + Lasts
  /\ entries' = {}
  /\ UNCHANGED <<now, served, request, since>>

\* Redis evicts the key, or restarts without it.
Forget ==
  /\ entries # {}
  /\ entries' = {}
  /\ since' = served
  /\ UNCHANGED <<now, served, request>>

-----------------------------------------------------------------------------
Init ==
  /\ now = 0 /\ served = 0 /\ since = 0
  /\ entries = {}
  /\ answer = [n \in Request |-> "none"]
  /\ at = [n \in Request |-> 0]
  /\ limit = [n \in Request |-> 0]
  /\ counted = [n \in Request |-> FALSE]
  /\ found = [n \in Request |-> 0]
  /\ retry = [n \in Request |-> 0]

Next ==
  \/ Tick \/ Expire \/ Forget
  \/ \E n \in Request, l \in Limits : Allow(n, l) \/ Refuse(n, l) \/ FailOpen(n, l)

Spec == Init /\ [][Next]_vars

-----------------------------------------------------------------------------
TypeOK ==
  /\ now \in Nat
  /\ served \in 0..NumRequests /\ since \in 0..served
  /\ entries \subseteq since + 1..served
  /\ answer \in [Request -> {"none", "allowed", "refused", "unlimited"}]
  /\ at \in [Request -> Nat]
  /\ limit \in [Request -> Limits \cup {0}]
  /\ counted \in [Request -> BOOLEAN]
  /\ found \in [Request -> Nat]
  /\ retry \in [Request -> 0..(Window \div Second)]

\* The requests the limiter counted among those up to n, in the window that
\* ends when n was served.
InWindow(n) == {m \in Request : m <= n /\ counted[m] /\ at[m] > at[n] - Window}

(* Whoever is let through finds fewer than its limit counted in the window   *)
(* that ends with it, whatever plans, lost replies and expiries came before: *)
(* only a request served before the key was lost is forgotten                *)
(* (rate_limiter.py:34-40).                                                  *)
WindowBound ==
  \A n \in Request : counted[n] =>
    \/ Cardinality(InWindow(n)) <= limit[n]
    \/ \E m \in InWindow(n) : m <= since

(* Retry-After is honest: a refused client that comes back then, with a plan *)
(* at least as good and nobody counted in between, is not refused again.     *)
(* It is the oldest entry that leaves, so this needs the set to have been    *)
(* exactly full (rate_limiter.py:43-45).                                     *)
RetryAfterHonest ==
  \A r, n \in Request :
    (/\ r < n /\ answer[r] = "refused" /\ found[r] = limit[r]
     /\ at[n] >= at[r] + retry[r] * Second /\ limit[n] >= limit[r]
     /\ \A m \in r..n - 1 : ~counted[m])
    => answer[n] # "refused"

-----------------------------------------------------------------------------
\* The log: what was counted since the key was last lost.
Log == {n \in Request : counted[n] /\ n > since}

Ideal == INSTANCE SlidingWindow WITH Requests <- Request, clock <- now, time <- at,
                                     log <- Log, verdict <- answer

(* The set that is cleaned, refreshed and expires judges every request as a log of   *)
(* all that was counted would: nobody passes and nobody is refused because of        *)
(* what ZREMRANGEBYSCORE or EXPIRE took or left, or because a refusal or a lost      *)
(* reply was counted, see SlidingWindow (rate_limiter.py:26-46, 158-188).            *)
ImplementsWindow == Ideal!Spec
=============================================================================
