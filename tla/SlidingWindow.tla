---------------------------- MODULE SlidingWindow ----------------------------
(***************************************************************************)
(* What a rate limiter promises for one key: a request is admitted exactly   *)
(* when the window that ends with it holds fewer admissions than its limit,   *)
(* and refused only then.  There is a log of everything admitted, and no       *)
(* sorted set that is cleaned or expires; the log is lost as a whole, if at     *)
(* all.  When the limiter cannot answer, the request passes, logged or not.      *)
(***************************************************************************)
EXTENDS Integers, FiniteSets

CONSTANTS Requests, Limits, Window

VARIABLES clock,
          time,     \* when each request was judged
          log,      \* the requests admitted since the log was last lost
          verdict   \* of each request: none, allowed, refused or unlimited

vars == <<clock, time, log, verdict>>

Recent == {m \in log : time[m] > clock - Window}
Full(l) == Cardinality(Recent) >= l

Tick == clock' = clock + 1 /\ UNCHANGED <<time, log, verdict>>

Judge(n, v) ==
  /\ verdict[n] = "none"
  /\ verdict' = [verdict EXCEPT ![n] = v]
  /\ time' = [time EXCEPT ![n] = clock]
  /\ UNCHANGED clock

Admit(n, l) == Judge(n, "allowed") /\ ~Full(l) /\ log' = log \cup {n}

Refuse(n, l) == Judge(n, "refused") /\ Full(l) /\ UNCHANGED log

Pass(n, l) ==
  /\ Judge(n, "unlimited")
  /\ UNCHANGED log \/ (~Full(l) /\ log' = log \cup {n})

Lose == log' = {} /\ UNCHANGED <<clock, time, verdict>>

Init ==
  /\ clock = 0 /\ log = {}
  /\ time = [n \in Requests |-> 0] /\ verdict = [n \in Requests |-> "none"]

Next ==
  \/ Tick \/ Lose
  \/ \E n \in Requests, l \in Limits : Admit(n, l) \/ Refuse(n, l) \/ Pass(n, l)

Spec == Init /\ [][Next]_vars
=============================================================================
