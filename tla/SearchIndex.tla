---------------------------- MODULE SearchIndex ----------------------------
(***************************************************************************)
(* What retrieval may rely on, whatever the requests and the worker do:    *)
(* the chunks found of a document are all the chunks one ingestion run      *)
(* made of one content, replaced in one step by another run's and never     *)
(* taken away while the document is listed; a document shown as ready has   *)
(* some; a run publishes once at most and nothing after it has given up;    *)
(* a document that was removed is found no more and never comes back.       *)
(***************************************************************************)
EXTENDS Naturals

CONSTANTS Doc, Run, Content,
          Size       \* the number of chunks of each content

VARIABLES minted,    \* documents whose upload was saved
          listed,    \* those that are still there
          ready,     \* those shown as ACTIVE
          found,     \* the chunks retrieval finds of each document
          spent      \* runs that have published or given up

vars == <<minted, listed, ready, found, spent>>

Whole(run, content) == [run : {run}, content : {content}, index : 1..Size[content]]

Init ==
  /\ minted = {} /\ listed = {} /\ ready = {} /\ spent = {}
  /\ found = [d \in Doc |-> {}]

Add(d) ==
  /\ d \notin minted
  /\ minted' = minted \cup {d} /\ listed' = listed \cup {d}
  /\ UNCHANGED <<ready, found, spent>>

Publish(d, run, content) ==
  /\ d \in listed /\ run \notin spent /\ Size[content] > 0
  /\ found' = [found EXCEPT ![d] = Whole(run, content)]
  /\ ready' = ready \cup {d} /\ spent' = spent \cup {run}
  /\ UNCHANGED <<minted, listed>>

GiveUp(run) ==
  /\ run \notin spent
  /\ spent' = spent \cup {run}
  /\ UNCHANGED <<minted, listed, ready, found>>

\* A new file is pending, or an ingestion failed: the last chunks stay.
Withdraw(d) ==
  /\ d \in ready
  /\ ready' = ready \ {d}
  /\ UNCHANGED <<minted, listed, found, spent>>

Remove(d) ==
  /\ d \in listed
  /\ listed' = listed \ {d} /\ ready' = ready \ {d}
  /\ found' = [found EXCEPT ![d] = {}]
  /\ UNCHANGED <<minted, spent>>

Next ==
  \/ \E d \in Doc : Add(d) \/ Withdraw(d) \/ Remove(d)
  \/ \E run \in Run : GiveUp(run) \/ \E d \in Doc, content \in Content : Publish(d, run, content)

Spec == Init /\ [][Next]_vars
=============================================================================
