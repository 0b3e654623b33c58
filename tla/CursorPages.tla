----------------------------- MODULE CursorPages -----------------------------
(***************************************************************************)
(* Keyset pagination, core/pagination.py: a client walks through a list page *)
(* by page while other requests change the rows.  A page is one statement.   *)
(* The cursor the client holds between two pages is the sort value and the   *)
(* id of the last row it got.                                               *)
(*                                                                         *)
(* Lists of sessions, documents, workspaces, users, invitations and tenants  *)
(* descend; the list of messages ascends.  Sort values need not differ: the  *)
(* two messages of a turn have one created_at, the time of their transaction. *)
(***************************************************************************)
EXTENDS Integers, FiniteSets

CONSTANTS Id,         \* of the rows, in the order the database gives them
          Value,      \* values of the sort column
          Limit,      \* CursorParams.limit
          Ascending,
          Ties,       \* how many rows one transaction gives the same value
          MaxWrites   \* bound: changes of rows

ASSUME RowAssumption == Id \subseteq Nat /\ IsFiniteSet(Id) /\ Value \subseteq Nat \ {0}
ASSUME PageAssumption == Limit \in Nat \ {0}
ASSUME BoundAssumption == Ascending \in BOOLEAN /\ MaxWrites \in Nat /\ Ties \in Nat

VARIABLES value,    \* the sort value of each row; Gone if the list has no such row
          seek,     \* the decoded cursor; its value is Gone before the first page
          ended,    \* the last page had no next_cursor
          times,    \* how often the walk returned each row; 2 is twice or more
          touched,  \* the rows that entered, left or moved since the walk began
          writes

walkVars == <<value, seek, ended, times, touched, writes>>

Gone == 0

(* A row is inserted, deleted, updated, or matches the list's filter anew or  *)
(* no longer.                                                                *)
Write(i, v) ==
  /\ writes < MaxWrites /\ writes' = writes + 1
  /\ value[i] # v
  /\ value' = [value EXCEPT ![i] = v]
  /\ touched' = touched \cup {i}
  /\ UNCHANGED <<seek, ended, times>>

-----------------------------------------------------------------------------
(* paginate_cursor. *)

\* Variants: the seek filter forgets the id; it includes the row of the cursor.
MatchesByValue(i) ==
  \/ seek.value = Gone
  \/ IF Ascending THEN value[i] >= seek.value ELSE value[i] <= seek.value
MatchesInclusive(i) ==
  \/ seek.value = Gone
  \/ IF Ascending THEN value[i] > seek.value ELSE value[i] < seek.value
  \/ value[i] = seek.value /\ i <= seek.id
\* The seek filter: the sort column by direction, the id always downwards.
Matches(i) ==
  \/ seek.value = Gone
  \/ IF Ascending THEN value[i] > seek.value ELSE value[i] < seek.value
  \/ value[i] = seek.value /\ i < seek.id

Matching == {i \in Id : value[i] # Gone /\ Matches(i)}

\* Variant: rows with the same sort value come in the order of their ids.
PrecedesIdsUp(i, j) ==
  \/ IF Ascending THEN value[i] < value[j] ELSE value[i] > value[j]
  \/ value[i] = value[j] /\ i < j
\* ORDER BY sort_column, id_column
Precedes(i, j) ==
  \/ IF Ascending THEN value[i] < value[j] ELSE value[i] > value[j]
  \/ value[i] = value[j] /\ IF Ascending THEN i < j ELSE i > j

Preceding(i) == {j \in Matching : Precedes(j, i)}
Page == {i \in Matching : Cardinality(Preceding(i)) < Limit}

HasMore == Matching # Page

\* the last item
IsCursor(i) == i \in Page /\ \A j \in Page : j = i \/ Precedes(j, i)

\* encode_cursor and decode_cursor
CursorAt(i) == [value |-> value[i], id |-> i]

Returned ==
  times' = [i \in Id |-> IF i \in Page /\ times[i] < 2 THEN times[i] + 1 ELSE times[i]]

NextPage ==
  /\ ~ended
  /\ HasMore
  /\ Returned
  /\ \E i \in Id : IsCursor(i) /\ seek' = CursorAt(i)
  /\ UNCHANGED <<value, ended, touched, writes>>

LastPage ==
  /\ ~ended
  /\ ~HasMore
  /\ Returned
  /\ ended' = TRUE
  /\ UNCHANGED <<value, seek, touched, writes>>

-----------------------------------------------------------------------------
WalkInit ==
  /\ value \in [Id -> Value \cup {Gone}]
  /\ \A v \in Value : Cardinality({i \in Id : value[i] = v}) <= Ties
  /\ seek = [value |-> Gone, id |-> 0]
  /\ ended = FALSE
  /\ times = [i \in Id |-> 0]
  /\ touched = {}
  /\ writes = 0

WalkNext ==
  \/ NextPage \/ LastPage
  \/ \E i \in Id, v \in Value \cup {Gone} : Write(i, v)

WalkSpec == WalkInit /\ [][WalkNext]_walkVars

(* A client that asks for pages as long as it gets a cursor. *)
FairWalkSpec == WalkSpec /\ WF_walkVars(NextPage \/ LastPage)

-----------------------------------------------------------------------------
WalkTypeOK ==
  /\ value \in [Id -> Value \cup {Gone}]
  /\ seek \in [value : Value \cup {Gone}, id : Nat]
  /\ ended \in BOOLEAN
  /\ times \in [Id -> 0..2]
  /\ touched \subseteq Id
  /\ writes \in 0..MaxWrites

Steady == {i \in Id \ touched : value[i] # Gone}

(* A row nobody touches during the walk is returned once when it ends, and    *)
(* never twice, whatever happens to the rows around it, the row of the cursor *)
(* included, and although sort values repeat (pagination.py:69-98).           *)
EachOnce ==
  \A i \in Steady : times[i] <= 1 /\ (ended => times[i] = 1)

(* The pages follow each other in the order of the list: a row comes only     *)
(* after the rows that precede it (pagination.py:76-80).                      *)
InOrder ==
  \A i, j \in Steady : Precedes(i, j) /\ times[j] > 0 => times[i] > 0

(* A walk comes to its end: the cursor never stands still                     *)
(* (pagination.py:84-96).                                                     *)
WalkEnds == <>ended

(* session_service.py:120 "List messages for a chat session with pagination   *)
(* in chronological order.": each message once.                               *)
MessagesOnce == Ascending => EachOnce
=============================================================================
