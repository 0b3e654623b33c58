------------------------- MODULE AuthSessionsProofs -------------------------
(***************************************************************************)
(* Sessions in sequence, for any number of requests: what came before a    *)
(* request is settled for it, whatever overlaps it.                        *)
(***************************************************************************)
EXTENDS AuthSessions, TLAPS

BeforeIsServed == \A r \in Request : \A q \in before[r] : Served(q)
IdleHasNoPast == \A r \in Request : req[r].stage = "idle" => before[r] = {}
PresentedIsToken == \A r \in Request : req[r].op = "refresh" => req[r].token \in rows

RotatedIsRevoked == \A r \in rows : req[r].op = "refresh" => req[r].token \in revoked

\* A request presents no token that one before it rotated, or ended.
PastIsSettled == \A a, b \in Request :
  a \in before[b] /\ req[b].op = "refresh" =>
    /\ ~Rotates(a, req[b].token)
    /\ EndsAll(a) => ~(req[b].token \in before[a] /\ req[b].token \in rows)

EndedIsRevoked == \A p, k \in Request :
  EndsAll(p) /\ k \in rows /\ k \in before[p] => k \in revoked

Reopened(p) == \E q \in Request : Served(q) /\ req[q].op = "reactivate" /\ q \notin before[p]

ActiveIsReopened == \A p \in Request :
  Served(p) /\ req[p].op = "deactivate" /\ active => Reopened(p)

DeletedIsClosed == \A p \in Request : Served(p) /\ req[p].op = "delete" => ~organization

Granted(r) == req[r].op \in {"login", "refresh"} /\ req[r].stage \in {"checked", "served"}

GrantedWhileOpen == \A p, r \in Request : p \in before[r] =>
  /\ req[p].op = "deactivate" /\ Granted(r) => Reopened(p)
  /\ req[p].op = "delete" => ~Granted(r) /\ req[r].op # "login"

IInv ==
  /\ TypeOK /\ BeforeIsServed /\ IdleHasNoPast /\ PresentedIsToken
  /\ RotatedIsRevoked /\ PastIsSettled /\ EndedIsRevoked
  /\ ActiveIsReopened /\ DeletedIsClosed /\ GrantedWhileOpen

LEMMA InitIInv == Init => IInv
BY NoTokenAssumption
   DEF Init, IInv, TypeOK, BeforeIsServed, IdleHasNoPast, PresentedIsToken, RotatedIsRevoked,
       PastIsSettled, EndedIsRevoked, ActiveIsReopened, DeletedIsClosed, GrantedWhileOpen,
       EndsAll, Sessions, Served, Granted, Op, Stage

(* The tables of an unserved request do not appear in anyone's past, and    *)
(* its own past is what was served when it began.                           *)
LEMMA BeginKeeps ==
  ASSUME IInv, NEW r \in Request, NEW op \in Op \ {"none"}, NEW k \in Request \cup {NoToken},
         NEW stage \in {"begun", "checked"}, Begin(r, op, k, stage), UNCHANGED database,
         stage = "checked" => op \notin {"login", "refresh"},
         op = "refresh" => Usable(k) /\ k \in Request,
         op = "login" => organization
  PROVE  IInv'
<1> USE DEF IInv, database
<1>1. /\ req[r].stage = "idle"
      /\ req' \in [Request -> [op : Op, stage : Stage, token : Request \cup {NoToken}]]
      /\ \A q \in Request : q # r => req'[q] = req[q] /\ before'[q] = before[q]
      /\ req'[r] = [op |-> op, stage |-> stage, token |-> k]
      /\ before'[r] = {q \in Request : Served(q)}
      /\ before' \in [Request -> SUBSET Request]
  BY DEF Begin, TypeOK, Stage
<1>2. \A q \in Request : Served(q)' <=> Served(q)
  BY <1>1 DEF Served
<1>3. r \notin rows /\ ~Served(r) /\ \A q \in Request : r \notin before[q]
  BY <1>1 DEF TypeOK, Sessions, Served, BeforeIsServed
<1>4. TypeOK'
  BY <1>1, <1>2 DEF TypeOK, Sessions, Served
<1>5. BeforeIsServed' /\ IdleHasNoPast' /\ PresentedIsToken'
  BY <1>1, <1>2 DEF BeforeIsServed, IdleHasNoPast, PresentedIsToken, Usable, TypeOK
<1>6. RotatedIsRevoked' /\ DeletedIsClosed'
  BY <1>1, <1>2, <1>3 DEF RotatedIsRevoked, DeletedIsClosed, TypeOK
<1>7. EndedIsRevoked'
  BY <1>1, <1>2, <1>3 DEF EndedIsRevoked, EndsAll
<1>8. \A p \in Request : Reopened(p) /\ p # r => Reopened(p)'
  BY <1>1, <1>2 DEF Reopened, Served
<1>9. ActiveIsReopened'
  BY <1>1, <1>2, <1>3, <1>8 DEF ActiveIsReopened
<1>10. PastIsSettled'
  <2> SUFFICES ASSUME NEW a \in Request, NEW b \in Request, a \in before'[b],
                      req'[b].op = "refresh"
               PROVE  /\ ~Rotates(a, req[b].token)'
                      /\ EndsAll(a)' => ~(req'[b].token \in before'[a] /\ req'[b].token \in rows)
    BY DEF PastIsSettled
  <2>1. a # r /\ req'[a] = req[a] /\ before'[a] = before[a] /\ Served(a)
    BY <1>1, <1>2, <1>3, <1>5 DEF BeforeIsServed
  <2>2. CASE b # r
    BY <1>1, <2>1, <2>2 DEF PastIsSettled, Rotates, EndsAll, Served
  <2>3. CASE b = r
    <3>1. req'[b].token = k /\ k \in Request /\ k \in rows /\ k \notin revoked
      BY <1>1, <2>3 DEF Usable
    <3>2. Rotates(a, k) => a \in rows
      BY <2>1 DEF Rotates, TypeOK, Sessions
    <3> QED
      BY <2>1, <3>1, <3>2 DEF RotatedIsRevoked, EndedIsRevoked, EndsAll, Rotates, Served
  <2> QED
    BY <2>2, <2>3
<1>11. GrantedWhileOpen'
  <2> SUFFICES ASSUME NEW p \in Request, NEW q \in Request, p \in before'[q]
               PROVE  /\ req'[p].op = "deactivate" /\ Granted(q)' => Reopened(p)'
                      /\ req'[p].op = "delete" => ~Granted(q)' /\ req'[q].op # "login"
    BY DEF GrantedWhileOpen
  <2>1. p # r /\ req'[p] = req[p] /\ Served(p)
    BY <1>1, <1>2, <1>3, <1>5 DEF BeforeIsServed
  <2>2. CASE q # r
    BY <1>1, <1>8, <2>1, <2>2 DEF GrantedWhileOpen, Granted
  <2>3. CASE q = r
    BY <1>1, <2>1, <2>3 DEF Granted, DeletedIsClosed
  <2> QED
    BY <2>2, <2>3
<1> QED
  BY <1>4, <1>5, <1>6, <1>7, <1>9, <1>10, <1>11

(* Any later step of a request, or its only one: what it must respect so    *)
(* that it can be said to come after what it found served.                  *)
LEMMA StepKeeps ==
  ASSUME IInv, NEW r \in Request, NEW op \in Op \ {"none"},
         NEW k \in Request \cup {NoToken}, NEW stage \in {"checked", "served", "refused"},
         ~Served(r),
         req' = [req EXCEPT ![r] = [op |-> op, stage |-> stage, token |-> k]],
         \/ /\ req[r].stage # "idle" /\ req[r].op = op /\ req[r].token = k
            /\ UNCHANGED before
         \/ /\ op \notin {"login", "refresh"}
            /\ before' = [before EXCEPT ![r] = {q \in Request : Served(q)}],
         rows' = IF op \in {"login", "refresh"} /\ stage = "served" THEN rows \cup {r} ELSE rows,
         revoked \subseteq revoked', revoked' \subseteq rows', UNCHANGED expired,
         organization' => organization, active' \in BOOLEAN, organization' \in BOOLEAN,
         stage = "served" =>
           /\ op = "refresh" => k \in revoked'
           /\ op \in {"logout_all", "password", "deactivate"} => rows \subseteq revoked'
           /\ op = "deactivate" => ~active'
           /\ op = "delete" => ~organization',
         active' => active \/ (stage = "served" /\ op = "reactivate"),
         stage = "checked" /\ op \in {"login", "refresh"} =>
           active /\ (op = "refresh" => organization),
         stage = "served" /\ op \in {"login", "refresh"} => req[r].stage = "checked"
  PROVE  IInv'
<1> USE DEF IInv
<1>1. /\ req' \in [Request -> [op : Op, stage : Stage, token : Request \cup {NoToken}]]
      /\ \A q \in Request : q # r => req'[q] = req[q] /\ before'[q] = before[q]
      /\ req'[r] = [op |-> op, stage |-> stage, token |-> k]
      /\ before' \in [Request -> SUBSET Request]
      /\ \A q \in before'[r] : q \in Request /\ Served(q)
  BY DEF TypeOK, Stage, BeforeIsServed
<1>2. \A q \in Request : Served(q)' <=> (Served(q) \/ (q = r /\ stage = "served"))
  BY <1>1 DEF Served
<1>3. r \notin rows /\ \A q \in Request : r \notin before[q] /\ r \notin before'[q]
  BY <1>1 DEF TypeOK, Sessions, BeforeIsServed
<1>4. TypeOK'
  <2>1. rows' = {q \in Request : Sessions(q)'}
    BY <1>1, <1>2 DEF TypeOK, Sessions, Served
  <2> QED
    BY <1>1, <2>1 DEF TypeOK, Sessions
<1>5. BeforeIsServed' /\ IdleHasNoPast' /\ PresentedIsToken'
  BY <1>1, <1>2 DEF BeforeIsServed, IdleHasNoPast, PresentedIsToken, TypeOK
<1>6. \A q \in rows' : q # r => q \in rows
  OBVIOUS
<1>7. RotatedIsRevoked'
  BY <1>1, <1>4, <1>6 DEF RotatedIsRevoked, TypeOK, Sessions, Served
<1>8. DeletedIsClosed'
  BY <1>1, <1>2 DEF DeletedIsClosed, Served
<1>9. \A q \in Request : q # r => (EndsAll(q)' <=> EndsAll(q))
  BY <1>1 DEF EndsAll, Served
<1>10. EndedIsRevoked'
  <2> SUFFICES ASSUME NEW p \in Request, NEW j \in Request, EndsAll(p)', j \in rows',
                      j \in before'[p]
               PROVE  j \in revoked'
    BY DEF EndedIsRevoked
  <2>1. j # r /\ j \in rows
    BY <1>3, <1>6
  <2>2. CASE p = r
    BY <1>1, <2>1, <2>2 DEF EndsAll, Served
  <2>3. CASE p # r
    BY <1>1, <1>9, <2>1, <2>3 DEF EndedIsRevoked
  <2> QED
    BY <2>2, <2>3
<1>11. PastIsSettled'
  <2> SUFFICES ASSUME NEW a \in Request, NEW b \in Request, a \in before'[b],
                      req'[b].op = "refresh"
               PROVE  /\ ~Rotates(a, req[b].token)'
                      /\ EndsAll(a)' => ~(req'[b].token \in before'[a] /\ req'[b].token \in rows')
    BY DEF PastIsSettled
  <2>1. a # r /\ req'[a] = req[a] /\ before'[a] = before[a] /\ (EndsAll(a)' <=> EndsAll(a))
    BY <1>1, <1>3, <1>9
  <2>2. a \in before[b] /\ req[b].op = "refresh" /\ req'[b].token = req[b].token
    BY <1>1
  <2>3. req[b].token \in before[a] => req[b].token # r
    BY <1>3
  <2> QED
    BY <1>6, <2>1, <2>2, <2>3 DEF PastIsSettled, Rotates
<1>12. \A p \in Request : Reopened(p) /\ p # r => Reopened(p)'
  BY <1>1, <1>2 DEF Reopened, Served
<1>13. \A p \in Request : p # r /\ stage = "served" /\ op = "reactivate" => Reopened(p)'
  BY <1>1, <1>2, <1>3 DEF Reopened
<1>14. ActiveIsReopened'
  BY <1>1, <1>2, <1>12, <1>13 DEF ActiveIsReopened
<1>15. GrantedWhileOpen'
  <2> SUFFICES ASSUME NEW p \in Request, NEW q \in Request, p \in before'[q]
               PROVE  /\ req'[p].op = "deactivate" /\ Granted(q)' => Reopened(p)'
                      /\ req'[p].op = "delete" => ~Granted(q)' /\ req'[q].op # "login"
    BY DEF GrantedWhileOpen
  <2>1. p # r /\ req'[p] = req[p] /\ (Reopened(p) => Reopened(p)')
    BY <1>1, <1>3, <1>12
  <2>2. CASE q # r \/ stage = "served"
    BY <1>1, <1>4, <2>1, <2>2 DEF GrantedWhileOpen, Granted
  <2>3. CASE q = r /\ stage = "refused"
    BY <1>1, <2>1, <2>3 DEF GrantedWhileOpen, Granted
  <2>4. CASE q = r /\ stage = "checked"
    <3>1. Served(p)
      BY <1>1, <2>4
    <3>2. CASE op \notin {"login", "refresh"}
      BY <1>1, <2>4, <3>2 DEF Granted
    <3>3. CASE op \in {"login", "refresh"}
      <4>1. p \in before[r] /\ req[r].op = op
        BY <2>4, <3>3
      <4> QED
        BY <1>1, <2>1, <2>4, <3>1, <3>3, <4>1
           DEF Granted, ActiveIsReopened, DeletedIsClosed, GrantedWhileOpen
    <3> QED
      BY <3>2, <3>3
  <2> QED
    BY <2>2, <2>3, <2>4
<1> QED
  BY <1>4, <1>5, <1>7, <1>8, <1>10, <1>11, <1>14, <1>15

-----------------------------------------------------------------------------
(* The steps that only begin a request.                                     *)
LEMMA BeginningKeeps ==
  ASSUME IInv, NEW r \in Request,
         \/ Login(r) \/ Refresh(r) \/ ChangePassword(r) \/ Deactivate(r) \/ Reactivate(r)
  PROVE  IInv'
<1> USE NoTokenAssumption DEF Op
<1>1. CASE Login(r)
  BY <1>1, BeginKeeps DEF Login
<1>2. CASE Refresh(r)
  <2>1. PICK k \in Request : Usable(k) /\ Begin(r, "refresh", k, "begun")
    BY <1>2 DEF Refresh
  <2> QED
    BY <1>2, <2>1, BeginKeeps DEF Refresh
<1>3. CASE ChangePassword(r)
  BY <1>3, BeginKeeps DEF ChangePassword
<1>4. CASE Deactivate(r)
  BY <1>4, BeginKeeps DEF Deactivate
<1>5. CASE Reactivate(r)
  BY <1>5, BeginKeeps DEF Reactivate
<1> QED
  BY <1>1, <1>2, <1>3, <1>4, <1>5

(* The steps of a request under way.                                        *)
LEMMA ServingKeeps ==
  ASSUME IInv, NEW r \in Request,
         \/ CheckAccount(r) \/ SaveLogin(r) \/ SaveRefresh(r) \/ SavePassword(r)
         \/ SaveDeactivation(r) \/ SaveReactivation(r)
  PROVE  IInv'
<1> DEFINE op == req[r].op
           k == req[r].token
<1>1. /\ op \in Op \ {"none"} /\ k \in Request \cup {NoToken}
      /\ op = "refresh" => k \in Request
      /\ req[r].stage \notin {"idle", "served"} /\ ~Served(r)
  BY DEF IInv, TypeOK, Op, PresentedIsToken, Served, Doing,
         CheckAccount, SaveLogin, SaveRefresh, SavePassword, SaveDeactivation, SaveReactivation
<1>2. PICK stage \in {"checked", "served", "refused"} : Reach(r, stage)
  BY DEF CheckAccount, SaveLogin, SaveRefresh, SavePassword, SaveDeactivation, SaveReactivation
<1>3. /\ req' = [req EXCEPT ![r] = [op |-> op, stage |-> stage, token |-> k]]
      /\ UNCHANGED before
  <2>1. [req[r] EXCEPT !.stage = stage] = [op |-> op, stage |-> stage, token |-> k]
    BY DEF IInv, TypeOK
  <2> QED
    BY <1>2, <2>1 DEF Reach
<1>4. req'[r].stage = stage
  BY <1>3 DEF IInv, TypeOK
<1>5. active \in BOOLEAN /\ organization \in BOOLEAN /\ revoked \subseteq rows
  BY DEF IInv, TypeOK
<1>6. CASE CheckAccount(r)
  <2>1. /\ UNCHANGED database /\ op \in {"login", "refresh"}
        /\ stage # "served"
        /\ stage = "checked" => Admitted(r)
    <3>1. Reach(r, IF Admitted(r) THEN "checked" ELSE "refused")
      BY <1>6 DEF CheckAccount
    <3>2. req'[r].stage = IF Admitted(r) THEN "checked" ELSE "refused"
      BY <3>1 DEF Reach, IInv, TypeOK
    <3> QED
      BY <1>4, <1>6, <3>2 DEF CheckAccount
  <2> HIDE DEF op, k
  <2>2. stage = "checked" => active /\ (op = "refresh" => organization)
    BY <2>1 DEF Admitted, op
  <2> QED
    BY <1>1, <1>3, <1>5, <2>1, <2>2, StepKeeps DEF database, op, k
<1>7. CASE SaveLogin(r) \/ SaveRefresh(r)
  <2>1. /\ op \in {"login", "refresh"} /\ req[r].stage = "checked"
        /\ UNCHANGED <<active, organization, expired>>
        /\ rows' = rows \cup {r}
        /\ op = "login" => UNCHANGED revoked
        /\ op = "refresh" => revoked' = revoked \cup {k}
    BY <1>7 DEF SaveLogin, SaveRefresh, Doing, Issue
  <2>2. stage = "served"
    <3>1. req'[r].stage = "served"
      BY <1>7 DEF SaveLogin, SaveRefresh, Reach, IInv, TypeOK
    <3> QED
      BY <1>4, <3>1
  <2>3. op = "refresh" => k \in rows
    BY DEF IInv, PresentedIsToken
  <2> HIDE DEF op, k
  <2>4. rows' = IF op \in {"login", "refresh"} /\ stage = "served" THEN rows \cup {r} ELSE rows
    BY <2>1, <2>2
  <2>5. revoked \subseteq revoked' /\ revoked' \subseteq rows'
    BY <1>5, <2>1, <2>3
  <2>6. req[r].op = op /\ req[r].token = k
    BY DEF op, k
  <2>7. /\ active' \in BOOLEAN /\ organization' \in BOOLEAN
        /\ organization' => organization
        /\ active' => active
    BY <1>5, <2>1
  <2>8. op = "refresh" => k \in revoked'
    BY <2>1
  <2>9. op \notin {"logout_all", "password", "deactivate", "delete"} /\ UNCHANGED expired
    BY <2>1
  <2> QED
    BY <1>1, <1>3, <2>1, <2>2, <2>4, <2>5, <2>6, <2>7, <2>8, <2>9, StepKeeps
<1>8. CASE SavePassword(r) \/ SaveDeactivation(r) \/ SaveReactivation(r)
  <2>1. /\ op \in {"password", "deactivate", "reactivate"}
        /\ UNCHANGED <<organization, expired, rows>>
        /\ revoked' = IF op = "reactivate" THEN revoked ELSE rows
        /\ active' = IF op = "password" THEN active ELSE op = "reactivate"
    BY <1>8 DEF SavePassword, SaveDeactivation, SaveReactivation, Doing, RevokeSessions
  <2>2. stage = "served"
    <3>1. req'[r].stage = "served"
      BY <1>8 DEF SavePassword, SaveDeactivation, SaveReactivation, Reach, IInv, TypeOK
    <3> QED
      BY <1>4, <3>1
  <2>3. req[r].op = op /\ req[r].token = k
    OBVIOUS
  <2> HIDE DEF op, k
  <2>4. rows' = IF op \in {"login", "refresh"} /\ stage = "served" THEN rows \cup {r} ELSE rows
    BY <2>1
  <2>5. revoked \subseteq revoked' /\ revoked' \subseteq rows' /\ active' \in BOOLEAN
    BY <1>5, <2>1
  <2> QED
    BY <1>1, <1>3, <1>5, <2>1, <2>2, <2>3, <2>4, <2>5, StepKeeps
<1> QED
  BY <1>6, <1>7, <1>8

(* The requests that are served in one statement.                           *)
LEMMA OneStepKeeps ==
  ASSUME IInv, NEW r \in Request, Logout(r) \/ LogoutAll(r) \/ DeleteTenant(r)
  PROVE  IInv'
<1>1. /\ req[r].stage = "idle" /\ ~Served(r)
      /\ active \in BOOLEAN /\ organization \in BOOLEAN
      /\ revoked \subseteq rows /\ rows \subseteq Request
  BY DEF Logout, LogoutAll, DeleteTenant, Begin, Served, IInv, TypeOK
<1>2. CASE Logout(r)
  <2>1. PICK k \in rows : Begin(r, "logout", k, "served") /\ revoked' = revoked \cup {k}
    BY <1>2 DEF Logout
  <2> QED
    BY <1>1, <1>2, <2>1, StepKeeps DEF Logout, Begin, Op
<1>3. CASE LogoutAll(r)
  BY <1>1, <1>3, StepKeeps DEF LogoutAll, Begin, Op, RevokeSessions
<1>4. CASE DeleteTenant(r)
  BY <1>1, <1>4, StepKeeps DEF DeleteTenant, Begin, Op
<1> QED
  BY <1>2, <1>3, <1>4

LEMMA ExpiryKeeps == IInv /\ Expire => IInv'
BY DEF Expire, IInv, TypeOK, BeforeIsServed, IdleHasNoPast, PresentedIsToken,
       RotatedIsRevoked, PastIsSettled, EndedIsRevoked, ActiveIsReopened, DeletedIsClosed,
       GrantedWhileOpen, EndsAll, Sessions, Served, Granted, Reopened, Rotates

LEMMA NextKeepsIInv == IInv /\ [Next]_vars => IInv'
<1> SUFFICES ASSUME IInv, [Next]_vars PROVE IInv'
  OBVIOUS
<1>1. CASE UNCHANGED vars
  BY <1>1
     DEF vars, IInv, TypeOK, BeforeIsServed, IdleHasNoPast, PresentedIsToken,
         RotatedIsRevoked, PastIsSettled, EndedIsRevoked, ActiveIsReopened, DeletedIsClosed,
         GrantedWhileOpen, EndsAll, Sessions, Served, Granted, Reopened, Rotates
<1>2. CASE Next
  BY <1>2, BeginningKeeps, ServingKeeps, OneStepKeeps, ExpiryKeeps DEF Next
<1> QED
  BY <1>1, <1>2

LEMMA SpecIInv == Spec => []IInv
BY InitIInv, NextKeepsIInv, PTL DEF Spec

(* A rotated token is not rotated again by a later request, whatever else   *)
(* overlaps (auth_service.py:86-103).                                       *)
THEOREM RotationIsSequential == Spec => [](TypeOK /\ RotatedAgainOnlyAtOnce)
<1>1. IInv => TypeOK /\ RotatedAgainOnlyAtOnce
  BY DEF IInv, RotatedAgainOnlyAtOnce, PastIsSettled, Rotates
<1> QED
  BY <1>1, SpecIInv, PTL

(* What a served logout_all, change_password or deactivate found is revoked *)
(* and stays unusable (user_service.py:21-32, auth_service.py:90).          *)
THEOREM RevocationIsFinal == Spec => []OldSessionsEnd
<1>1. IInv => OldSessionsEnd
  BY DEF IInv, OldSessionsEnd, PastIsSettled, EndedIsRevoked, Rotates
<1> QED
  BY <1>1, SpecIInv, PTL

(* No session for an account deactivated, or a tenant deleted, before the   *)
(* request came (auth_service.py:34, 44 and 100).                           *)
THEOREM ClosedAccountsStayOut == Spec => []ClosedAccountsGetNoSession
<1>1. IInv => ClosedAccountsGetNoSession
  <2> SUFFICES ASSUME IInv, NEW p \in Request, NEW r \in rows, p \in before[r]
               PROVE  /\ req[p].op = "deactivate" => Reopened(p)
                      /\ req[p].op # "delete"
    BY DEF ClosedAccountsGetNoSession, Reopened
  <2>1. r \in Request /\ Granted(r)
    BY DEF IInv, TypeOK, Sessions, Served, Granted
  <2> QED
    BY <2>1 DEF IInv, GrantedWhileOpen
<1> QED
  BY <1>1, SpecIInv, PTL
=============================================================================
