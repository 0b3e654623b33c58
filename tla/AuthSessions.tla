---------------------------- MODULE AuthSessions ----------------------------
(***************************************************************************)
(* The refresh tokens of one account: auth_service.py, the operations of   *)
(* user_service.py that end sessions, and the deletion of the tenant.      *)
(*                                                                         *)
(* A request is one transaction at READ COMMITTED.  Its reads take no lock;*)
(* its writes take effect in one step, when it commits.  A bulk revocation *)
(* is an UPDATE of the rows visible to it, in the step that commits it: a  *)
(* rotation it has to wait for has the effect of one that commits later.   *)
(* A token is named by the request that inserted its row.                  *)
(***************************************************************************)
EXTENDS Naturals

CONSTANTS Request,  \* requests, each served once
          NoToken   \* "no row", "no token presented"

ASSUME NoTokenAssumption == NoToken \notin Request

VARIABLES active,       \* users.is_active
          organization, \* tenants.is_active
          revoked,      \* tokens whose revoked_at is set
          expired,      \* tokens past their expires_at
          rows,         \* tokens in refresh_tokens
          req,          \* the transaction of each request
          before        \* history: the requests served before each one began

vars == <<active, organization, revoked, expired, rows, req, before>>

Op == {"none", "login", "refresh", "logout", "logout_all", "password",
       "deactivate", "reactivate", "delete"}
Stage == {"idle", "begun", "checked", "served", "refused"}

Doing(r, op, stage) == req[r].op = op /\ req[r].stage = stage
Served(r) == req[r].stage = "served"

\* A request begins, with the token it presents, after those already served.
Begin(r, op, token, stage) ==
  /\ req[r].stage = "idle"
  /\ req' = [req EXCEPT ![r] = [op |-> op, stage |-> stage, token |-> token]]
  /\ before' = [before EXCEPT ![r] = {q \in Request : Served(q)}]

Reach(r, stage) == req' = [req EXCEPT ![r].stage = stage] /\ UNCHANGED before

Usable(k) == k \in rows \ (revoked \cup expired)

database == <<active, organization, revoked, expired, rows>>

-----------------------------------------------------------------------------
(* login and refresh.  The tenant is the first thing a login reads, and the *)
(* token the first thing a refresh reads.                                   *)
Login(r) ==
  /\ organization
  /\ Begin(r, "login", NoToken, "begun")
  /\ UNCHANGED database

Refresh(r) ==
  /\ \E k \in Request : Usable(k) /\ Begin(r, "refresh", k, "begun")
  /\ UNCHANGED database

\* Variant: a refresh trusts its token.
AdmittedByToken(r) == req[r].op = "refresh" \/ active

\* A refresh reads the tenant again.
Admitted(r) == active /\ (req[r].op = "refresh" => organization)

CheckAccount(r) ==
  /\ req[r].op \in {"login", "refresh"} /\ req[r].stage = "begun"
  /\ Reach(r, IF Admitted(r) THEN "checked" ELSE "refused")
  /\ UNCHANGED database

Issue(r) == rows' = rows \cup {r}

SaveLogin(r) ==
  /\ Doing(r, "login", "checked")
  /\ Issue(r)
  /\ Reach(r, "served")
  /\ UNCHANGED <<active, organization, revoked, expired>>

\* Variant: the old token is left alone.
SaveRefreshOnly(r) ==
  /\ Doing(r, "refresh", "checked")
  /\ Issue(r)
  /\ Reach(r, "served")
  /\ UNCHANGED <<active, organization, revoked, expired>>

\* The old row is written by its key: it is not looked at again.
SaveRefresh(r) ==
  /\ Doing(r, "refresh", "checked")
  /\ Issue(r)
  /\ revoked' = revoked \cup {req[r].token}
  /\ Reach(r, "served")
  /\ UNCHANGED <<active, organization, expired>>

-----------------------------------------------------------------------------
(* The ends of sessions.                                                    *)
Logout(r) ==
  /\ \E k \in rows \ expired :
       /\ Begin(r, "logout", k, "served")
       /\ revoked' = revoked \cup {k}
  /\ UNCHANGED <<active, organization, expired, rows>>

\* Variant: the sessions are left alone.
RevokeNothing == UNCHANGED revoked

RevokeSessions == revoked' = rows

LogoutAll(r) ==
  /\ Begin(r, "logout_all", NoToken, "served")
  /\ RevokeSessions
  /\ UNCHANGED <<active, organization, expired, rows>>

\* The current password is verified against the row as loaded.
ChangePassword(r) ==
  /\ Begin(r, "password", NoToken, "checked")
  /\ UNCHANGED database

SavePassword(r) ==
  /\ Doing(r, "password", "checked")
  /\ RevokeSessions
  /\ Reach(r, "served")
  /\ UNCHANGED <<active, organization, expired, rows>>

Deactivate(r) ==
  /\ active
  /\ Begin(r, "deactivate", NoToken, "checked")
  /\ UNCHANGED database

SaveDeactivation(r) ==
  /\ Doing(r, "deactivate", "checked")
  /\ active' = FALSE
  /\ RevokeSessions
  /\ Reach(r, "served")
  /\ UNCHANGED <<organization, expired, rows>>

Reactivate(r) ==
  /\ ~active
  /\ Begin(r, "reactivate", NoToken, "checked")
  /\ UNCHANGED database

SaveReactivation(r) ==
  /\ Doing(r, "reactivate", "checked")
  /\ active' = TRUE
  /\ Reach(r, "served")
  /\ UNCHANGED <<organization, revoked, expired, rows>>

\* Nothing takes the deletion of a tenant back, so that reading and writing
\* it are one step.
DeleteTenant(r) ==
  /\ organization
  /\ Begin(r, "delete", NoToken, "served")
  /\ organization' = FALSE
  /\ UNCHANGED <<active, revoked, expired, rows>>

Expire ==
  /\ \E k \in rows \ expired : expired' = expired \cup {k}
  /\ UNCHANGED <<active, organization, revoked, rows, req, before>>

-----------------------------------------------------------------------------
Init ==
  /\ active = TRUE /\ organization = TRUE
  /\ revoked = {} /\ expired = {} /\ rows = {}
  /\ req = [r \in Request |-> [op |-> "none", stage |-> "idle", token |-> NoToken]]
  /\ before = [r \in Request |-> {}]

Next ==
  \/ Expire
  \/ \E r \in Request :
       \/ Login(r) \/ Refresh(r) \/ CheckAccount(r) \/ SaveLogin(r) \/ SaveRefresh(r)
       \/ Logout(r) \/ LogoutAll(r)
       \/ ChangePassword(r) \/ SavePassword(r)
       \/ Deactivate(r) \/ SaveDeactivation(r) \/ Reactivate(r) \/ SaveReactivation(r)
       \/ DeleteTenant(r)

Spec == Init /\ [][Next]_vars

-----------------------------------------------------------------------------
Sessions(r) == Served(r) /\ req[r].op \in {"login", "refresh"}

(* Types, and the rows of refresh_tokens are those the served logins and    *)
(* refreshes returned to their clients.                                     *)
TypeOK ==
  /\ active \in BOOLEAN /\ organization \in BOOLEAN
  /\ rows = {r \in Request : Sessions(r)}
  /\ revoked \subseteq rows /\ expired \subseteq rows
  /\ req \in [Request -> [op : Op, stage : Stage, token : Request \cup {NoToken}]]
  /\ before \in [Request -> SUBSET Request]

Rotates(r, k) == req[r].op = "refresh" /\ req[r].token = k

(* A token that was rotated is not rotated again by a request that comes    *)
(* after: two successful refreshes of one token overlapped                  *)
(* (auth_service.py:86-103).                                                *)
RotatedAgainOnlyAtOnce == \A a, b \in Request :
  Served(b) /\ Rotates(a, req[b].token) /\ Rotates(b, req[b].token) => a \notin before[b]

EndsAll(p) == Served(p) /\ req[p].op \in {"logout_all", "password", "deactivate"}

(* What the end of all sessions found is over: every session granted before *)
(* it began is revoked when it is served, and no request that came after    *)
(* it exchanged one of them (user_service.py:21-32, auth_service.py:90).    *)
OldSessionsEnd == \A p, k \in Request : EndsAll(p) /\ k \in rows /\ k \in before[p] =>
  /\ k \in revoked
  /\ \A r \in Request : Served(r) /\ Rotates(r, k) => p \notin before[r]

(* A request that comes after a deactivation gets no session, unless a      *)
(* reactivation overlapped or followed; one that comes after the deletion   *)
(* of the tenant gets none (auth_service.py:34, 44 and 100).                *)
ClosedAccountsGetNoSession == \A p \in Request, r \in rows : p \in before[r] =>
  /\ req[p].op = "deactivate" =>
       \E q \in Request : Served(q) /\ req[q].op = "reactivate" /\ q \notin before[p]
  /\ req[p].op # "delete"
=============================================================================
