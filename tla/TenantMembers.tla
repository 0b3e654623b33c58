--------------------------- MODULE TenantMembers ---------------------------
(***************************************************************************)
(* The accounts and invitations of one tenant: user_service.py,            *)
(* invitation_service.py and registration_service.py, called by the routes *)
(* of modules/auth/router.py.                                              *)
(*                                                                         *)
(* Every request is one transaction at READ COMMITTED.  It reads and       *)
(* checks without a lock, and its flush and commit are one later step, in  *)
(* which only the columns it assigned are written.  A request that is      *)
(* refused changes nothing and is left out; an account is named by its     *)
(* e-mail address, which is unique in the tenant.                          *)
(***************************************************************************)
EXTENDS Naturals, FiniteSets

CONSTANTS Email,        \* addresses
          Founder,      \* accounts the model starts with
          FounderRole,  \* and their roles
          Request,      \* requests, each served once
          Asked,        \* roles that requests name
          NoUser,       \* "no account with this address"
          NoInvitation, \* "this request created no invitation"
          NoRequest,    \* "none": an account without invitation, no invitation to expire
          NotBegun,     \* a request that is still to come
          Over          \* and one that has been answered

Role == {"SUPER_ADMIN", "OWNER", "ADMIN", "MEMBER", "VIEWER"}

Priority == [role \in Role |-> CASE role = "SUPER_ADMIN" -> 5
                                 [] role = "OWNER" -> 4
                                 [] role = "ADMIN" -> 3
                                 [] role = "MEMBER" -> 2
                                 [] role = "VIEWER" -> 1]

ASSUME FounderAssumption == Founder \subseteq Email /\ FounderRole \in [Founder -> Role]
ASSUME AskedAssumption == Asked \subseteq Role
ASSUME NoRequestAssumption == NoRequest \notin Request

VARIABLES users,       \* rows of users, by address
          claims,      \* roles in the unexpired access tokens of each account
          invitations, \* rows of invitations, by the request that created them
          minted,      \* invitation tokens minted so far; a token is its number
          lapsed,      \* the first so many tokens are past their expiry
          req          \* the transaction of each request

vars == <<users, claims, invitations, minted, lapsed, req>>

User == [role : Role, active : BOOLEAN, via : Request \cup {NoRequest}]
Status == {"PENDING", "ACCEPTED", "REVOKED", "EXPIRED"}
Invitation == [email : Email, role : Role, status : Status, token : Nat]


Op == {"role", "deactivate", "reactivate", "invite", "revoke", "resend", "accept"}

\* claim: the acting role; email: the account acted on; was: its role as
\* loaded; role: the role to write; inv: the invitation to write.
Transaction == [stage : {"pending", "count", "save"}, op : Op, claim : Role \cup {NoUser},
                email : Email, was : Role \cup {NoUser}, role : Role \cup {NoUser},
                inv : Request \cup {NoRequest}]

ASSUME SentinelAssumption ==
  /\ NoUser \notin User /\ NoUser \notin Role /\ NoInvitation \notin Invitation
  /\ NotBegun \notin Transaction /\ Over \notin Transaction /\ NotBegun # Over

Exists(e) == users[e] # NoUser
Issued(i) == invitations[i] # NoInvitation
Pending(i) == Issued(i) /\ invitations[i].status = "PENDING"

\* Variant: >= for >.
HasHigherPrivilegeOrEqual(role, other) ==
  role = "SUPER_ADMIN" \/ Priority[role] >= Priority[other]

HasHigherPrivilege(role, other) ==
  role = "SUPER_ADMIN" \/ Priority[role] > Priority[other]

\* Variant: any role may be granted.
MayGrantAnything(role, other) == TRUE

MayGrant(role, other) == Priority[other] <= Priority[role]

\* require_roles: the role is the one in the access token.
Acts(u, c) == c \in claims[u] /\ c \in {"ADMIN", "OWNER"}

Run(r, t) == req' = [req EXCEPT ![r] = t]
End(r) == req' = [req EXCEPT ![r] = Over]

At(r, stage) == req[r] \notin {NotBegun, Over} /\ req[r].stage = stage
Saving(r, op) == At(r, "save") /\ req[r].op = op

tables == <<users, claims, invitations, minted, lapsed>>

-----------------------------------------------------------------------------
(* Access tokens.  Login and refresh issue one for an active account, with  *)
(* its role; nothing withdraws it before it expires.                        *)
IssueToken(u) ==
  /\ Exists(u) /\ users[u].active
  /\ claims' = [claims EXCEPT ![u] = @ \cup {users[u].role}]
  /\ UNCHANGED <<users, invitations, minted, lapsed, req>>

ExpireToken(u) ==
  /\ \E c \in claims[u] : claims' = [claims EXCEPT ![u] = @ \ {c}]
  /\ UNCHANGED <<users, invitations, minted, lapsed, req>>

-----------------------------------------------------------------------------
(* Users.  The target is loaded and checked; an administrator is counted    *)
(* by a statement of its own before it loses the role or its account.       *)

\* The request acts on account t under the claim c of another account.
ActsOn(c, t) ==
  /\ \E u \in Email \ {t} : Acts(u, c)
  /\ Exists(t) /\ HasHigherPrivilege(c, users[t].role)

Loaded(op, c, t, role, stage) ==
  [stage |-> stage, op |-> op, claim |-> c, email |-> t, was |-> users[t].role,
   role |-> role, inv |-> NoRequest]

UpdateRole(r) ==
  /\ req[r] = NotBegun
  /\ \E c \in Role, t \in Email, role \in Asked :
       /\ ActsOn(c, t)
       /\ MayGrant(c, role)
       /\ Run(r, Loaded("role", c, t, role,
                        IF users[t].role = "ADMIN" /\ role # "ADMIN" THEN "count" ELSE "save"))
  /\ UNCHANGED tables

Deactivate(r) ==
  /\ req[r] = NotBegun
  /\ \E c \in Role, t \in Email :
       /\ ActsOn(c, t)
       /\ users[t].active
       /\ Run(r, Loaded("deactivate", c, t, users[t].role,
                        IF users[t].role = "ADMIN" THEN "count" ELSE "save"))
  /\ UNCHANGED tables

\* Not refused for one's own account.
Reactivate(r) ==
  /\ req[r] = NotBegun
  /\ \E u, t \in Email, c \in Role :
       /\ Acts(u, c)
       /\ Exists(t) /\ ~users[t].active
       /\ HasHigherPrivilege(c, users[t].role)
       /\ Run(r, Loaded("reactivate", c, t, users[t].role, "save"))
  /\ UNCHANGED tables

ActiveAdmins == {u \in Email : Exists(u) /\ users[u].role = "ADMIN" /\ users[u].active}

CountActiveAdmins(r) ==
  /\ At(r, "count")
  /\ IF Cardinality(ActiveAdmins) > 1
     THEN Run(r, [req[r] EXCEPT !.stage = "save"])
     ELSE End(r)
  /\ UNCHANGED tables

\* Assigning the role the row already had writes nothing.
SaveRole(r) ==
  /\ Saving(r, "role")
  /\ users' = IF req[r].role = req[r].was THEN users
              ELSE [users EXCEPT ![req[r].email].role = req[r].role]
  /\ End(r)
  /\ UNCHANGED <<claims, invitations, minted, lapsed>>

SaveActive(r, op, active) ==
  /\ Saving(r, op)
  /\ users' = [users EXCEPT ![req[r].email].active = active]
  /\ End(r)
  /\ UNCHANGED <<claims, invitations, minted, lapsed>>

SaveDeactivation(r) == SaveActive(r, "deactivate", FALSE)
SaveReactivation(r) == SaveActive(r, "reactivate", TRUE)

-----------------------------------------------------------------------------
(* Invitations.                                                             *)
Invite(r) ==
  /\ req[r] = NotBegun
  /\ \E u, e \in Email, c \in Role, role \in Asked :
       /\ Acts(u, c)
       /\ MayGrant(c, role)
       /\ ~Exists(e)
       /\ Run(r, [stage |-> "pending", op |-> "invite", claim |-> c, email |-> e,
                  was |-> NoUser, role |-> role, inv |-> NoRequest])
  /\ UNCHANGED tables

PendingFor(e) == {i \in Request : Pending(i) /\ invitations[i].email = e}
Lapsed(i) == invitations[i].token <= lapsed

\* One of the pending invitations is looked at, whichever comes first; one
\* that has not lapsed refuses the request.
CheckPending(r) ==
  /\ At(r, "pending")
  /\ \/ /\ PendingFor(req[r].email) = {}
        /\ Run(r, [req[r] EXCEPT !.stage = "save"])
     \/ \E i \in PendingFor(req[r].email) :
          IF Lapsed(i) THEN Run(r, [req[r] EXCEPT !.stage = "save", !.inv = i]) ELSE End(r)
  /\ UNCHANGED tables

SaveInvitation(r) ==
  /\ Saving(r, "invite")
  /\ minted' = minted + 1
  /\ invitations' = [i \in Request |->
       IF i = r THEN [email |-> req[r].email, role |-> req[r].role,
                      status |-> "PENDING", token |-> minted']
       ELSE IF i = req[r].inv THEN [invitations[i] EXCEPT !.status = "EXPIRED"]
       ELSE invitations[i]]
  /\ End(r)
  /\ UNCHANGED <<users, claims, lapsed>>

\* Revoking and resending load an invitation of any age, and only a pending one.
Change(r, op) ==
  /\ req[r] = NotBegun
  /\ \E u \in Email, c \in Role, i \in Request :
       /\ Acts(u, c)
       /\ Pending(i)
       /\ Run(r, [stage |-> "save", op |-> op, claim |-> c, email |-> invitations[i].email,
                  was |-> NoUser, role |-> NoUser, inv |-> i])
  /\ UNCHANGED tables

Revoke(r) == Change(r, "revoke")
Resend(r) == Change(r, "resend")

SaveRevocation(r) ==
  /\ Saving(r, "revoke")
  /\ invitations' = [invitations EXCEPT ![req[r].inv].status = "REVOKED"]
  /\ End(r)
  /\ UNCHANGED <<users, claims, minted, lapsed>>

\* The new token and expiry are written, the status is not.
SaveResent(r) ==
  /\ Saving(r, "resend")
  /\ minted' = minted + 1
  /\ invitations' = [invitations EXCEPT ![req[r].inv].token = minted']
  /\ End(r)
  /\ UNCHANGED <<users, claims, lapsed>>

\* The token presented is the one the row holds, and neither it nor the row
\* has lapsed.
Accept(r) ==
  /\ req[r] = NotBegun
  /\ \E i \in Request :
       /\ Pending(i) /\ ~Lapsed(i)
       /\ ~Exists(invitations[i].email)
       /\ Run(r, [stage |-> "save", op |-> "accept", claim |-> NoUser,
                  email |-> invitations[i].email, was |-> NoUser,
                  role |-> invitations[i].role, inv |-> i])
  /\ UNCHANGED tables

Joined(r) ==
  /\ users' = [users EXCEPT ![req[r].email] =
                 [role |-> req[r].role, active |-> TRUE, via |-> req[r].inv]]
  /\ invitations' = [invitations EXCEPT ![req[r].inv].status = "ACCEPTED"]

\* Variant: no unique constraint, only the check made when the invitation was read.
SaveAccountUnchecked(r) ==
  /\ Saving(r, "accept")
  /\ Joined(r)
  /\ End(r)
  /\ UNCHANGED <<claims, minted, lapsed>>

\* uq_users_tenant_email refuses a second account, and the transaction with it.
SaveAccount(r) ==
  /\ Saving(r, "accept")
  /\ IF Exists(req[r].email) THEN UNCHANGED <<users, invitations>> ELSE Joined(r)
  /\ End(r)
  /\ UNCHANGED <<claims, minted, lapsed>>

\* Seven days after the oldest token that had not lapsed.
Lapse ==
  /\ lapsed < minted
  /\ lapsed' = lapsed + 1
  /\ UNCHANGED <<users, claims, invitations, minted, req>>

-----------------------------------------------------------------------------
\* register creates the first, active, administrator; an operator, or earlier
\* requests, may have put other accounts beside it.
Founded == [e \in Email |->
  IF e \in Founder THEN [role |-> FounderRole[e], active |-> TRUE, via |-> NoRequest]
  ELSE NoUser]

Init ==
  /\ users = Founded
  /\ claims = [e \in Email |-> {}]
  /\ invitations = [i \in Request |-> NoInvitation]
  /\ minted = 0 /\ lapsed = 0
  /\ req = [r \in Request |-> NotBegun]

Next ==
  \/ \E u \in Email : IssueToken(u) \/ ExpireToken(u)
  \/ Lapse
  \/ \E r \in Request :
       \/ UpdateRole(r) \/ Deactivate(r) \/ Reactivate(r) \/ CountActiveAdmins(r)
       \/ SaveRole(r) \/ SaveDeactivation(r) \/ SaveReactivation(r)
       \/ Invite(r) \/ CheckPending(r) \/ SaveInvitation(r)
       \/ Revoke(r) \/ Resend(r) \/ SaveRevocation(r) \/ SaveResent(r)
       \/ Accept(r) \/ SaveAccount(r)

Spec == Init /\ [][Next]_vars

-----------------------------------------------------------------------------
(* The rows and transactions are well formed.                               *)
TypeOK ==
  /\ users \in [Email -> User \cup {NoUser}]
  /\ claims \in [Email -> SUBSET Role]
  /\ invitations \in [Request -> Invitation \cup {NoInvitation}]
  /\ minted \in Nat /\ lapsed \in 0..minted
  /\ req \in [Request -> Transaction \cup {NotBegun, Over}]

\* No founder's role ranks below this one.
Ceilinged(role) == \E f \in Founder : Priority[role] <= Priority[FounderRole[f]]

(* However requests interleave, and however stale the roles in their        *)
(* access tokens, no account and no token ranks above every founder: the    *)
(* check of update_role and the one of create_invitation bound what         *)
(* accounts made by invitation, and promoted by them in turn, can reach     *)
(* (user_service.py:87, invitation_service.py:52).                          *)
RoleCeiling == \A e \in Email :
  /\ Exists(e) => Ceilinged(users[e].role)
  /\ \A c \in claims[e] : Ceilinged(c)

Highest(f) == \A g \in Founder : Priority[FounderRole[g]] <= Priority[FounderRole[f]]

(* A founder whose role nobody exceeds keeps it, and stays active: a        *)
(* registered tenant, whose founder is an administrator, always has an      *)
(* active one (user_service.py:82 and 128).                                 *)
FoundersKeepRank == \A f \in Founder :
  Highest(f) => /\ Exists(f) /\ users[f].active
                /\ users[f].role = FounderRole[f]

(* An invitation is marked ACCEPTED only by the transaction that made the   *)
(* account of its address, whatever other invitations of that address were  *)
(* pending or accepted at the same time (registration_service.py:101-104).  *)
AcceptedHasAccount == \A i \in Request :
  Issued(i) /\ invitations[i].status = "ACCEPTED" =>
    /\ Exists(invitations[i].email)
    /\ users[invitations[i].email].via = i
=============================================================================
