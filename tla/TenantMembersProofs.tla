------------------------ MODULE TenantMembersProofs ------------------------
(***************************************************************************)
(* No account outranks the founders, the highest of them stay what they    *)
(* are, and an accepted invitation has made its account: for any number of *)
(* addresses, founders, requests and pending invitations.                  *)
(***************************************************************************)
EXTENDS TenantMembers, TLAPS

InFlight(r) == req[r] \notin {NotBegun, Over}

\* What a transaction may rely on from its checks to its commit, whatever
\* the others commit in between.
Checked(t) ==
  /\ t.claim \in Role => Ceilinged(t.claim)
  /\ t.role \in Role => Ceilinged(t.role)
  /\ t.op \in {"role", "deactivate", "reactivate"} => Exists(t.email) /\ t.role \in Role
  /\ t.op \in {"role", "deactivate"} => t.email \notin Founder \/ ~Highest(t.email)
  /\ t.op \in {"invite", "accept"} => t.role \in Role
  /\ t.op \in {"accept", "revoke", "resend"} => t.inv \in Request
  /\ t.op \in {"accept", "revoke", "resend"} => invitations[t.inv].email = t.email
  /\ t.inv \in Request => Issued(t.inv)
  /\ t.stage = "pending" => t.op = "invite"

AllChecked == \A r \in Request : InFlight(r) => Checked(req[r])

InvitationsCeiling == \A i \in Request : Issued(i) => Ceilinged(invitations[i].role)

IssuedByServed == \A r \in Request : Issued(r) => req[r] = Over

IInv ==
  /\ TypeOK
  /\ RoleCeiling
  /\ InvitationsCeiling
  /\ FoundersKeepRank
  /\ AcceptedHasAccount
  /\ AllChecked
  /\ IssuedByServed

(* Ranks are numbers.                                                       *)
LEMMA PriorityType == Priority \in [Role -> 1..5]
BY DEF Priority, Role

(* Whoever a role may be granted by bounds it.                              *)
LEMMA CeilingIsDownward ==
  ASSUME NEW c \in Role, NEW role \in Role, Ceilinged(c), MayGrant(c, role)
  PROVE  Ceilinged(role)
<1>1. PICK f \in Founder : Priority[c] <= Priority[FounderRole[f]]
  BY DEF Ceilinged
<1>2. Priority[c] \in Nat /\ Priority[role] \in Nat /\ Priority[FounderRole[f]] \in Nat
  BY PriorityType, FounderAssumption
<1>3. Priority[role] <= Priority[FounderRole[f]]
  BY <1>1, <1>2 DEF MayGrant
<1> QED
  BY <1>3 DEF Ceilinged

(* No token of the tenant outranks one of its highest founders.             *)
LEMMA HighestIsSafe ==
  ASSUME IInv, NEW u \in Email, NEW c \in Role, NEW t \in Founder,
         Acts(u, c), Highest(t)
  PROVE  ~HasHigherPrivilege(c, users[t].role)
<1>1. Ceilinged(c) /\ c # "SUPER_ADMIN"
  BY DEF IInv, RoleCeiling, Acts
<1>2. PICK f \in Founder : Priority[c] <= Priority[FounderRole[f]]
  BY <1>1 DEF Ceilinged
<1>3. Priority[FounderRole[f]] <= Priority[FounderRole[t]] /\ users[t].role = FounderRole[t]
  BY DEF IInv, FoundersKeepRank, Highest
<1>4. Priority[c] \in Nat /\ Priority[FounderRole[f]] \in Nat /\ Priority[FounderRole[t]] \in Nat
  BY PriorityType, FounderAssumption
<1>5. ~(Priority[c] > Priority[FounderRole[t]])
  BY <1>2, <1>3, <1>4
<1> QED
  BY <1>1, <1>3, <1>5 DEF HasHigherPrivilege

LEMMA InitIInv == Init => IInv
<1> SUFFICES ASSUME Init PROVE IInv
  OBVIOUS
<1> USE FounderAssumption, NoRequestAssumption, SentinelAssumption DEF Init, Founded
<1>1. TypeOK
  BY DEF TypeOK, User
<1>2. \A f \in Founder : users[f] \in User /\ users[f].role = FounderRole[f] /\ users[f].active
  BY DEF User
<1>3. FoundersKeepRank
  BY <1>2 DEF FoundersKeepRank, Exists
<1>4. RoleCeiling
  <2> SUFFICES ASSUME NEW e \in Email, Exists(e) PROVE Ceilinged(users[e].role)
    BY DEF RoleCeiling
  <2>1. e \in Founder /\ users[e].role = FounderRole[e]
    BY <1>2 DEF Exists
  <2>2. Priority[FounderRole[e]] \in Nat
    BY <2>1, PriorityType
  <2> QED
    BY <2>1, <2>2 DEF Ceilinged
<1> QED
  BY <1>1, <1>3, <1>4
     DEF IInv, InvitationsCeiling, AcceptedHasAccount, AllChecked, IssuedByServed,
         Issued, InFlight

-----------------------------------------------------------------------------
(* A step that only reads: the transaction of one request moves on, to a    *)
(* state its checks support, or ends.                                       *)
LEMMA ReadingKeeps ==
  ASSUME IInv, NEW r \in Request, req[r] # Over, UNCHANGED tables,
         NEW t \in Transaction \cup {Over}, Run(r, t),
         t \in Transaction => Checked(t)
  PROVE  IInv'
<1> USE SentinelAssumption DEF IInv, Run, tables
<1>1. TypeOK'
  BY DEF TypeOK
<1>2. RoleCeiling' /\ InvitationsCeiling' /\ FoundersKeepRank' /\ AcceptedHasAccount'
  BY DEF RoleCeiling, InvitationsCeiling, FoundersKeepRank, AcceptedHasAccount, Exists, Issued
<1>3. \A w \in Request : req'[w] = IF w = r THEN t ELSE req[w]
  BY DEF TypeOK
<1>4. AllChecked'
  BY <1>3 DEF AllChecked, InFlight, Checked, Exists, Issued
<1>5. IssuedByServed'
  BY <1>3 DEF IssuedByServed, Issued
<1> QED
  BY <1>1, <1>2, <1>4, <1>5

(* A step that commits: what the other transactions rely on is still there. *)
LEMMA CommitKeepsChecked ==
  ASSUME IInv, NEW r \in Request, End(r),
         \A e \in Email : Exists(e) => Exists(e)',
         \A i \in Request : Issued(i) =>
           Issued(i)' /\ invitations'[i].email = invitations[i].email
  PROVE  AllChecked'
<1> USE SentinelAssumption DEF IInv, End
<1>1. \A w \in Request : req'[w] = IF w = r THEN Over ELSE req[w]
  BY DEF TypeOK
<1> SUFFICES ASSUME NEW w \in Request, InFlight(w)' PROVE Checked(req[w])' /\ w # r
  BY <1>1 DEF AllChecked, Checked, InFlight
<1>2. w # r /\ req'[w] = req[w] /\ Checked(req[w]) /\ req[w] \in Transaction
  BY <1>1 DEF AllChecked, InFlight, TypeOK
<1>3. req[w].email \in Email
  BY <1>2 DEF Transaction
<1> QED
  BY <1>2, <1>3 DEF Checked, Ceilinged, Highest

-----------------------------------------------------------------------------
(* The checks of update_role and deactivate.                                *)
LEMMA LoadingKeeps ==
  ASSUME IInv, NEW r \in Request, UpdateRole(r) \/ Deactivate(r)
  PROVE  IInv'
<1>1. PICK op \in {"role", "deactivate"}, c \in Role, t \in Email, role \in Role,
           stage \in {"count", "save"} :
        /\ req[r] = NotBegun
        /\ ActsOn(c, t)
        /\ Ceilinged(role)
        /\ Run(r, Loaded(op, c, t, role, stage))
  <2>1. CASE UpdateRole(r)
    <3>1. PICK c \in Role, t \in Email, role \in Asked :
            /\ ActsOn(c, t) /\ MayGrant(c, role)
            /\ Run(r, Loaded("role", c, t, role,
                     IF users[t].role = "ADMIN" /\ role # "ADMIN" THEN "count" ELSE "save"))
      BY <2>1 DEF UpdateRole
    <3>2. role \in Role /\ Ceilinged(c)
      BY <3>1, AskedAssumption DEF IInv, RoleCeiling, ActsOn, Acts
    <3>3. Ceilinged(role)
      BY <3>1, <3>2, CeilingIsDownward
    <3> QED
      BY <2>1, <3>1, <3>2, <3>3 DEF UpdateRole
  <2>2. CASE Deactivate(r)
    <3>1. PICK c \in Role, t \in Email :
            /\ ActsOn(c, t)
            /\ Run(r, Loaded("deactivate", c, t, users[t].role,
                     IF users[t].role = "ADMIN" THEN "count" ELSE "save"))
      BY <2>2 DEF Deactivate
    <3>2. users[t].role \in Role /\ Ceilinged(users[t].role)
      BY <3>1 DEF IInv, RoleCeiling, TypeOK, User, ActsOn, Exists
    <3> QED
      BY <2>2, <3>1, <3>2 DEF Deactivate
  <2> QED
    BY <2>1, <2>2
<1> DEFINE tx == Loaded(op, c, t, role, stage)
<1>2. Ceilinged(c) /\ Exists(t) /\ users[t].role \in Role
  BY <1>1 DEF IInv, RoleCeiling, ActsOn, Acts, TypeOK, User, Exists
<1>3. t \notin Founder \/ ~Highest(t)
  BY <1>1, HighestIsSafe DEF ActsOn
<1>4. tx \in Transaction
  BY <1>1, <1>2 DEF Loaded, Transaction, Op
<1>5. Checked(tx)
  BY <1>1, <1>2, <1>3, NoRequestAssumption DEF Checked, Loaded
<1>6. UNCHANGED tables /\ req[r] # Over
  BY <1>1, SentinelAssumption DEF UpdateRole, Deactivate
<1> HIDE DEF tx
<1>7. Run(r, tx)
  BY <1>1 DEF tx
<1> QED
  BY <1>4, <1>5, <1>6, <1>7, ReadingKeeps

(* The check of reactivate.                                                 *)
LEMMA ReactivateKeeps ==
  ASSUME IInv, NEW r \in Request, Reactivate(r)
  PROVE  IInv'
<1>1. PICK c \in Role, t \in Email :
        /\ \E u \in Email : Acts(u, c)
        /\ Exists(t)
        /\ Run(r, Loaded("reactivate", c, t, users[t].role, "save"))
  BY DEF Reactivate
<1> DEFINE tx == Loaded("reactivate", c, t, users[t].role, "save")
<1>2. users[t].role \in Role /\ Ceilinged(users[t].role) /\ Ceilinged(c)
  BY <1>1 DEF IInv, RoleCeiling, TypeOK, User, Exists, Acts
<1>3. tx \in Transaction
  BY <1>2 DEF Loaded, Transaction, Op
<1>4. Checked(tx)
  BY <1>1, <1>2, NoRequestAssumption DEF Checked, Loaded
<1>5. UNCHANGED tables /\ req[r] # Over
  BY SentinelAssumption DEF Reactivate
<1> HIDE DEF tx
<1>6. Run(r, tx)
  BY <1>1 DEF tx
<1> QED
  BY <1>3, <1>4, <1>5, <1>6, ReadingKeeps

(* The count of administrators and the look at pending invitations.         *)
LEMMA SecondReadKeeps ==
  ASSUME IInv, NEW r \in Request, CountActiveAdmins(r) \/ CheckPending(r)
  PROVE  IInv'
<1>1. InFlight(r) /\ req[r] \in Transaction /\ Checked(req[r])
  BY DEF CountActiveAdmins, CheckPending, At, InFlight, IInv, TypeOK, AllChecked
<1>2. UNCHANGED tables /\ req[r] # Over
  BY <1>1 DEF InFlight, CountActiveAdmins, CheckPending
<1>3. CASE End(r)
  BY <1>2, <1>3, SentinelAssumption, ReadingKeeps DEF End, Run
<1>4. CASE Run(r, [req[r] EXCEPT !.stage = "save"])
  <2>1. [req[r] EXCEPT !.stage = "save"] \in Transaction
    BY <1>1 DEF Transaction
  <2>2. Checked([req[r] EXCEPT !.stage = "save"])
    BY <1>1 DEF Checked, Transaction
  <2> QED
    BY <1>2, <1>4, <2>1, <2>2, ReadingKeeps
<1>5. ASSUME NEW i \in Request, Pending(i), req[r].op = "invite",
             Run(r, [req[r] EXCEPT !.stage = "save", !.inv = i])
      PROVE  IInv'
  <2>1. [req[r] EXCEPT !.stage = "save", !.inv = i] \in Transaction
    BY <1>1 DEF Transaction
  <2>2. Checked([req[r] EXCEPT !.stage = "save", !.inv = i])
    BY <1>1, <1>5 DEF Checked, Transaction, Pending
  <2> QED
    BY <1>2, <1>5, <2>1, <2>2, ReadingKeeps
<1>6. CheckPending(r) => req[r].op = "invite"
  BY <1>1 DEF CheckPending, At, Checked
<1> QED
  BY <1>3, <1>4, <1>5, <1>6 DEF CountActiveAdmins, CheckPending, PendingFor

(* The check of create_invitation.                                          *)
LEMMA InviteKeeps ==
  ASSUME IInv, NEW r \in Request, Invite(r)
  PROVE  IInv'
<1>1. PICK u \in Email, e \in Email, c \in Role, role \in Asked :
        /\ Acts(u, c)
        /\ MayGrant(c, role)
        /\ Run(r, [stage |-> "pending", op |-> "invite", claim |-> c, email |-> e,
                   was |-> NoUser, role |-> role, inv |-> NoRequest])
  BY DEF Invite
<1> DEFINE tx == [stage |-> "pending", op |-> "invite", claim |-> c, email |-> e,
                  was |-> NoUser, role |-> role, inv |-> NoRequest]
<1>2. role \in Role /\ Ceilinged(c)
  BY <1>1, AskedAssumption DEF IInv, RoleCeiling, Acts
<1>3. Ceilinged(role)
  BY <1>1, <1>2, CeilingIsDownward
<1>4. tx \in Transaction
  BY <1>2 DEF Transaction, Op
<1>5. Checked(tx)
  BY <1>2, <1>3, NoRequestAssumption DEF Checked
<1>6. UNCHANGED tables /\ req[r] # Over
  BY SentinelAssumption DEF Invite
<1> HIDE DEF tx
<1>7. Run(r, tx)
  BY <1>1 DEF tx
<1> QED
  BY <1>4, <1>5, <1>6, <1>7, ReadingKeeps

(* The checks of revoke, resend and join.                                   *)
LEMMA ChangeKeeps ==
  ASSUME IInv, NEW r \in Request, Revoke(r) \/ Resend(r) \/ Accept(r)
  PROVE  IInv'
<1>1. PICK op \in {"revoke", "resend", "accept"}, c \in Role \cup {NoUser},
           role \in Role \cup {NoUser}, i \in Request :
        /\ Pending(i)
        /\ c \in Role => Ceilinged(c)
        /\ role \in Role => Ceilinged(role)
        /\ op = "accept" => role \in Role
        /\ Run(r, [stage |-> "save", op |-> op, claim |-> c, email |-> invitations[i].email,
                   was |-> NoUser, role |-> role, inv |-> i])
  <2>1. CASE Accept(r)
    <3>1. PICK i \in Request :
            /\ Pending(i)
            /\ Run(r, [stage |-> "save", op |-> "accept", claim |-> NoUser,
                       email |-> invitations[i].email, was |-> NoUser,
                       role |-> invitations[i].role, inv |-> i])
      BY <2>1 DEF Accept
    <3>2. invitations[i].role \in Role /\ Ceilinged(invitations[i].role)
      BY <3>1 DEF IInv, InvitationsCeiling, TypeOK, Invitation, Pending, Issued
    <3> QED
      BY <3>1, <3>2, SentinelAssumption
  <2>2. ASSUME NEW op \in {"revoke", "resend"}, Change(r, op)
        PROVE  \E c \in Role, i \in Request :
                 /\ Pending(i) /\ Ceilinged(c)
                 /\ Run(r, [stage |-> "save", op |-> op, claim |-> c,
                            email |-> invitations[i].email, was |-> NoUser,
                            role |-> NoUser, inv |-> i])
    <3>1. PICK u \in Email, c \in Role, i \in Request :
            /\ Acts(u, c)
            /\ Pending(i)
            /\ Run(r, [stage |-> "save", op |-> op, claim |-> c,
                       email |-> invitations[i].email, was |-> NoUser,
                       role |-> NoUser, inv |-> i])
      BY <2>2 DEF Change
    <3>2. Ceilinged(c)
      BY <3>1 DEF IInv, RoleCeiling, Acts
    <3> QED
      BY <3>1, <3>2
  <2> QED
    BY <2>1, <2>2, SentinelAssumption DEF Revoke, Resend
<1> DEFINE tx == [stage |-> "save", op |-> op, claim |-> c, email |-> invitations[i].email,
                  was |-> NoUser, role |-> role, inv |-> i]
<1>2. invitations[i].email \in Email /\ Issued(i)
  BY <1>1 DEF IInv, TypeOK, Invitation, Pending, Issued
<1>3. tx \in Transaction
  BY <1>2 DEF Transaction, Op
<1>4. Checked(tx)
  BY <1>1, <1>2 DEF Checked
<1>5. UNCHANGED tables /\ req[r] # Over
  BY SentinelAssumption DEF Revoke, Resend, Change, Accept
<1> HIDE DEF tx
<1>6. Run(r, tx)
  BY <1>1 DEF tx
<1> QED
  BY <1>3, <1>4, <1>5, <1>6, ReadingKeeps

-----------------------------------------------------------------------------
(* A committed change of one account's role or activity.                    *)
LEMMA SaveUserKeeps ==
  ASSUME IInv, NEW r \in Request,
         SaveRole(r) \/ SaveDeactivation(r) \/ SaveReactivation(r)
  PROVE  IInv'
<1> DEFINE e == req[r].email
<1>1. InFlight(r) /\ req[r] \in Transaction /\ Checked(req[r])
  BY DEF SaveRole, SaveDeactivation, SaveReactivation, SaveActive, Saving, At, InFlight,
         IInv, TypeOK, AllChecked
<1>2. /\ e \in Email /\ users[e] \in User
      /\ req[r].role \in Role /\ Ceilinged(req[r].role)
      /\ End(r) /\ UNCHANGED <<claims, invitations, minted, lapsed>>
  BY <1>1 DEF SaveRole, SaveDeactivation, SaveReactivation, SaveActive, Saving, Checked,
              Transaction, IInv, TypeOK, Exists
<1>3. PICK role \in Role, active \in BOOLEAN :
        /\ users' = [users EXCEPT ![e] = [role |-> role, active |-> active, via |-> @.via]]
        /\ Ceilinged(role)
        /\ e \in Founder /\ Highest(e) => role = users[e].role /\ active
  <2>1. users[e].role \in Role /\ users[e].active \in BOOLEAN /\ Ceilinged(users[e].role)
        /\ users \in [Email -> User \cup {NoUser}]
    BY <1>2, SentinelAssumption DEF User, IInv, RoleCeiling, Exists, TypeOK
  <2>2. e \in Founder /\ Highest(e) => users[e].active
    BY DEF IInv, FoundersKeepRank
  <2>3. CASE SaveRole(r)
    <3>1. e \notin Founder \/ ~Highest(e)
      BY <1>1, <2>3 DEF SaveRole, Saving, Checked
    <3>2. CASE req[r].role = req[r].was
      <4>1. users' = [users EXCEPT ![e] = [role |-> users[e].role, active |-> users[e].active,
                                          via |-> @.via]]
        BY <1>2, <2>1, <2>3, <3>2 DEF SaveRole, User
      <4> QED
        BY <4>1, <2>1, <3>1
    <3>3. CASE req[r].role # req[r].was
      <4>1. users' = [users EXCEPT ![e] = [role |-> req[r].role, active |-> users[e].active,
                                          via |-> @.via]]
        <5>1. [users[e] EXCEPT !.role = req[r].role]
              = [role |-> req[r].role, active |-> users[e].active, via |-> users[e].via]
          BY <1>2 DEF User
        <5> QED
          BY <5>1, <2>3, <3>3 DEF SaveRole
      <4> QED
        BY <4>1, <1>2, <2>1, <3>1
    <3> QED
      BY <3>2, <3>3
  <2>4. ASSUME NEW active \in BOOLEAN, users' = [users EXCEPT ![e].active = active],
               e \in Founder /\ Highest(e) => active
        PROVE  \E role \in Role, a \in BOOLEAN :
                 /\ users' = [users EXCEPT ![e] = [role |-> role, active |-> a, via |-> @.via]]
                 /\ Ceilinged(role)
                 /\ e \in Founder /\ Highest(e) => role = users[e].role /\ a
    <3>1. users' = [users EXCEPT ![e] = [role |-> users[e].role, active |-> active,
                                        via |-> @.via]]
      <4>1. [users[e] EXCEPT !.active = active]
            = [role |-> users[e].role, active |-> active, via |-> users[e].via]
        BY <1>2 DEF User
      <4> QED
        BY <4>1, <2>4
    <3> QED
      BY <2>1, <2>4, <3>1
  <2>5. CASE SaveDeactivation(r)
    <3>1. e \notin Founder \/ ~Highest(e)
      BY <1>1, <2>5 DEF SaveDeactivation, SaveActive, Saving, Checked
    <3>2. users' = [users EXCEPT ![e].active = FALSE]
      BY <2>5 DEF SaveDeactivation, SaveActive
    <3> QED
      BY <2>4, <3>1, <3>2
  <2>6. CASE SaveReactivation(r)
    <3>1. users' = [users EXCEPT ![e].active = TRUE]
      BY <2>6 DEF SaveReactivation, SaveActive
    <3> QED
      BY <2>4, <3>1
  <2> QED
    BY <2>3, <2>5, <2>6
<1> HIDE DEF e
<1>4. \A f \in Email :
        /\ f # e => users'[f] = users[f]
        /\ f = e => /\ users'[f] \in User /\ users'[f].via = users[f].via
                    /\ users'[f].role = role /\ users'[f].active = active
  BY <1>2, <1>3 DEF User, IInv, TypeOK
<1>5. \A f \in Email : Exists(f)' <=> Exists(f)
  BY <1>2, <1>4, SentinelAssumption DEF Exists
<1>6. TypeOK'
  BY <1>2, <1>3, <1>4, SentinelAssumption DEF TypeOK, IInv, End, User
<1>7. RoleCeiling'
  BY <1>2, <1>3, <1>4, <1>5 DEF RoleCeiling, IInv, Ceilinged
<1>8. FoundersKeepRank'
  BY <1>3, <1>4, <1>5, FounderAssumption DEF FoundersKeepRank, IInv, Highest
<1>9. AcceptedHasAccount'
  <2> SUFFICES ASSUME NEW i \in Request, Issued(i), invitations[i].status = "ACCEPTED"
               PROVE  /\ users'[invitations[i].email] # NoUser
                      /\ users'[invitations[i].email].via = i
    BY <1>2 DEF AcceptedHasAccount, Issued, Exists
  <2>1. invitations[i].email \in Email
    BY DEF IInv, TypeOK, Issued, Invitation
  <2> QED
    BY <1>4, <1>5, <2>1 DEF IInv, AcceptedHasAccount, Exists
<1>10. AllChecked'
  BY <1>2, <1>5, CommitKeepsChecked DEF Issued
<1>11. InvitationsCeiling' /\ IssuedByServed'
  BY <1>2 DEF IInv, InvitationsCeiling, IssuedByServed, Issued, Ceilinged, End, TypeOK
<1> QED
  BY <1>6, <1>7, <1>8, <1>9, <1>10, <1>11 DEF IInv

(* A committed invitation, with the lapsed one it replaces.                 *)
LEMMA SaveInvitationKeeps ==
  ASSUME IInv, NEW r \in Request, SaveInvitation(r)
  PROVE  IInv'
<1>1. InFlight(r) /\ req[r] \in Transaction /\ Checked(req[r])
  BY DEF SaveInvitation, Saving, At, InFlight, IInv, TypeOK, AllChecked
<1>2. /\ req[r].email \in Email /\ req[r].role \in Role /\ Ceilinged(req[r].role)
      /\ ~Issued(r) /\ End(r) /\ UNCHANGED <<users, claims, lapsed>>
      /\ minted' = minted + 1
  BY <1>1 DEF SaveInvitation, Saving, Checked, Transaction, IInv, IssuedByServed, InFlight
<1>3. invitations'[r] = [email |-> req[r].email, role |-> req[r].role,
                        status |-> "PENDING", token |-> minted + 1]
  BY <1>2 DEF SaveInvitation
<1>4. \A i \in Request \ {r} : invitations'[i] =
        IF i = req[r].inv THEN [invitations[i] EXCEPT !.status = "EXPIRED"] ELSE invitations[i]
  BY DEF SaveInvitation
<1>5. \A i \in Request : i = req[r].inv => Issued(i)
  BY <1>1 DEF Checked
<1>6. \A i \in Request \ {r} :
        /\ Issued(i)' <=> Issued(i)
        /\ Issued(i) => /\ invitations'[i] \in Invitation
                        /\ invitations'[i].email = invitations[i].email
                        /\ invitations'[i].role = invitations[i].role
                        /\ invitations'[i].status \in {invitations[i].status, "EXPIRED"}
  <2> SUFFICES ASSUME NEW i \in Request \ {r}
               PROVE  /\ Issued(i)' <=> Issued(i)
                      /\ Issued(i) => /\ invitations'[i] \in Invitation
                                      /\ invitations'[i].email = invitations[i].email
                                      /\ invitations'[i].role = invitations[i].role
                                      /\ invitations'[i].status
                                           \in {invitations[i].status, "EXPIRED"}
    OBVIOUS
  <2>1. Issued(i) => invitations[i] \in Invitation
    BY DEF Issued, IInv, TypeOK
  <2>2. CASE i = req[r].inv
    <3>1. invitations'[i] = [invitations[i] EXCEPT !.status = "EXPIRED"] /\ Issued(i)
      BY <1>4, <1>5, <2>2
    <3> QED
      BY <2>1, <3>1, SentinelAssumption DEF Issued, Invitation, Status
  <2>3. CASE i # req[r].inv
    BY <1>4, <2>1, <2>3 DEF Issued
  <2> QED
    BY <2>2, <2>3
<1>7. TypeOK'
  <2>1. minted + 1 \in Nat /\ lapsed' \in 0..minted'
    BY <1>2 DEF IInv, TypeOK
  <2>2. invitations'[r] \in Invitation
    BY <1>2, <1>3, <2>1 DEF Invitation, Status
  <2>3. \A i \in Request : invitations'[i] \in Invitation \cup {NoInvitation}
    BY <1>6, <2>2 DEF Issued
  <2>4. invitations' \in [Request -> Invitation \cup {NoInvitation}]
    BY <2>3 DEF SaveInvitation
  <2> QED
    BY <1>2, <2>1, <2>4 DEF TypeOK, IInv, End
<1>8. RoleCeiling' /\ FoundersKeepRank'
  BY <1>2 DEF RoleCeiling, FoundersKeepRank, IInv, Exists, Ceilinged, Highest
<1>9. InvitationsCeiling'
  BY <1>2, <1>3, <1>6 DEF InvitationsCeiling, IInv, Ceilinged
<1>10. AcceptedHasAccount'
  BY <1>2, <1>3, <1>6 DEF AcceptedHasAccount, IInv, Exists
<1>11. IssuedByServed'
  BY <1>2, <1>6 DEF IssuedByServed, IInv, End, TypeOK
<1>12. AllChecked'
  BY <1>2, <1>6, CommitKeepsChecked DEF Exists
<1> QED
  BY <1>7, <1>8, <1>9, <1>10, <1>11, <1>12 DEF IInv

(* A committed revocation or a new token.                                   *)
LEMMA SaveChangeKeeps ==
  ASSUME IInv, NEW r \in Request, SaveRevocation(r) \/ SaveResent(r)
  PROVE  IInv'
<1> DEFINE i == req[r].inv
<1>1. InFlight(r) /\ req[r] \in Transaction /\ Checked(req[r])
  BY DEF SaveRevocation, SaveResent, Saving, At, InFlight, IInv, TypeOK, AllChecked
<1>2. /\ i \in Request /\ Issued(i) /\ invitations[i] \in Invitation
      /\ End(r) /\ UNCHANGED <<users, claims, lapsed>>
      /\ minted' \in {minted, minted + 1}
  BY <1>1 DEF SaveRevocation, SaveResent, Saving, Checked, IInv, TypeOK, Issued
<1>3. minted' \in Nat /\ lapsed \in 0..minted'
  BY <1>2 DEF IInv, TypeOK
<1>4. \A j \in Request : j # i => invitations'[j] = invitations[j]
  BY DEF SaveRevocation, SaveResent, IInv, TypeOK
<1>5. /\ invitations'[i] \in Invitation
      /\ invitations'[i].email = invitations[i].email
      /\ invitations'[i].role = invitations[i].role
      /\ invitations'[i].status \in {invitations[i].status, "REVOKED"}
  BY <1>2, <1>3 DEF SaveRevocation, SaveResent, Invitation, Status, IInv, TypeOK
<1> HIDE DEF i
<1>6. \A j \in Request : Issued(j)' <=> Issued(j)
  BY <1>2, <1>4, <1>5, SentinelAssumption DEF Issued
<1>7. TypeOK'
  <2>1. invitations' \in [Request -> Invitation \cup {NoInvitation}]
    BY <1>2, <1>5 DEF SaveRevocation, SaveResent, IInv, TypeOK, i
  <2> QED
    BY <1>2, <1>3, <2>1 DEF TypeOK, IInv, End
<1>8. RoleCeiling' /\ FoundersKeepRank'
  BY <1>2 DEF RoleCeiling, FoundersKeepRank, IInv, Exists, Ceilinged, Highest
<1>9. InvitationsCeiling'
  BY <1>4, <1>5, <1>6 DEF InvitationsCeiling, IInv, Ceilinged
<1>10. AcceptedHasAccount'
  BY <1>2, <1>4, <1>5, <1>6 DEF AcceptedHasAccount, IInv, Exists
<1>11. IssuedByServed'
  BY <1>2, <1>6 DEF IssuedByServed, IInv, End, TypeOK
<1>12. AllChecked'
  BY <1>2, <1>4, <1>5, <1>6, CommitKeepsChecked DEF Exists
<1> QED
  BY <1>7, <1>8, <1>9, <1>10, <1>11, <1>12 DEF IInv

(* A committed account with its accepted invitation, or the refusal of the  *)
(* unique constraint.                                                       *)
LEMMA SaveAccountKeeps ==
  ASSUME IInv, NEW r \in Request, SaveAccount(r)
  PROVE  IInv'
<1> DEFINE i == req[r].inv
           e == req[r].email
<1>1. InFlight(r) /\ req[r] \in Transaction /\ Checked(req[r])
  BY DEF SaveAccount, Saving, At, InFlight, IInv, TypeOK, AllChecked
<1>2. CASE Exists(e)
  BY <1>1, <1>2, SentinelAssumption, ReadingKeeps
     DEF SaveAccount, End, Run, tables, InFlight
<1>3. CASE ~Exists(e)
  <2>1. /\ i \in Request /\ Issued(i) /\ invitations[i] \in Invitation
        /\ invitations[i].email = e /\ e \in Email
        /\ req[r].role \in Role /\ Ceilinged(req[r].role)
        /\ End(r) /\ Joined(r) /\ UNCHANGED <<claims, minted, lapsed>>
    BY <1>1, <1>3 DEF SaveAccount, Saving, Checked, Transaction, IInv, TypeOK, Issued
  <2>2. /\ users'[e] = [role |-> req[r].role, active |-> TRUE, via |-> i]
        /\ \A f \in Email \ {e} : users'[f] = users[f]
    BY <2>1 DEF Joined, IInv, TypeOK
  <2>3. /\ invitations'[i] = [invitations[i] EXCEPT !.status = "ACCEPTED"]
        /\ \A j \in Request \ {i} : invitations'[j] = invitations[j]
    BY <2>1 DEF Joined, IInv, TypeOK
  <2>4. /\ invitations'[i] \in Invitation
        /\ invitations'[i].email = e
        /\ invitations'[i].role = invitations[i].role
    BY <2>1, <2>3 DEF Invitation, Status
  <2>5. users'[e] \in User
    BY <2>1, <2>2 DEF User
  <2>6. TypeOK'
    <3>1. users' \in [Email -> User \cup {NoUser}]
      BY <2>1, <2>5, <2>2 DEF Joined, IInv, TypeOK
    <3>2. invitations' \in [Request -> Invitation \cup {NoInvitation}]
      BY <2>1, <2>4, <2>3 DEF Joined, IInv, TypeOK
    <3> QED
      BY <2>1, <3>1, <3>2 DEF TypeOK, IInv, End
  <2> HIDE DEF i, e
  <2>7. \A f \in Email : Exists(f) => Exists(f)' /\ f # e
    BY <1>3, <2>2 DEF Exists
  <2>8. \A j \in Request : Issued(j)' <=> Issued(j)
    BY <2>1, <2>3, <2>4, SentinelAssumption DEF Issued
  <2>9. RoleCeiling'
    BY <2>1, <2>2 DEF RoleCeiling, IInv, Exists, Ceilinged
  <2>10. FoundersKeepRank'
    BY <2>2, <2>7, FounderAssumption DEF FoundersKeepRank, IInv, Highest
  <2>11. InvitationsCeiling'
    BY <2>3, <2>4, <2>8 DEF InvitationsCeiling, IInv, Ceilinged
  <2>12. AcceptedHasAccount'
    <3> SUFFICES ASSUME NEW j \in Request, Issued(j), invitations'[j].status = "ACCEPTED"
                 PROVE  /\ users'[invitations'[j].email] # NoUser
                        /\ users'[invitations'[j].email].via = j
      BY <2>8 DEF AcceptedHasAccount, Exists
    <3>1. CASE j = i
      BY <2>2, <2>4, <2>5, <3>1, SentinelAssumption
    <3>2. CASE j # i
      <4>1. /\ invitations'[j] = invitations[j] /\ invitations[j].email \in Email
            /\ Exists(invitations[j].email) /\ users[invitations[j].email].via = j
        BY <2>3, <3>2 DEF IInv, AcceptedHasAccount, TypeOK, Issued, Invitation
      <4> QED
        BY <2>2, <2>7, <4>1 DEF Exists
    <3> QED
      BY <3>1, <3>2
  <2>13. IssuedByServed'
    BY <2>1, <2>8 DEF IssuedByServed, IInv, End, TypeOK
  <2>14. AllChecked'
    BY <2>1, <2>3, <2>4, <2>7, <2>8, CommitKeepsChecked
  <2> QED
    BY <2>6, <2>9, <2>10, <2>11, <2>12, <2>13, <2>14 DEF IInv
<1> QED
  BY <1>2, <1>3

(* Tokens carry the role of their account; time only lapses invitations.    *)
LEMMA OutsideKeeps ==
  ASSUME IInv, Lapse \/ \E u \in Email : IssueToken(u) \/ ExpireToken(u)
  PROVE  IInv'
<1>1. /\ UNCHANGED <<users, invitations, minted, req>>
      /\ lapsed' \in 0..minted
      /\ claims' \in [Email -> SUBSET Role]
      /\ \A e \in Email : \A c \in claims'[e] :
           c \in claims[e] \/ (Exists(e) /\ c = users[e].role)
  <2>1. /\ minted \in Nat /\ lapsed \in 0..minted
        /\ claims \in [Email -> SUBSET Role]
        /\ \A e \in Email : Exists(e) => users[e].role \in Role
    BY DEF IInv, TypeOK, Exists, User
  <2>2. CASE Lapse
    <3>1. UNCHANGED <<users, claims, invitations, minted, req>> /\ lapsed' \in 0..minted
      BY <2>1, <2>2 DEF Lapse
    <3> QED
      BY <2>1, <3>1
  <2>3. CASE \E u \in Email : IssueToken(u)
    <3>1. PICK u \in Email :
            /\ Exists(u)
            /\ claims' = [claims EXCEPT ![u] = @ \cup {users[u].role}]
            /\ UNCHANGED <<users, invitations, minted, lapsed, req>>
      BY <2>3 DEF IssueToken
    <3> QED
      BY <2>1, <3>1
  <2>4. CASE \E u \in Email : ExpireToken(u)
    <3>1. PICK u \in Email :
            /\ \E c \in claims[u] : claims' = [claims EXCEPT ![u] = @ \ {c}]
            /\ UNCHANGED <<users, invitations, minted, lapsed, req>>
      BY <2>4 DEF ExpireToken
    <3> QED
      BY <2>1, <3>1
  <2> QED
    BY <2>2, <2>3, <2>4
<1>2. InvitationsCeiling' /\ FoundersKeepRank' /\ AcceptedHasAccount' /\ AllChecked'
      /\ IssuedByServed'
  BY <1>1 DEF IInv, InvitationsCeiling, FoundersKeepRank, AcceptedHasAccount, AllChecked,
              IssuedByServed, Issued, Exists, Checked, Ceilinged, Highest, InFlight
<1>3. RoleCeiling'
  BY <1>1 DEF IInv, RoleCeiling, Exists, Ceilinged
<1> QED
  BY <1>1, <1>2, <1>3 DEF IInv, TypeOK

LEMMA NextKeepsIInv == IInv /\ [Next]_vars => IInv'
<1> SUFFICES ASSUME IInv, [Next]_vars PROVE IInv'
  OBVIOUS
<1>1. CASE UNCHANGED vars
  BY <1>1 DEF vars, IInv, TypeOK, RoleCeiling, InvitationsCeiling, FoundersKeepRank,
              AcceptedHasAccount, AllChecked, IssuedByServed, Issued, Exists, Checked,
              Ceilinged, Highest, InFlight
<1>2. CASE Next
  BY <1>2, OutsideKeeps, LoadingKeeps, ReactivateKeeps, SecondReadKeeps, InviteKeeps,
     ChangeKeeps, SaveUserKeeps, SaveInvitationKeeps, SaveChangeKeeps, SaveAccountKeeps
     DEF Next
<1> QED
  BY <1>1, <1>2

LEMMA SpecIInv == Spec => []IInv
BY InitIInv, NextKeepsIInv, PTL DEF Spec

(* However requests interleave and however stale the roles in their tokens, *)
(* nobody outranks every founder (user_service.py:87,                       *)
(* invitation_service.py:52).                                               *)
THEOREM NobodyOutranksFounders == Spec => [](TypeOK /\ RoleCeiling)
<1>1. IInv => TypeOK /\ RoleCeiling
  BY DEF IInv
<1> QED
  BY <1>1, SpecIInv, PTL

(* The highest founders keep their role and stay active                     *)
(* (user_service.py:82 and 128).                                            *)
THEOREM FoundersStay == Spec => []FoundersKeepRank
<1>1. IInv => FoundersKeepRank
  BY DEF IInv
<1> QED
  BY <1>1, SpecIInv, PTL

(* An accepted invitation is the one its address's account was made from    *)
(* (registration_service.py:101-104).                                       *)
THEOREM AcceptedMadeAccount == Spec => []AcceptedHasAccount
<1>1. IInv => AcceptedHasAccount
  BY DEF IInv
<1> QED
  BY <1>1, SpecIInv, PTL

(* In a tenant as registration leaves it, with one administrator as the     *)
(* only founder, some administrator is active at all times                  *)
(* (registration_service.py:41-47).                                         *)
THEOREM RegisteredTenantKeepsAdmin ==
  ASSUME NEW f, Founder = {f}, FounderRole[f] = "ADMIN"
  PROVE  Spec => [](ActiveAdmins # {})
<1>1. FoundersKeepRank => ActiveAdmins # {}
  <2> SUFFICES ASSUME FoundersKeepRank PROVE f \in ActiveAdmins
    OBVIOUS
  <2>1. Priority[FounderRole[f]] \in Nat
    BY FounderAssumption, PriorityType
  <2>2. Highest(f)
    BY <2>1 DEF Highest
  <2> QED
    BY <2>2, FounderAssumption DEF FoundersKeepRank, ActiveAdmins
<1> QED
  BY <1>1, FoundersStay, PTL
=============================================================================
