-------------------------- MODULE MCTenantMembers --------------------------
(* An owner, an administrator and an address without account.               *)
EXTENDS TenantMembers, TLC

CONSTANTS own, adm, new

\* The owner is above the administrators: they can be demoted.
MCOwned == own :> "OWNER" @@ adm :> "ADMIN"
MCSymmetry == Permutations(Request)
=============================================================================
