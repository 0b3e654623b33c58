---------------------------- MODULE MCUnitOfWork ----------------------------
(* Two units of two tenants that share one app and one owner connection.    *)
EXTENDS UnitOfWork, TLC

CONSTANTS u1, u2, t1, t2
MCTenantOf == u1 :> t1 @@ u2 :> t2
=============================================================================
