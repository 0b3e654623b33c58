--------------------------- MODULE MCAuthSessions ---------------------------
(* Five requests: enough for a session, its rotation, a revocation and what *)
(* comes after.                                                             *)
EXTENDS AuthSessions, TLC

MCSymmetry == Permutations(Request)
=============================================================================
