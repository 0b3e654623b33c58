---------------------------- MODULE MCRateLimiter ----------------------------
(* A user with tokens of two plans, and two ticks to the second.            *)
EXTENDS RateLimiter
=============================================================================
