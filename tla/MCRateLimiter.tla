---------------------------- MODULE MCRateLimiter ----------------------------
(* Small instances of the rate limiter for TLC.                            *)
EXTENDS RateLimiter, TLC

Symmetry == Permutations(Logins) \cup Permutations(Accounts)
=============================================================================
