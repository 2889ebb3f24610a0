------------------------------ MODULE MCAuthApi ------------------------------
(* Small instances of the auth API for TLC.                                *)
EXTENDS AuthApi, TLC

CONSTANTS admin, operator   \* accounts

MCNames == {admin, operator}

\* Both may manage tokens; only the administrator may do everything.
MCAccountScopes == (admin :> Scopes) @@ (operator :> {"auth.admin"})

Symmetry == Permutations(Keys) \cup Permutations(Threads)
=============================================================================
