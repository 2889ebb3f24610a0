--------------------------- MODULE MCIdentityStore ---------------------------
(* Small instances of the identity store for TLC.                          *)
EXTENDS IdentityStore, TLC

CONSTANT MaxTime   \* the last second of the model's clock

MCTimes == 0..MaxTime

Symmetry == Permutations(Keys) \cup Permutations(Clients)
=============================================================================
