----------------------------- MODULE MCBootstrap -----------------------------
(* Small instances of the bootstrap for TLC.                               *)
EXTENDS Bootstrap

CONSTANT MaxTime   \* the last second of the model's clock

MCTimes == 0..MaxTime
=============================================================================
