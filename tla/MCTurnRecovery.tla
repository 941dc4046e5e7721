---------------------------- MODULE MCTurnRecovery ----------------------------
(* One session on small instances: the bounds are in the cfg files.            *)
EXTENDS TurnRecovery
=============================================================================
