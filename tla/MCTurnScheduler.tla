-------------------------- MODULE MCTurnScheduler --------------------------
(* Small instances of TurnScheduler.                                         *)
EXTENDS TurnScheduler, TLC

Symmetry == Permutations(Callers) \cup Permutations(Inputs)
=============================================================================
