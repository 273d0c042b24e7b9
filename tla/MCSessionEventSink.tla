------------------------- MODULE MCSessionEventSink -------------------------
(* Model checking of SessionEventSink: the callers are interchangeable. *)
EXTENDS SessionEventSink, TLC

CallerSymmetry == Permutations(Callers)

=============================================================================
