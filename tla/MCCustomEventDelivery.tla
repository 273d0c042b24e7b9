----------------------- MODULE MCCustomEventDelivery -----------------------
(* CustomEventDelivery for TLC: the lane tasks are interchangeable. *)
EXTENDS CustomEventDelivery, TLC

LaneSymmetry == Permutations(Lanes)

=============================================================================
