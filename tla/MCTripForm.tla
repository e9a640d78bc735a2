---------------------------- MODULE MCTripForm ----------------------------
(* Instances of TripForm for TLC. *)
EXTENDS TripForm
CONSTANTS i1, i2
NoItems == {}
TwoItems == {i1, i2}
=============================================================================
