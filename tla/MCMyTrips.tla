---------------------------- MODULE MCMyTrips ----------------------------
(* Instances of MyTrips for TLC. *)
EXTENDS MyTrips
CONSTANTS plain, edited
TwoValues == {plain, edited}
=============================================================================
