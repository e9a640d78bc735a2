---------------------------- MODULE MCConnection ----------------------------
(* Instances of Connection for TLC. *)
EXTENDS Connection
CONSTANTS room, list
TwoQueries == {room, list}
=============================================================================
