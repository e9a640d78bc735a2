----------------------------- MODULE MCReviews -----------------------------
(* Instances of Reviews for TLC: what is counted is bounded by the constants. *)
EXTENDS Reviews
=============================================================================
