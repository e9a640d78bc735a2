------------------------------ MODULE MCSearch ------------------------------
(* Instances of Search for TLC. *)
EXTENDS Search
CONSTANTS from, to, city, land
OneEnd == {from}
OneCity == {city}
OneCountry == {land}
=============================================================================
