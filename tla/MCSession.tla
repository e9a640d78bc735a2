----------------------------- MODULE MCSession -----------------------------
(* Instances of Session for TLC. *)
EXTENDS Session
CONSTANTS ann, ben, tim
OneEmail == {ann}
TwoEmails == {ann, ben}
OneSocial == {tim}
None == {}
=============================================================================
