--------------------------- MODULE MCMessageSend ---------------------------
(* Instances of MessageSend for TLC. *)
EXTENDS MessageSend
CONSTANTS t1, t2, t3, m1, m2
OneText == {t1}
TwoTexts == {t1, t2}
OneImage == {m1}
TwoImages == {m1, m2}
None == {}
=============================================================================
