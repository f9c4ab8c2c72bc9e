------------------------------- MODULE MCMail -------------------------------
(* Mail for TLC. *)
EXTENDS Mail

CONSTANTS ann, bob, t1

Prices == [kind \in Kind |-> IF kind = "parcel" THEN 1 ELSE 0]
Purses == [p \in Player |-> IF p = ann THEN 1 ELSE 0]
Correspondents == {<<ann, bob>>, <<bob, bob>>}
=============================================================================
