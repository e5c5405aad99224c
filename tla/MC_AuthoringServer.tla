------------------------- MODULE MC_AuthoringServer -------------------------
(* Instances of AuthoringServer for TLC. *)
EXTENDS AuthoringServer, TLC

CONSTANTS textA, textB

MCText == {textA, textB}
MCInvalid == {textB}
MCSeed == [rev |-> 0, text |-> textA]
=============================================================================
