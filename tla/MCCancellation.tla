--------------------------- MODULE MCCancellation ---------------------------
(* Task deep calls promises, task flat waits for plain operations only.    *)
EXTENDS Cancellation

CONSTANTS deep, flat

MCDepth == [t \in Tasks |-> IF t = deep THEN 2 ELSE 1]
MCWaits == [t \in Tasks |-> IF t = deep THEN Kinds ELSE {"plain"}]
=============================================================================
