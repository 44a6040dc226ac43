--------------------------- MODULE MCSendQueueUse ---------------------------
(***************************************************************************)
(* An instance of SendQueueUse for TLC.                                     *)
(***************************************************************************)
EXTENDS SendQueueUse

CONSTANTS p1, p2, c1, c2, m1, m2

MCProducers == {p1, p2}
MCConsumers == {c1, c2}
MCTwoMessages == {m1, m2}
=============================================================================
