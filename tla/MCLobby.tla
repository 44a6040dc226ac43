------------------------------ MODULE MCLobby ------------------------------
(***************************************************************************)
(* Instances of Lobby for TLC.                                              *)
(***************************************************************************)
EXTENDS Lobby

CONSTANTS a1, a2, c1, c2, c3

MCAcceptors == {a1, a2}
MCClients == {c1, c2, c3}
MCNumbers == 1..2
=============================================================================
