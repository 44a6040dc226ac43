------------------------------- MODULE MCRoom -------------------------------
(***************************************************************************)
(* Instances of Room for TLC.  The address of a connection is named by the  *)
(* connection itself, so that different connections have different ones and *)
(* the joiners are symmetric.                                               *)
(***************************************************************************)
EXTENDS Room, TLC

CONSTANTS a, b, c, s1

OneJoiner == {a, b}
TwoJoiners == {a, b, c}
OwnIp == [x \in Conns |-> x]
\* getpeername() fails for the joiner.
NamelessJoiner == [x \in Conns |-> IF x = Creator THEN x ELSE NoIp]
AllIps == Conns \cup {NoIp}
OneSender == {s1}
Joiners == Permutations(Conns \ {Creator})
=============================================================================
