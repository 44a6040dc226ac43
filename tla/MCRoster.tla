------------------------------ MODULE MCRoster ------------------------------
(***************************************************************************)
(* Instances of Roster for TLC, with two send threads, so that frames are   *)
(* overtaken.  The address of a connection is the connection itself.        *)
(***************************************************************************)
EXTENDS Roster, TLC

CONSTANTS a, b, c, s1, s2

OneJoiner == {a, b}
TwoJoiners == {a, b, c}
OwnIp == [x \in Conns |-> x]
AllIps == Conns \cup {NoIp}
OneSender == {s1}
TwoSenders == {s1, s2}
Alike == Permutations(Conns \ {Creator}) \cup Permutations(SendThreads)

\* Bound: NobodyMissing speaks of members, and a room whose owner has left has
\* none and gets none (ClosedStaysEmpty), so those states need no exploring.
WhileOwned == ~shutdown
=============================================================================
