------------------------------ MODULE MCWidget ------------------------------
(***************************************************************************)
(* The instance of Widget for TLC: a member elsewhere and one on the        *)
(* machine of this client, who has its address.                             *)
(***************************************************************************)
EXTENDS Widget

CONSTANTS me, zero, minus, a

MCOthers == {a, me}

\* What is on its way to other threads and to the server, or back from them.
InFlight == {kind \in {"text", "signal", "frame", "request"} :
               \/ kind = "text" /\ text # "none"
               \/ kind = "signal" /\ micPosted # <<>>
               \/ kind = "frame" /\ camera = "late"
               \/ kind = "request" /\ asked # <<>>}

\* Checked, but not left: a state with three tiles, one with two things in
\* flight, and one that MicIsShown does not speak of.
Within ==
  Cardinality(Shown) <= 2 /\ Cardinality(InFlight) <= 1 /\ ~overrun
=============================================================================
