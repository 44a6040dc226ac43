------------------------------- MODULE Meeting -------------------------------
(***************************************************************************)
(* What a room promises about who is in the meeting, without sockets,       *)
(* queues and threads: everybody comes in at most once and comes from       *)
(* outside, only the host's leaving ends the meeting, it then ends for all  *)
(* at the same moment, and a meeting that is over is over.                  *)
(***************************************************************************)
CONSTANTS People, Host

VARIABLES
  outside,          \* those who have not been in yet and may still come
  present,          \* those in the meeting
  over              \* it has ended

Init == outside = People /\ present = {} /\ over = FALSE

Enter(p) ==
  /\ p \in outside
  /\ ~over
  /\ outside' = outside \ {p}
  /\ present' = present \cup {p}
  /\ UNCHANGED over

\* Somebody gives up, or comes too late; the host does neither.
TurnAway(p) ==
  /\ p \in outside \ {Host}
  /\ outside' = outside \ {p}
  /\ UNCHANGED <<present, over>>

Leave(p) ==
  /\ p \in present \ {Host}
  /\ present' = present \ {p}
  /\ UNCHANGED <<outside, over>>

End ==
  /\ Host \in present
  /\ ~over
  /\ present' = {}
  /\ over' = TRUE
  /\ UNCHANGED outside

Next ==
  \/ \E p \in People : Enter(p) \/ TurnAway(p) \/ Leave(p)
  \/ End

Spec == Init /\ [][Next]_<<outside, present, over>>
=============================================================================
