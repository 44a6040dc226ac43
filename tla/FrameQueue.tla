----------------------------- MODULE FrameQueue -----------------------------
(***************************************************************************)
(* What SEND_QUEUE promises to the room, without threads that sleep and     *)
(* without pills: a bounded FIFO that can be closed and emptied.  A closed  *)
(* queue takes no more frames, hands out those it has, and only then sends  *)
(* its readers home.                                                        *)
(***************************************************************************)
EXTENDS Naturals, Sequences

CONSTANTS Capacity, Readers, Frames, Idle, Retired

VARIABLES frames, closed, reading

Init ==
  /\ frames = <<>>
  /\ closed = FALSE
  /\ reading = [r \in Readers |-> Idle]

Put(f) ==
  /\ ~closed
  /\ Len(frames) < Capacity
  /\ frames' = Append(frames, f)
  /\ UNCHANGED <<closed, reading>>

Take(r) ==
  /\ reading[r] # Retired
  /\ frames # <<>>
  /\ reading' = [reading EXCEPT ![r] = Head(frames)]
  /\ frames' = Tail(frames)
  /\ UNCHANGED closed

Retire(r) ==
  /\ closed
  /\ frames = <<>>
  /\ reading' = [reading EXCEPT ![r] = Retired]
  /\ UNCHANGED <<frames, closed>>

Close == closed' = TRUE /\ UNCHANGED <<frames, reading>>

Discard == frames' = <<>> /\ UNCHANGED <<closed, reading>>

Next ==
  \/ \E f \in Frames : Put(f)
  \/ \E r \in Readers : Take(r) \/ Retire(r)
  \/ Close
  \/ Discard

Spec == Init /\ [][Next]_<<frames, closed, reading>>
=============================================================================
