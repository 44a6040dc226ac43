------------------------------ MODULE Framing ------------------------------
(***************************************************************************)
(* recvFromSocket of the client (mytcpsocket.cpp): bytes that arrive in any *)
(* pieces are gathered in recvbuf and cut into the frames                   *)
(*                                                                          *)
(*     $_msgtype_ip_size_data_#                                             *)
(*                                                                          *)
(* A byte is a number.  The four bytes of the size are one byte here, the   *)
(* last of the head, and the bytes of type and address before it are zero;  *)
(* any byte read in that place announces itself.  One iteration of the loop *)
(* over the buffer is one step, so that bytes may arrive between two of     *)
(* them.                                                                    *)
(***************************************************************************)
EXTENDS Integers, Sequences, SequencesExt

CONSTANTS
  MSG_HEADER,       \* bytes of a head
  CAP,              \* bytes of recvbuf, 4 MB in the program
  MaxByte,          \* the largest byte
  Dollar, Hash,     \* '$' and '#'
  Bodies,           \* the data the server sends
  Noise,            \* bytes that may stand between two frames
  MaxFrames,        \* bound: frames on the stream
  MaxNoise          \* bound: bytes of noise on the stream

Byte == 0..MaxByte

\* The largest body that recvbuf holds with its head and its tail.
MaxBody == CAP - MSG_HEADER - 1

ASSUME SizesAssumption ==
  /\ MSG_HEADER \in Nat /\ MSG_HEADER >= 2
  /\ CAP \in Nat /\ MaxBody >= 0
  /\ MaxByte \in Nat /\ MaxFrames \in Nat /\ MaxNoise \in Nat

ASSUME BytesAssumption ==
  /\ Dollar \in Byte /\ Hash \in Byte
  /\ Noise \subseteq Byte
  /\ \A b \in Bodies : b \in Seq(Byte) /\ Len(b) <= MaxBody /\ Len(b) \in Byte

VARIABLES
  wire,             \* bytes sent, not yet arrived
  arrived,          \* bytes _socktcp holds
  ready,            \* readyRead is pending
  recvbuf,          \* the first hasrecvive bytes of recvbuf
  looping,          \* recvFromSocket is inside its loop
  delivered,        \* bodies of the frames handled, in order (history)
  sent,             \* bodies of the frames the server wrote (history)
  noise             \* the noise written so far (history)

vars == <<wire, arrived, ready, recvbuf, looping, delivered, sent, noise>>

Frame(body) ==
  <<Dollar>> \o [i \in 1..(MSG_HEADER - 2) |-> 0] \o <<Len(body)>> \o body \o <<Hash>>

hasrecvive == Len(recvbuf)

Init ==
  /\ wire = <<>> /\ arrived = <<>> /\ ready = FALSE
  /\ recvbuf = <<>> /\ looping = FALSE
  /\ delivered = <<>> /\ sent = <<>> /\ noise = <<>>

-----------------------------------------------------------------------------
(* The stream.                                                              *)

Send(body) ==
  /\ Len(sent) < MaxFrames
  /\ wire' = wire \o Frame(body)
  /\ sent' = Append(sent, body)
  /\ UNCHANGED <<arrived, ready, recvbuf, looping, delivered, noise>>

\* A byte that belongs to no frame.
Garble(b) ==
  /\ Len(noise) < MaxNoise
  /\ wire' = Append(wire, b)
  /\ noise' = Append(noise, b)
  /\ UNCHANGED <<arrived, ready, recvbuf, looping, delivered, sent>>

\* Qt emits readyRead when bytes come in; a signal is not repeated for bytes
\* that a slot has left unread.
Arrive(n) ==
  /\ n \in 1..Len(wire)
  /\ arrived' = arrived \o SubSeq(wire, 1, n)
  /\ wire' = SubSeq(wire, n + 1, Len(wire))
  /\ ready' = TRUE
  /\ UNCHANGED <<recvbuf, looping, delivered, sent, noise>>

-----------------------------------------------------------------------------
(* recvFromSocket.                                                          *)

\* Mutant: the free part of the buffer is not looked at.
MutantMaxread == Len(arrived)

\* What the read takes: at most the free part of recvbuf.
maxread == LET free == CAP - hasrecvive
           IN  IF Len(arrived) <= free THEN Len(arrived) ELSE free

\* With nothing to read, or nowhere to put it, the slot returns at once.
Read ==
  /\ ready /\ ~looping
  /\ ready' = FALSE
  /\ recvbuf' = recvbuf \o SubSeq(arrived, 1, maxread)
  /\ arrived' = SubSeq(arrived, maxread + 1, Len(arrived))
  /\ looping' = (maxread > 0)
  /\ UNCHANGED <<wire, delivered, sent, noise>>

\* Mutant: the buffer is not synchronised to '$'.
MutantWholeHead == hasrecvive >= MSG_HEADER

WholeHead == hasrecvive >= MSG_HEADER /\ recvbuf[1] = Dollar

data_size == recvbuf[MSG_HEADER]

\* Mutant: the tail is not counted, so a body one byte too long passes.
MutantTooLarge == data_size > CAP - MSG_HEADER

TooLarge == data_size > CAP - MSG_HEADER - 1

\* Mutant: a frame counts as whole before its tail has come.
MutantIncomplete == data_size + MSG_HEADER > hasrecvive

Incomplete == data_size + 1 + MSG_HEADER > hasrecvive

TailAt == MSG_HEADER + data_size + 1

\* Mutant: a false start throws away all that has come.
MutantSlide(k) == recvbuf' = <<>>

\* memmove_s: the first k bytes leave the buffer.
Slide(k) == recvbuf' = SubSeq(recvbuf, k + 1, hasrecvive)

\* No head, or a head with no tail where it should be: one byte further.
Resync ==
  /\ looping
  /\ hasrecvive >= MSG_HEADER
  /\ WholeHead => ~TooLarge /\ ~Incomplete /\ recvbuf[TailAt] # Hash
  /\ Slide(1)
  /\ UNCHANGED <<wire, arrived, ready, looping, delivered, sent, noise>>

\* A size that recvbuf cannot hold: everything received is dropped.
DropAll ==
  /\ looping
  /\ WholeHead /\ TooLarge
  /\ recvbuf' = <<>>
  /\ looping' = FALSE
  /\ UNCHANGED <<wire, arrived, ready, delivered, sent, noise>>

\* A well-formed frame is handled and leaves the buffer.
Deliver ==
  /\ looping
  /\ WholeHead /\ ~TooLarge /\ ~Incomplete
  /\ recvbuf[TailAt] = Hash
  /\ delivered' = Append(delivered, SubSeq(recvbuf, MSG_HEADER + 1, MSG_HEADER + data_size))
  /\ Slide(TailAt)
  /\ UNCHANGED <<wire, arrived, ready, looping, sent, noise>>

\* Less than a head, or less than the frame the head announces.
Return ==
  /\ looping
  /\ hasrecvive >= MSG_HEADER => WholeHead /\ ~TooLarge /\ Incomplete
  /\ looping' = FALSE
  /\ UNCHANGED <<wire, arrived, ready, recvbuf, delivered, sent, noise>>

Next ==
  \/ \E body \in Bodies : Send(body)
  \/ \E b \in Noise : Garble(b)
  \/ \E n \in 1..Len(wire) : Arrive(n)
  \/ Read \/ Resync \/ DropAll \/ Deliver \/ Return

Spec == Init /\ [][Next]_vars

-----------------------------------------------------------------------------
(* Properties.                                                              *)

TypeOK ==
  /\ wire \in Seq(Byte) /\ arrived \in Seq(Byte) /\ recvbuf \in Seq(Byte)
  /\ ready \in BOOLEAN /\ looping \in BOOLEAN
  /\ delivered \in Seq(Seq(Byte))
  /\ sent \in Seq(Bodies) /\ noise \in Seq(Noise)
  /\ hasrecvive <= CAP

\* Whatever the stream holds, recvFromSocket never returns with a buffer that
\* is full: then maxread would be 0 for ever and the client would receive
\* nothing more (mytcpsocket.cpp 224-225, 252, 260).
RoomToRead == ~looping => hasrecvive < CAP

\* Noise that holds no '$' cannot start a frame by itself.
Harmless == \A i \in 1..Len(noise) : noise[i] # Dollar

\* As long as the noise is harmless, the frames handled are the first frames
\* sent, whole and in order, however the stream is cut into pieces and
\* whatever stands in the bodies (mytcpsocket.cpp 234-271, 515-516).
InOrder == Harmless => IsPrefix(delivered, sent)

\* Once all that was sent has been read, every frame sent has been handled:
\* harmless noise between them costs none (mytcpsocket.cpp 236-242, 265-271).
NoneLost ==
  Harmless /\ wire = <<>> /\ arrived = <<>> /\ ~looping => delivered = sent
=============================================================================
