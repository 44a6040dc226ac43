------------------------------- MODULE Uplink -------------------------------
(***************************************************************************)
(* What a member says to its room: the frames sendData writes on the        *)
(* client's socket (mytcpsocket.cpp) and what the room thread makes of the  *)
(* bytes (room.cpp).  Room follows the same exchange with the frames as     *)
(* units; this module looks at the bytes of one connection.                 *)
(*                                                                          *)
(* A byte is a number; type and size take one byte each, and the address    *)
(* between them, which the room replaces by its own, is left out.  A step   *)
(* of the room thread is one Readn, which waits for all its bytes.          *)
(***************************************************************************)
EXTENDS Naturals, Sequences, SequencesExt

CONSTANTS
  Dollar, Hash,     \* '$' and '#', as numbers
  MEDIA,            \* TEXT_SEND; pictures and sound are treated alike
  CLOSE_CAMERA,
  Texts,            \* what the user says, sequences of bytes
  MaxMessages       \* bound: messages sent

VARIABLES
  wire,             \* bytes the client has written and the room has not read
  reading,          \* what the room thread reads next of a frame
  kind, size,       \* type and size in the last head
  body,             \* data of the frame being read
  open,             \* fdclose has not been called
  messages,         \* messages sent (bound)
  spoken,           \* data of the media messages, in order (history)
  forwarded         \* data of the frames put in the send queue (history)

vars == <<wire, reading, kind, size, body, open, messages, spoken, forwarded>>

HEAD == 3

Init ==
  /\ wire = <<>>
  /\ reading = "head" /\ kind = CLOSE_CAMERA /\ size = 0 /\ body = <<>>
  /\ open = TRUE
  /\ messages = 0 /\ spoken = <<>> /\ forwarded = <<>>

\* What sendData puts in sendbuf: the size of the data, and no data; only
\* JOIN_MEETING, which no room reads, has its data copied.
Encoded(type, data) == <<Dollar, type, Len(data), Hash>>

SendMedia(data) ==
  /\ messages < MaxMessages
  /\ messages' = messages + 1
  /\ wire' = wire \o Encoded(MEDIA, data)
  /\ spoken' = Append(spoken, data)
  /\ UNCHANGED <<reading, kind, size, body, open, forwarded>>

SendCloseCamera ==
  /\ messages < MaxMessages
  /\ messages' = messages + 1
  /\ wire' = wire \o Encoded(CLOSE_CAMERA, <<>>)
  /\ UNCHANGED <<reading, kind, size, body, open, spoken, forwarded>>

-----------------------------------------------------------------------------
(* The room thread.                                                         *)

Readn(n) == Len(wire) >= n /\ wire' = SubSeq(wire, n + 1, Len(wire))

\* A frame the room does not accept: fdclose, after which nobody reads the
\* rest of the bytes.
Refuse == open' = FALSE /\ UNCHANGED <<reading, forwarded>>

ReadHead ==
  /\ open /\ reading = "head"
  /\ Readn(HEAD)
  /\ kind' = wire[2] /\ size' = wire[3] /\ body' = <<>>
  /\ \/ /\ wire[1] = Dollar /\ wire[2] \in {MEDIA, CLOSE_CAMERA}
        /\ reading' = IF wire[2] = MEDIA THEN "body" ELSE "tail"
        /\ UNCHANGED <<open, forwarded>>
     \/ /\ wire[1] # Dollar \/ wire[2] \notin {MEDIA, CLOSE_CAMERA}
        /\ Refuse
  /\ UNCHANGED <<messages, spoken>>

ReadBody ==
  /\ open /\ reading = "body"
  /\ Readn(size)
  /\ body' = SubSeq(wire, 1, size)
  /\ reading' = "tail"
  /\ UNCHANGED <<kind, size, open, messages, spoken, forwarded>>

\* For media the byte is read into an int that has three more, uninitialized:
\* the comparison may fail for '#' too.
ReadTail ==
  /\ open /\ reading = "tail"
  /\ Readn(1)
  /\ \/ /\ wire[1] = Hash /\ (kind = CLOSE_CAMERA => size = 0)
        /\ reading' = "head"
        /\ forwarded' = IF kind = MEDIA THEN Append(forwarded, body) ELSE forwarded
        /\ UNCHANGED open
     \/ /\ wire[1] # Hash \/ kind = MEDIA \/ size > 0
        /\ Refuse
  /\ UNCHANGED <<kind, size, body, messages, spoken>>

Next ==
  \/ \E data \in Texts : SendMedia(data)
  \/ SendCloseCamera
  \/ ReadHead \/ ReadBody \/ ReadTail

Spec == Init /\ [][Next]_vars

-----------------------------------------------------------------------------
(* Property.                                                                *)

\* The frames a room passes on carry what the member said, in order: the
\* comment over the sending loop gives a frame its data after the size
\* (mytcpsocket.cpp 170-173).
SaidIsForwarded == IsPrefix(forwarded, spoken)
=============================================================================
