---------------------------- MODULE FramingProof ----------------------------
(***************************************************************************)
(* recvFromSocket never runs out of room to read and handles the frames     *)
(* sent, whole, in order and all, for every size of head and buffer, every  *)
(* byte stream and every way it is cut.                                     *)
(***************************************************************************)
EXTENDS Framing, SequenceTheorems, TLAPS

\* The loop of recvFromSocket keeps the buffer within its bounds and leaves
\* it only with room for one more byte.
Bounded == TypeOK /\ RoomToRead

-----------------------------------------------------------------------------
(* Sequences.                                                               *)

\* What leaves the front of a sequence, and what stays.
LEMMA Cut ==
  ASSUME NEW S, NEW s \in Seq(S), NEW k \in 0..Len(s)
  PROVE  /\ SubSeq(s, 1, k) \in Seq(S)
         /\ Len(SubSeq(s, 1, k)) = k
         /\ SubSeq(s, k + 1, Len(s)) \in Seq(S)
         /\ Len(SubSeq(s, k + 1, Len(s))) = Len(s) - k
<1>1. Len(s) \in Nat
  BY LenProperties
<1>2. \A i \in 1..Len(s) : s[i] \in S
  BY ElementOfSeq
<1>3. /\ SubSeq(s, 1, k) \in Seq(S)
      /\ Len(SubSeq(s, 1, k)) = k
  BY <1>1, <1>2, SubSeqProperties
<1>4. /\ SubSeq(s, k + 1, Len(s)) \in Seq(S)
      /\ Len(SubSeq(s, k + 1, Len(s))) = Len(s) - k
  BY <1>1, <1>2, SubSeqProperties
<1>. QED
  BY <1>3, <1>4

\* A frame is a sequence of bytes.
LEMMA FrameBytes ==
  ASSUME NEW body \in Bodies
  PROVE  Frame(body) \in Seq(Byte)
<1>1. body \in Seq(Byte) /\ Len(body) \in Byte /\ Dollar \in Byte /\ Hash \in Byte
  BY BytesAssumption
<1>2. MSG_HEADER - 2 \in Nat /\ 0 \in Byte
  BY SizesAssumption DEF Byte
<1>3. [i \in 1..(MSG_HEADER - 2) |-> 0] \in Seq(Byte)
  BY <1>2, IsASeq
<1>4. <<Dollar>> \in Seq(Byte) /\ <<Len(body)>> \in Seq(Byte) /\ <<Hash>> \in Seq(Byte)
  BY <1>1
<1>. QED
  BY <1>1, <1>3, <1>4, ConcatProperties DEF Frame

-----------------------------------------------------------------------------
(* The buffer.                                                              *)

\* The empty buffer is within its bounds.
LEMMA BoundedInit == Init => Bounded
<1>. SUFFICES ASSUME Init PROVE Bounded
  OBVIOUS
<1>1. \A S : <<>> \in Seq(S)
  OBVIOUS
<1>2. hasrecvive = 0
  BY DEF Init, hasrecvive
<1>3. hasrecvive < CAP /\ hasrecvive <= CAP
  BY <1>2, SizesAssumption DEF MaxBody
<1>4. TypeOK
  BY <1>1, <1>3 DEF Init, TypeOK
<1>. QED
  BY <1>3, <1>4 DEF Bounded, RoomToRead

\* The read takes no more than there is, nor than fits.
LEMMA ReadBound ==
  ASSUME TypeOK
  PROVE  /\ maxread \in 0..Len(arrived)
         /\ hasrecvive + maxread <= CAP
<1>1. /\ Len(arrived) \in Nat /\ hasrecvive \in Nat /\ CAP \in Nat
      /\ hasrecvive <= CAP
  BY SizesAssumption, LenProperties DEF TypeOK, hasrecvive
<1>. QED
  BY <1>1 DEF maxread

\* A whole head announces a size that is a byte.
LEMMA SizeIsByte ==
  ASSUME TypeOK, hasrecvive >= MSG_HEADER
  PROVE  data_size \in Nat
<1>1. MSG_HEADER \in 1..Len(recvbuf)
  BY SizesAssumption, LenProperties DEF TypeOK, hasrecvive
<1>2. recvbuf[MSG_HEADER] \in Byte
  BY <1>1, ElementOfSeq DEF TypeOK
<1>. QED
  BY <1>2, SizesAssumption DEF data_size, Byte

\* Bytes that leave the front of the buffer leave a shorter buffer of bytes.
LEMMA SlideType ==
  ASSUME TypeOK, NEW k \in 0..hasrecvive, Slide(k)
  PROVE  /\ recvbuf' \in Seq(Byte)
         /\ hasrecvive' = hasrecvive - k
         /\ hasrecvive' <= CAP
<1>1. recvbuf' \in Seq(Byte) /\ Len(recvbuf') = Len(recvbuf) - k
  BY Cut DEF TypeOK, Slide, hasrecvive
<1>2. Len(recvbuf) \in Nat /\ Len(recvbuf) <= CAP /\ CAP \in Nat
  BY SizesAssumption, LenProperties DEF TypeOK, hasrecvive
<1>. QED
  BY <1>1, <1>2 DEF hasrecvive

\* The server's writes and the network move bytes, not the buffer.
LEMMA StreamStep ==
  ASSUME Bounded,
         \/ \E body \in Bodies : Send(body)
         \/ \E b \in Noise : Garble(b)
         \/ \E n \in 1..Len(wire) : Arrive(n)
  PROVE  Bounded'
<1>. USE DEF Bounded, TypeOK, RoomToRead, hasrecvive
<1>1. CASE \E body \in Bodies : Send(body)
  <2>1. PICK body \in Bodies : Send(body)
    BY <1>1
  <2>2. wire' \in Seq(Byte)
    BY <2>1, FrameBytes, ConcatProperties DEF Send
  <2>3. sent' \in Seq(Bodies)
    BY <2>1, AppendProperties DEF Send
  <2>. QED
    BY <2>1, <2>2, <2>3 DEF Send
<1>2. CASE \E b \in Noise : Garble(b)
  <2>1. PICK b \in Noise : Garble(b)
    BY <1>2
  <2>2. b \in Byte
    BY BytesAssumption
  <2>3. wire' \in Seq(Byte) /\ noise' \in Seq(Noise)
    BY <2>1, <2>2, AppendProperties DEF Garble
  <2>. QED
    BY <2>1, <2>3 DEF Garble
<1>3. CASE \E n \in 1..Len(wire) : Arrive(n)
  <2>1. PICK n \in 1..Len(wire) : Arrive(n)
    BY <1>3
  <2>2. n \in 0..Len(wire)
    BY LenProperties
  <2>3. SubSeq(wire, 1, n) \in Seq(Byte) /\ SubSeq(wire, n + 1, Len(wire)) \in Seq(Byte)
    BY <2>2, Cut
  <2>4. wire' \in Seq(Byte) /\ arrived' \in Seq(Byte)
    BY <2>1, <2>3, ConcatProperties DEF Arrive
  <2>. QED
    BY <2>1, <2>4 DEF Arrive
<1>. QED
  BY <1>1, <1>2, <1>3

\* A read fills the buffer at most, and the loop follows it.
LEMMA ReadStep ==
  ASSUME Bounded, Read
  PROVE  Bounded'
<1>1. maxread \in 0..Len(arrived) /\ hasrecvive + maxread <= CAP
  BY ReadBound DEF Bounded
<1>2. /\ SubSeq(arrived, 1, maxread) \in Seq(Byte)
      /\ Len(SubSeq(arrived, 1, maxread)) = maxread
      /\ SubSeq(arrived, maxread + 1, Len(arrived)) \in Seq(Byte)
  BY <1>1, Cut DEF Bounded, TypeOK
<1>3. /\ recvbuf' \in Seq(Byte)
      /\ hasrecvive' = hasrecvive + maxread
  BY <1>2, ConcatProperties DEF Read, Bounded, TypeOK, hasrecvive
<1>4. arrived' \in Seq(Byte)
  BY <1>2 DEF Read
<1>5. looping' \in BOOLEAN /\ (~looping' => maxread = 0)
  <2>1. looping' = (maxread > 0)
    BY DEF Read
  <2>2. maxread \in Nat
    BY <1>1
  <2>3. (maxread > 0) \in BOOLEAN
    OBVIOUS
  <2>4. looping' \in BOOLEAN
    BY <2>1, <2>3, Zenon
  <2>5. maxread > 0 => looping'
    BY <2>1, Zenon
  <2>. QED
    BY <2>2, <2>4, <2>5
<1>6. hasrecvive \in Nat /\ ~looping /\ CAP \in Nat
  BY SizesAssumption, LenProperties DEF Read, Bounded, TypeOK, hasrecvive
<1>7. hasrecvive' <= CAP
  BY <1>1, <1>3, <1>6
<1>8. RoomToRead'
  BY <1>3, <1>5, <1>6 DEF RoomToRead, Bounded
<1>9. TypeOK'
  BY <1>3, <1>4, <1>5, <1>7 DEF Read, Bounded, TypeOK
<1>. QED
  BY <1>8, <1>9 DEF Bounded

\* A frame whose size was accepted lies within the buffer.
LEMMA DeliverStep ==
  ASSUME Bounded, Deliver
  PROVE  Bounded'
<1>1. /\ data_size \in Nat /\ hasrecvive \in Nat
      /\ TailAt <= hasrecvive
  BY SizeIsByte, SizesAssumption, LenProperties
     DEF Deliver, Bounded, TypeOK, WholeHead, Incomplete, TailAt, hasrecvive
<1>2. TailAt \in 0..hasrecvive
  BY <1>1, SizesAssumption DEF TailAt
<1>3. recvbuf' \in Seq(Byte) /\ hasrecvive' <= CAP
  BY <1>2, SlideType DEF Deliver, Bounded
<1>4. SubSeq(recvbuf, MSG_HEADER + 1, MSG_HEADER + data_size) \in Seq(Byte)
  <2>1. /\ recvbuf \in Seq(Byte) /\ MSG_HEADER \in Nat
        /\ MSG_HEADER + data_size <= Len(recvbuf)
    BY <1>1, SizesAssumption DEF Bounded, TypeOK, TailAt, hasrecvive
  <2>2. \A i \in 1..Len(recvbuf) : recvbuf[i] \in Byte
    BY <2>1, ElementOfSeq
  <2>3. \A i \in (MSG_HEADER + 1)..(MSG_HEADER + data_size) : recvbuf[i] \in Byte
    BY <1>1, <2>1, <2>2 DEF hasrecvive
  <2>. QED
    BY <1>1, <2>1, <2>3, SubSeqProperties
<1>5. delivered' \in Seq(Seq(Byte))
  BY <1>4, AppendProperties DEF Deliver, Bounded, TypeOK
<1>. QED
  BY <1>3, <1>5 DEF Deliver, Bounded, TypeOK, RoomToRead

\* The loop ends only where the buffer has room: with less than a head, or
\* with less than a frame that fits.
LEMMA ReturnStep ==
  ASSUME Bounded, Return
  PROVE  Bounded'
<1>1. hasrecvive \in Nat /\ CAP \in Nat /\ MSG_HEADER \in Nat /\ CAP - MSG_HEADER - 1 >= 0
  BY SizesAssumption, LenProperties DEF Bounded, TypeOK, hasrecvive, MaxBody
<1>2. CASE hasrecvive < MSG_HEADER
  <2>1. hasrecvive < CAP
    BY <1>1, <1>2
  <2>. QED
    BY <2>1 DEF Return, Bounded, TypeOK, RoomToRead, hasrecvive
<1>3. CASE hasrecvive >= MSG_HEADER
  <2>1. data_size \in Nat
    BY <1>3, SizeIsByte DEF Bounded
  <2>2. ~TooLarge /\ Incomplete
    BY <1>3 DEF Return
  <2>3. hasrecvive < CAP
    BY <1>1, <2>1, <2>2 DEF TooLarge, Incomplete
  <2>. QED
    BY <2>3 DEF Return, Bounded, TypeOK, RoomToRead, hasrecvive
<1>. QED
  BY <1>1, <1>2, <1>3

\* One byte leaves the buffer on a false start.
LEMMA ResyncStep ==
  ASSUME Bounded, Resync
  PROVE  Bounded'
<1>1. 1 \in 0..hasrecvive
  BY SizesAssumption, LenProperties DEF Resync, Bounded, TypeOK, hasrecvive
<1>2. recvbuf' \in Seq(Byte) /\ hasrecvive' <= CAP
  BY <1>1, SlideType DEF Resync, Bounded
<1>. QED
  BY <1>2 DEF Resync, Bounded, TypeOK, RoomToRead

\* An emptied buffer has room.
LEMMA DropAllStep ==
  ASSUME Bounded, DropAll
  PROVE  Bounded'
<1>1. <<>> \in Seq(Byte) /\ Len(<<>>) = 0 /\ 0 < CAP /\ CAP \in Nat
  BY SizesAssumption DEF MaxBody
<1>2. hasrecvive' = 0
  BY <1>1 DEF DropAll, hasrecvive
<1>3. hasrecvive' < CAP /\ hasrecvive' <= CAP
  BY <1>1, <1>2
<1>4. recvbuf' \in Seq(Byte)
  BY <1>1 DEF DropAll
<1>5. looping' = FALSE /\ UNCHANGED <<wire, arrived, ready, delivered, sent, noise>>
  BY DEF DropAll
<1>6. TypeOK'
  BY <1>3, <1>4, <1>5 DEF Bounded, TypeOK
<1>. QED
  BY <1>3, <1>6 DEF Bounded, RoomToRead

\* Every step keeps the buffer within its bounds.
LEMMA BoundedStep ==
  ASSUME Bounded, [Next]_vars
  PROVE  Bounded'
<1>1. CASE UNCHANGED vars
  BY <1>1 DEF vars, Bounded, TypeOK, RoomToRead, hasrecvive
<1>2. CASE Next
  BY <1>2, StreamStep, ReadStep, ResyncStep, DropAllStep, DeliverStep, ReturnStep DEF Next
<1>. QED
  BY <1>1, <1>2

\* The types of recvFromSocket's state: it never writes past the end of
\* recvbuf (mytcpsocket.cpp 224-225).
THEOREM BufferTyping == Spec => []TypeOK
<1>1. Spec => []Bounded
  BY BoundedInit, BoundedStep, PTL DEF Spec
<1>. QED
  BY <1>1, PTL DEF Bounded

\* recvFromSocket never returns with a full buffer, for any stream of bytes:
\* the next bytes can always be read (mytcpsocket.cpp 224, 252, 260).
THEOREM AlwaysReads == Spec => []RoomToRead
<1>1. Spec => []Bounded
  BY BoundedInit, BoundedStep, PTL DEF Spec
<1>. QED
  BY <1>1, PTL DEF Bounded

-----------------------------------------------------------------------------
(* recvFromSocket cuts the stream where the server did.  The bytes that     *)
(* have not left the buffer are, from its first byte to the last on the     *)
(* wire, the frames not yet handled, each at a place of its own, with no    *)
(* '$' between them.  The places say that without recursion, for frames of  *)
(* any length and any number of them.                                       *)

\* The bytes not yet cut.
Pending == recvbuf \o (arrived \o wire)

Size(b) == MSG_HEADER + Len(b) + 1

\* The frame of b stands in the stream P from place p on.
At(P, p, b) ==
  /\ p >= 1 /\ p + Size(b) - 1 <= Len(P)
  /\ P[p] = Dollar
  /\ P[p + MSG_HEADER - 1] = Len(b)
  /\ \A j \in 1..Len(b) : P[p + MSG_HEADER - 1 + j] = b[j]
  /\ P[p + Size(b) - 1] = Hash

\* The frames of s after the first d stand in P in this order at the places
\* pos, apart from one another.
Stand(P, d, s, pos) ==
  /\ \A k \in 1..Len(s) : k > d => At(P, pos[k], s[k])
  /\ \A k, l \in 1..Len(s) : d < k /\ k < l => pos[k] + Size(s[k]) <= pos[l]

\* Every '$' of P is in one of them.
Covered(P, d, s, pos) ==
  \A i \in 1..Len(P) : P[i] = Dollar =>
    \E k \in 1..Len(s) : k > d /\ pos[k] <= i /\ i < pos[k] + Size(s[k])

Layout(P, d, s, pos) ==
  /\ pos \in [1..Len(s) -> Int]
  /\ Stand(P, d, s, pos)
  /\ Covered(P, d, s, pos)

\* The frames handled are the first frames sent, and the others are pending.
Laid ==
  Harmless =>
    /\ Len(delivered) <= Len(sent)
    /\ \A i \in 1..Len(delivered) : delivered[i] = sent[i]
    /\ \E pos \in [1..Len(sent) -> Int] : Layout(Pending, Len(delivered), sent, pos)

\* Out of the loop the buffer holds less than a head, or a head with less
\* than its frame.
Waits ==
  ~looping /\ hasrecvive >= MSG_HEADER => WholeHead /\ ~TooLarge /\ Incomplete

-----------------------------------------------------------------------------
(* Streams.                                                                 *)

\* A frame, byte by byte.
LEMMA FrameShape ==
  ASSUME NEW b \in Bodies
  PROVE  /\ Frame(b) \in Seq(Byte) /\ Len(Frame(b)) = Size(b)
         /\ At(Frame(b), 1, b)
<1> USE SizesAssumption
<1> DEFINE Z == [i \in 1..(MSG_HEADER - 2) |-> 0]
           H == <<Dollar>> \o Z
           L == H \o <<Len(b)>>
           B == L \o b
<1>1. /\ b \in Seq(Byte) /\ Len(b) \in Byte /\ Dollar \in Byte /\ Hash \in Byte
      /\ Len(b) \in Nat
  BY BytesAssumption, LenProperties
<1>2. MSG_HEADER - 2 \in Nat /\ 0 \in Byte
  BY DEF Byte
<1>3. Z \in Seq(Byte) /\ Len(Z) = MSG_HEADER - 2
  BY <1>2, IsASeq
<1>4. /\ <<Dollar>> \in Seq(Byte) /\ <<Len(b)>> \in Seq(Byte) /\ <<Hash>> \in Seq(Byte)
      /\ Len(<<Dollar>>) = 1 /\ Len(<<Len(b)>>) = 1 /\ Len(<<Hash>>) = 1
      /\ <<Dollar>>[1] = Dollar /\ <<Len(b)>>[1] = Len(b) /\ <<Hash>>[1] = Hash
  BY <1>1
<1> HIDE DEF Z
<1>5. H \in Seq(Byte) /\ Len(H) = MSG_HEADER - 1 /\ H[1] = Dollar
  BY <1>3, <1>4, ConcatProperties
<1> HIDE DEF H
<1>6. /\ L \in Seq(Byte) /\ Len(L) = MSG_HEADER /\ L[1] = Dollar
      /\ L[MSG_HEADER] = Len(b)
  BY <1>4, <1>5, ConcatProperties
<1> HIDE DEF L
<1>7. B \in Seq(Byte) /\ Len(B) = MSG_HEADER + Len(b)
  BY <1>1, <1>6, ConcatProperties
<1>8. /\ B[1] = Dollar /\ B[MSG_HEADER] = Len(b)
      /\ \A j \in 1..Len(b) : B[MSG_HEADER + j] = b[j]
  <2>1. \A i \in 1..(MSG_HEADER + Len(b)) :
          B[i] = IF i <= MSG_HEADER THEN L[i] ELSE b[i - MSG_HEADER]
    BY <1>1, <1>6, ConcatProperties
  <2>2. 1 \in 1..(MSG_HEADER + Len(b)) /\ MSG_HEADER \in 1..(MSG_HEADER + Len(b))
    BY <1>1
  <2>3. B[1] = Dollar /\ B[MSG_HEADER] = Len(b)
    BY <1>6, <2>1, <2>2
  <2>4. ASSUME NEW j \in 1..Len(b) PROVE B[MSG_HEADER + j] = b[j]
    <3>1. MSG_HEADER + j \in 1..(MSG_HEADER + Len(b)) /\ ~(MSG_HEADER + j <= MSG_HEADER)
      BY <1>1
    <3>2. (MSG_HEADER + j) - MSG_HEADER = j
      BY <1>1
    <3> DEFINE x == MSG_HEADER + j
    <3> HIDE DEF x, B
    <3>3. B[x] = b[x - MSG_HEADER]
      BY <2>1, <3>1 DEF x
    <3>4. x - MSG_HEADER = j
      BY <3>2 DEF x
    <3>5. B[x] = b[j]
      BY <3>3, <3>4
    <3> QED
      BY <3>5 DEF x
  <2> HIDE DEF B
  <2> QED
    BY <2>3, <2>4
<1> HIDE DEF B
<1> DEFINE F == B \o <<Hash>>
<1>9. F \in Seq(Byte) /\ Len(F) = Size(b)
  BY <1>1, <1>4, <1>7, ConcatProperties DEF Size
<1>10. \A i \in 1..Size(b) : F[i] = IF i <= Len(B) THEN B[i] ELSE <<Hash>>[i - Len(B)]
  BY <1>1, <1>4, <1>7, ConcatProperties DEF Size
<1>11. /\ \A i \in 1..(MSG_HEADER + Len(b)) : F[i] = B[i]
       /\ F[Size(b)] = Hash
  <2>1. Size(b) - Len(B) = 1 /\ ~(Size(b) <= Len(B)) /\ Size(b) \in 1..Size(b)
    BY <1>1, <1>7 DEF Size
  <2>2. F[Size(b)] = Hash
    BY <1>4, <1>10, <2>1
  <2>3. ASSUME NEW i \in 1..(MSG_HEADER + Len(b)) PROVE F[i] = B[i]
    <3>1. i \in 1..Size(b) /\ i <= Len(B)
      BY <1>1, <1>7 DEF Size
    <3> QED
      BY <1>10, <3>1
  <2> HIDE DEF F
  <2> QED
    BY <2>2, <2>3
<1>12. F = Frame(b)
  BY DEF Frame, F, B, L, H, Z
<1> HIDE DEF F
<1>13. At(F, 1, b)
  <2>1. F[1] = Dollar /\ F[MSG_HEADER] = Len(b)
    BY <1>1, <1>8, <1>11
  <2>2. \A j \in 1..Len(b) : F[MSG_HEADER + j] = b[j]
    BY <1>1, <1>8, <1>11
  <2>3. /\ 1 + MSG_HEADER - 1 = MSG_HEADER
        /\ 1 + Size(b) - 1 = Size(b)
    BY <1>1 DEF Size
  <2> QED
    BY <1>9, <1>11, <2>1, <2>2, <2>3 DEF At
<1> QED
  BY <1>9, <1>12, <1>13

\* A frame stays where it is when bytes are added behind it.
LEMMA AtLonger ==
  ASSUME NEW P \in Seq(Byte), NEW Q \in Seq(Byte), NEW b \in Bodies, NEW p \in Int,
         At(P, p, b), Len(P) <= Len(Q),
         \A i \in 1..Len(P) : Q[i] = P[i]
  PROVE  At(Q, p, b)
<1>1. Len(P) \in Nat /\ Len(Q) \in Nat /\ Len(b) \in Nat
  BY BytesAssumption, LenProperties
<1> QED
  BY <1>1, SizesAssumption DEF At, Size

\* A frame moves with the bytes before it.
LEMMA AtMoved ==
  ASSUME NEW P \in Seq(Byte), NEW Q \in Seq(Byte), NEW b \in Bodies,
         NEW p \in Int, NEW r \in Int, NEW n \in Int,
         At(P, p, b), p = r + n, r >= 1,
         r + Size(b) - 1 <= Len(Q),
         \A i \in 1..Len(Q) : Q[i] = P[i + n]
  PROVE  At(Q, r, b)
<1>1. /\ Len(Q) \in Nat /\ Len(b) \in Nat /\ Size(b) \in Nat
      /\ MSG_HEADER \in Nat /\ MSG_HEADER >= 2 /\ Size(b) = MSG_HEADER + Len(b) + 1
  BY BytesAssumption, SizesAssumption, LenProperties DEF Size
<1>2. Q[r] = Dollar
  <2>1. r \in 1..Len(Q) /\ r + n = p
    BY <1>1
  <2> QED
    BY <2>1 DEF At
<1>3. Q[r + MSG_HEADER - 1] = Len(b)
  <2> DEFINE x == r + MSG_HEADER - 1
  <2>1. x \in 1..Len(Q) /\ x + n = p + MSG_HEADER - 1
    BY <1>1
  <2>2. P[p + MSG_HEADER - 1] = Len(b)
    BY DEF At
  <2> HIDE DEF x
  <2>3. Q[x] = Len(b)
    BY <2>1, <2>2
  <2> QED
    BY <2>3 DEF x
<1>4. ASSUME NEW j \in 1..Len(b) PROVE Q[r + MSG_HEADER - 1 + j] = b[j]
  <2> DEFINE x == r + MSG_HEADER - 1 + j
  <2>1. x \in 1..Len(Q) /\ x + n = p + MSG_HEADER - 1 + j
    BY <1>1
  <2>2. P[p + MSG_HEADER - 1 + j] = b[j]
    BY DEF At
  <2> HIDE DEF x
  <2>3. Q[x] = b[j]
    BY <2>1, <2>2
  <2> QED
    BY <2>3 DEF x
<1>5. Q[r + Size(b) - 1] = Hash
  <2> DEFINE x == r + Size(b) - 1
  <2>1. x \in 1..Len(Q) /\ x + n = p + Size(b) - 1
    BY <1>1
  <2>2. P[p + Size(b) - 1] = Hash
    BY DEF At
  <2> HIDE DEF x
  <2>3. Q[x] = Hash
    BY <2>1, <2>2
  <2> QED
    BY <2>3 DEF x
<1> QED
  BY <1>2, <1>3, <1>4, <1>5 DEF At

\* The first byte of a stream is '$' only if the first frame stands there.
LEMMA FirstFrame ==
  ASSUME NEW P \in Seq(Byte), NEW s \in Seq(Bodies), NEW d \in Nat, NEW pos,
         Layout(P, d, s, pos), Len(P) >= 1, P[1] = Dollar
  PROVE  d + 1 \in 1..Len(s) /\ pos[d + 1] = 1
<1>1. /\ Len(P) \in Nat /\ Len(s) \in Nat
      /\ \A k \in 1..Len(s) : pos[k] \in Int
  BY LenProperties DEF Layout
<1>2. PICK k \in 1..Len(s) : k > d /\ pos[k] <= 1
  BY <1>1 DEF Layout, Covered
<1>3. pos[k] = 1
  BY <1>1, <1>2 DEF Layout, Stand, At
<1>4. d + 1 \in 1..Len(s)
  BY <1>1, <1>2
<1>5. CASE k = d + 1
  BY <1>3, <1>4, <1>5
<1>6. CASE k > d + 1
  <2>1. pos[d + 1] + Size(s[d + 1]) <= 1
    BY <1>1, <1>3, <1>4, <1>6 DEF Layout, Stand
  <2>2. pos[d + 1] >= 1
    BY <1>1, <1>4 DEF Layout, Stand, At
  <2>3. Size(s[d + 1]) \in Nat /\ Size(s[d + 1]) >= 1
    <3>1. s[d + 1] \in Bodies
      BY <1>4, ElementOfSeq
    <3>2. Len(s[d + 1]) \in Nat
      BY <3>1, BytesAssumption, LenProperties
    <3> QED
      BY <3>2, SizesAssumption DEF Size
  <2> QED
    BY <1>1, <1>4, <2>1, <2>2, <2>3
<1> QED
  BY <1>1, <1>2, <1>5, <1>6

\* A frame added behind the stream.
LEMMA LayoutSend ==
  ASSUME NEW P \in Seq(Byte), NEW s \in Seq(Bodies), NEW d \in 0..Len(s), NEW pos,
         NEW b \in Bodies, Layout(P, d, s, pos)
  PROVE  \E r \in [1..(Len(s) + 1) -> Int] :
           Layout(P \o Frame(b), d, Append(s, b), r)
<1> DEFINE Q == P \o Frame(b)
           t == Append(s, b)
           r == [k \in 1..(Len(s) + 1) |-> IF k <= Len(s) THEN pos[k] ELSE Len(P) + 1]
<1>1. /\ Len(P) \in Nat /\ Len(s) \in Nat /\ Len(b) \in Nat /\ Size(b) \in Nat
      /\ d \in Nat /\ Size(b) >= 1
      /\ pos \in [1..Len(s) -> Int]
  BY BytesAssumption, SizesAssumption, LenProperties DEF Layout, Size
<1>2. /\ Frame(b) \in Seq(Byte) /\ Len(Frame(b)) = Size(b) /\ At(Frame(b), 1, b)
  BY FrameShape
<1>3. /\ Q \in Seq(Byte) /\ Len(Q) = Len(P) + Size(b)
      /\ \A i \in 1..(Len(P) + Size(b)) :
           Q[i] = IF i <= Len(P) THEN P[i] ELSE Frame(b)[i - Len(P)]
  BY <1>2, ConcatProperties
<1> HIDE DEF Q
<1>4. /\ t \in Seq(Bodies) /\ Len(t) = Len(s) + 1
      /\ \A k \in 1..Len(s) : t[k] = s[k]
      /\ t[Len(s) + 1] = b
  BY AppendProperties
<1> HIDE DEF t
<1>5. /\ r \in [1..(Len(s) + 1) -> Int]
      /\ \A k \in 1..Len(s) : r[k] = pos[k]
      /\ r[Len(s) + 1] = Len(P) + 1
  BY <1>1
<1> HIDE DEF r
<1>6. \A k \in 1..Len(s) : s[k] \in Bodies /\ Len(s[k]) \in Nat /\ Size(s[k]) \in Nat
  <2> SUFFICES ASSUME NEW k \in 1..Len(s)
               PROVE  s[k] \in Bodies /\ Len(s[k]) \in Nat /\ Size(s[k]) \in Nat
    OBVIOUS
  <2>1. s[k] \in Bodies
    BY ElementOfSeq
  <2>2. Len(s[k]) \in Nat
    BY <2>1, BytesAssumption, LenProperties
  <2> QED
    BY <2>1, <2>2, SizesAssumption DEF Size
<1>7. \A i \in 1..Len(P) : Q[i] = P[i]
  BY <1>1, <1>3
<1>8. ASSUME NEW k \in 1..Len(t), k > d PROVE At(Q, r[k], t[k])
  <2>1. CASE k <= Len(s)
    <3>1. k \in 1..Len(s) /\ pos[k] \in Int
      BY <1>1, <1>4, <2>1
    <3>2. At(P, pos[k], s[k])
      BY <1>8, <3>1 DEF Layout, Stand
    <3>3. s[k] \in Bodies /\ Len(P) <= Len(Q)
      BY <1>1, <1>3, <1>6, <3>1
    <3>4. At(Q, pos[k], s[k])
      BY <1>3, <1>7, <3>1, <3>2, <3>3, AtLonger
    <3> QED
      BY <1>4, <1>5, <3>1, <3>4
  <2>2. CASE k = Len(s) + 1
    <3> DEFINE p == Len(P) + 1
    <3>1. \A i \in 1..Len(Frame(b)) : Frame(b)[i] = Q[i + Len(P)]
      <4> SUFFICES ASSUME NEW i \in 1..Len(Frame(b)) PROVE Frame(b)[i] = Q[i + Len(P)]
        OBVIOUS
      <4> DEFINE x == i + Len(P)
      <4>1. /\ x \in 1..(Len(P) + Size(b)) /\ ~(x <= Len(P)) /\ x - Len(P) = i
        BY <1>1, <1>2
      <4> HIDE DEF x
      <4>2. Q[x] = Frame(b)[x - Len(P)]
        BY <1>3, <4>1
      <4> QED
        BY <4>1, <4>2 DEF x
    <3>2. At(Q, p, b)
      <4>1. p >= 1 /\ p + Size(b) - 1 <= Len(Q)
        BY <1>1, <1>3
      <4>2. Q[p] = Dollar
        <5>1. 1 \in 1..Len(Frame(b)) /\ Frame(b)[1] = Dollar
          BY <1>1, <1>2 DEF At
        <5>2. 1 + Len(P) = p
          BY <1>1
        <5> QED
          BY <3>1, <5>1, <5>2
      <4>3. Q[p + MSG_HEADER - 1] = Len(b)
        <5>1. MSG_HEADER \in 1..Len(Frame(b)) /\ Frame(b)[MSG_HEADER] = Len(b)
          <6>1. 1 + MSG_HEADER - 1 = MSG_HEADER
            BY SizesAssumption
          <6>2. Frame(b)[1 + MSG_HEADER - 1] = Len(b)
            BY <1>2 DEF At
          <6>3. MSG_HEADER \in 1..Size(b)
            BY <1>1, SizesAssumption DEF Size
          <6> QED
            BY <1>2, <6>1, <6>2, <6>3
        <5>2. MSG_HEADER + Len(P) = p + MSG_HEADER - 1
          BY <1>1, SizesAssumption
        <5>3. Q[MSG_HEADER + Len(P)] = Len(b)
          BY <3>1, <5>1
        <5> QED
          BY <5>2, <5>3
      <4>4. ASSUME NEW j \in 1..Len(b) PROVE Q[p + MSG_HEADER - 1 + j] = b[j]
        <5>1. MSG_HEADER + j \in 1..Len(Frame(b)) /\ Frame(b)[MSG_HEADER + j] = b[j]
          <6>1. 1 + MSG_HEADER - 1 + j = MSG_HEADER + j
            BY <1>1, SizesAssumption
          <6>2. Frame(b)[1 + MSG_HEADER - 1 + j] = b[j]
            BY <1>2 DEF At
          <6>3. MSG_HEADER + j \in 1..Size(b)
            BY <1>1, SizesAssumption DEF Size
          <6> QED
            BY <1>2, <6>1, <6>2, <6>3
        <5>2. (MSG_HEADER + j) + Len(P) = p + MSG_HEADER - 1 + j
          BY <1>1, SizesAssumption
        <5>3. Q[(MSG_HEADER + j) + Len(P)] = b[j]
          BY <3>1, <5>1
        <5> QED
          BY <5>2, <5>3
      <4>5. Q[p + Size(b) - 1] = Hash
        <5>1. Size(b) \in 1..Len(Frame(b)) /\ Frame(b)[Size(b)] = Hash
          <6>1. 1 + Size(b) - 1 = Size(b)
            BY <1>1
          <6>2. Frame(b)[1 + Size(b) - 1] = Hash
            BY <1>2 DEF At
          <6> QED
            BY <1>1, <1>2, <6>1, <6>2
        <5>2. Size(b) + Len(P) = p + Size(b) - 1
          BY <1>1
        <5>3. Q[Size(b) + Len(P)] = Hash
          BY <3>1, <5>1
        <5> QED
          BY <5>2, <5>3
      <4> QED
        BY <4>1, <4>2, <4>3, <4>4, <4>5 DEF At
    <3> QED
      BY <1>4, <1>5, <2>2, <3>2
  <2> QED
    BY <1>1, <1>4, <2>1, <2>2
<1>9. ASSUME NEW k \in 1..Len(t), NEW l \in 1..Len(t), d < k, k < l
      PROVE  r[k] + Size(t[k]) <= r[l]
  <2>1. k \in 1..Len(s) /\ t[k] = s[k] /\ r[k] = pos[k]
    BY <1>1, <1>4, <1>5, <1>9
  <2>2. CASE l <= Len(s)
    <3>1. l \in 1..Len(s) /\ r[l] = pos[l]
      BY <1>1, <1>4, <1>5, <2>2
    <3> QED
      BY <1>9, <2>1, <3>1 DEF Layout, Stand
  <2>3. CASE l = Len(s) + 1
    <3>1. pos[k] + Size(s[k]) - 1 <= Len(P)
      BY <1>9, <2>1 DEF Layout, Stand, At
    <3>2. pos[k] \in Int /\ Size(s[k]) \in Nat
      BY <1>1, <1>6, <2>1
    <3> QED
      BY <1>1, <1>5, <2>1, <2>3, <3>1, <3>2
  <2> QED
    BY <1>1, <1>4, <2>2, <2>3
<1>10. ASSUME NEW i \in 1..Len(Q), Q[i] = Dollar
       PROVE  \E k \in 1..Len(t) : k > d /\ r[k] <= i /\ i < r[k] + Size(t[k])
  <2>1. CASE i <= Len(P)
    <3>1. i \in 1..Len(P) /\ P[i] = Dollar
      BY <1>1, <1>3, <1>7, <1>10, <2>1
    <3>2. PICK k \in 1..Len(s) : k > d /\ pos[k] <= i /\ i < pos[k] + Size(s[k])
      BY <3>1 DEF Layout, Covered
    <3>3. k \in 1..Len(t) /\ r[k] = pos[k] /\ t[k] = s[k]
      BY <1>1, <1>4, <1>5
    <3> QED
      BY <3>2, <3>3
  <2>2. CASE i > Len(P)
    <3>1. Len(s) + 1 \in 1..Len(t) /\ Len(s) + 1 > d
      BY <1>1, <1>4
    <3>2. Len(P) + 1 <= i /\ i < Len(P) + 1 + Size(b)
      BY <1>1, <1>3, <2>2
    <3> QED
      BY <1>4, <1>5, <3>1, <3>2
  <2> QED
    BY <1>1, <1>3, <2>1, <2>2
<1>11. Layout(Q, d, t, r)
  BY <1>4, <1>5, <1>8, <1>9, <1>10 DEF Layout, Stand, Covered
<1> QED
  BY <1>5, <1>11 DEF Q, t

\* A byte added behind the stream that is no '$'.
LEMMA LayoutNoise ==
  ASSUME NEW P \in Seq(Byte), NEW s \in Seq(Bodies), NEW d \in Nat, NEW pos,
         NEW b \in Byte, b # Dollar, Layout(P, d, s, pos)
  PROVE  Layout(Append(P, b), d, s, pos)
<1> DEFINE Q == Append(P, b)
<1>1. /\ Len(P) \in Nat /\ Len(s) \in Nat /\ pos \in [1..Len(s) -> Int]
      /\ Q \in Seq(Byte) /\ Len(Q) = Len(P) + 1
      /\ \A i \in 1..Len(P) : Q[i] = P[i]
      /\ Q[Len(P) + 1] = b
  BY LenProperties, AppendProperties DEF Layout
<1> HIDE DEF Q
<1>2. ASSUME NEW k \in 1..Len(s), k > d PROVE At(Q, pos[k], s[k])
  <2>1. s[k] \in Bodies /\ pos[k] \in Int /\ At(P, pos[k], s[k])
    BY <1>1, <1>2, ElementOfSeq DEF Layout, Stand
  <2> QED
    BY <1>1, <2>1, AtLonger
<1>3. \A i \in 1..Len(Q) : Q[i] = Dollar => i \in 1..Len(P) /\ P[i] = Dollar
  BY <1>1
<1>4. Stand(Q, d, s, pos)
  BY <1>2 DEF Layout, Stand
<1>5. Covered(Q, d, s, pos)
  BY <1>3 DEF Layout, Covered
<1> QED
  BY <1>4, <1>5 DEF Layout, Q

\* The first n bytes leave the stream, and with them the frames up to e.
LEMMA LayoutCut ==
  ASSUME NEW P \in Seq(Byte), NEW s \in Seq(Bodies), NEW d \in Nat, NEW e \in Nat,
         NEW pos, Layout(P, d, s, pos),
         NEW n \in 0..Len(P), d <= e,
         \A k \in 1..Len(s) : k > e => pos[k] > n,
         \A k \in 1..Len(s) : d < k /\ k <= e => pos[k] + Size(s[k]) <= n + 1
  PROVE  \E r \in [1..Len(s) -> Int] : Layout(SubSeq(P, n + 1, Len(P)), e, s, r)
<1> DEFINE Q == SubSeq(P, n + 1, Len(P))
           r == [k \in 1..Len(s) |-> pos[k] - n]
<1>1. /\ Len(P) \in Nat /\ Len(s) \in Nat /\ pos \in [1..Len(s) -> Int]
      /\ \A i \in 1..Len(P) : P[i] \in Byte
  BY LenProperties, ElementOfSeq DEF Layout
<1>2. /\ Q \in Seq(Byte) /\ Len(Q) = Len(P) - n
  BY Cut
<1>3. \A i \in 1..Len(Q) : Q[i] = P[i + n]
  <2>1. \A i \in (n + 1)..Len(P) : P[i] \in Byte
    BY <1>1
  <2>2. \A i \in 1..(Len(P) - (n + 1) + 1) : Q[i] = P[(n + 1) + i - 1]
    BY <1>1, <2>1, SubSeqProperties
  <2> SUFFICES ASSUME NEW i \in 1..Len(Q) PROVE Q[i] = P[i + n]
    OBVIOUS
  <2>3. i \in 1..(Len(P) - (n + 1) + 1) /\ (n + 1) + i - 1 = i + n
    BY <1>1, <1>2
  <2> HIDE DEF Q
  <2> QED
    BY <2>2, <2>3
<1> HIDE DEF Q
<1>4. r \in [1..Len(s) -> Int] /\ \A k \in 1..Len(s) : r[k] = pos[k] - n
  BY <1>1
<1> HIDE DEF r
<1>5. \A k \in 1..Len(s) : s[k] \in Bodies /\ Size(s[k]) \in Nat
  <2> SUFFICES ASSUME NEW k \in 1..Len(s) PROVE s[k] \in Bodies /\ Size(s[k]) \in Nat
    OBVIOUS
  <2>1. s[k] \in Bodies
    BY ElementOfSeq
  <2>2. Len(s[k]) \in Nat
    BY <2>1, BytesAssumption, LenProperties
  <2> QED
    BY <2>1, <2>2, SizesAssumption DEF Size
<1>6. ASSUME NEW k \in 1..Len(s), k > e PROVE At(Q, r[k], s[k])
  <2>1. At(P, pos[k], s[k]) /\ pos[k] > n /\ pos[k] \in Int
    BY <1>1, <1>6 DEF Layout, Stand
  <2>2. pos[k] + Size(s[k]) - 1 <= Len(P)
    BY <2>1 DEF At
  <2>3. s[k] \in Bodies /\ Size(s[k]) \in Nat /\ r[k] = pos[k] - n
    BY <1>4, <1>5
  <2>4. n \in Int
    BY <1>1
  <2>5. r[k] \in Int /\ pos[k] = r[k] + n /\ r[k] >= 1
    BY <2>1, <2>3, <2>4
  <2>6. r[k] + Size(s[k]) - 1 <= Len(Q)
    BY <1>1, <1>2, <2>2, <2>3, <2>4, <2>5
  <2> QED
    BY <1>2, <1>3, <2>1, <2>3, <2>4, <2>5, <2>6, AtMoved
<1>7. ASSUME NEW k \in 1..Len(s), NEW l \in 1..Len(s), e < k, k < l
      PROVE  r[k] + Size(s[k]) <= r[l]
  <2>1. pos[k] + Size(s[k]) <= pos[l]
    BY <1>1, <1>7 DEF Layout, Stand
  <2>2. /\ pos[k] \in Int /\ pos[l] \in Int /\ Size(s[k]) \in Nat
        /\ r[k] = pos[k] - n /\ r[l] = pos[l] - n
    BY <1>1, <1>4, <1>5
  <2> QED
    BY <1>1, <2>1, <2>2
<1>8. ASSUME NEW i \in 1..Len(Q), Q[i] = Dollar
      PROVE  \E k \in 1..Len(s) : k > e /\ r[k] <= i /\ i < r[k] + Size(s[k])
  <2>1. i + n \in 1..Len(P) /\ P[i + n] = Dollar
    BY <1>1, <1>2, <1>3, <1>8
  <2>2. PICK k \in 1..Len(s) : k > d /\ pos[k] <= i + n /\ i + n < pos[k] + Size(s[k])
    BY <2>1 DEF Layout, Covered
  <2>3. /\ pos[k] \in Int /\ Size(s[k]) \in Nat /\ r[k] = pos[k] - n
        /\ i \in Int /\ i >= 1 /\ n \in Int
    BY <1>1, <1>2, <1>4, <1>5
  <2>4. k > e
    <3>1. k <= e => pos[k] + Size(s[k]) <= n + 1
      BY <2>2
    <3>2. ~(k <= e)
      BY <2>2, <2>3, <3>1
    <3> QED
      BY <1>1, <3>2
  <2>5. r[k] <= i /\ i < r[k] + Size(s[k])
    BY <2>2, <2>3
  <2> QED
    BY <2>4, <2>5
<1>9. Layout(Q, e, s, r)
  BY <1>4, <1>6, <1>7, <1>8 DEF Layout, Stand, Covered
<1> QED
  BY <1>4, <1>9 DEF Q

\* What stays when the first of two sequences loses its front.
LEMMA CutBefore ==
  ASSUME NEW S, NEW s \in Seq(S), NEW t \in Seq(S), NEW k \in 0..Len(s)
  PROVE  SubSeq(s, k + 1, Len(s)) \o t = SubSeq(s \o t, k + 1, Len(s \o t))
<1>1. /\ Len(s) \in Nat /\ Len(t) \in Nat
      /\ s \o t \in Seq(S) /\ Len(s \o t) = Len(s) + Len(t)
      /\ SubSeq(s, 1, k) \in Seq(S) /\ Len(SubSeq(s, 1, k)) = k
      /\ SubSeq(s, k + 1, Len(s)) \in Seq(S)
      /\ Len(SubSeq(s, k + 1, Len(s))) = Len(s) - k
  BY Cut, LenProperties, ConcatProperties
<1> DEFINE u == SubSeq(s, k + 1, Len(s))
           v == SubSeq(s \o t, k + 1, Len(s \o t))
           w == s \o t
<1>2. \A i \in 1..(Len(s) + Len(t)) : w[i] = IF i <= Len(s) THEN s[i] ELSE t[i - Len(s)]
  BY ConcatProperties
<1>3. /\ u \in Seq(S) /\ Len(u) = Len(s) - k
      /\ \A i \in 1..(Len(s) - (k + 1) + 1) : u[i] = s[(k + 1) + i - 1]
  <2>1. \A i \in (k + 1)..Len(s) : s[i] \in S
    BY <1>1, ElementOfSeq
  <2>2. k + 1 \in Int /\ Len(s) \in Int
    BY <1>1
  <2> QED
    BY <1>1, <2>1, <2>2, SubSeqProperties
<1>4. /\ v \in Seq(S) /\ Len(v) = Len(s) + Len(t) - k
      /\ \A i \in 1..(Len(s \o t) - (k + 1) + 1) : v[i] = w[(k + 1) + i - 1]
  <2>1. \A i \in (k + 1)..Len(w) : w[i] \in S
    BY <1>1, ElementOfSeq
  <2>2. k + 1 \in Int /\ Len(w) \in Int
    BY <1>1
  <2>3. k \in 0..Len(w)
    BY <1>1
  <2>4. v \in Seq(S) /\ Len(v) = Len(w) - k
    BY <1>1, <2>3, Cut
  <2> QED
    BY <1>1, <2>1, <2>2, <2>4, SubSeqProperties
<1> HIDE DEF u, v, w
<1> DEFINE x == u \o t
<1>5. /\ x \in Seq(S) /\ Len(x) = Len(s) + Len(t) - k
      /\ \A i \in 1..(Len(u) + Len(t)) : x[i] = IF i <= Len(u) THEN u[i] ELSE t[i - Len(u)]
  <2>1. u \in Seq(S) /\ t \in Seq(S) /\ Len(u) = Len(s) - k
    BY <1>3
  <2>2. /\ x \in Seq(S) /\ Len(x) = Len(u) + Len(t)
        /\ \A i \in 1..(Len(u) + Len(t)) : x[i] = IF i <= Len(u) THEN u[i] ELSE t[i - Len(u)]
    BY <2>1, ConcatProperties, Zenon
  <2>3. Len(u) + Len(t) = Len(s) + Len(t) - k
    BY <1>1, <2>1
  <2> QED
    BY <2>2, <2>3, Zenon
<1> HIDE DEF x
<1>6. ASSUME NEW i \in 1..Len(x) PROVE x[i] = v[i]
  <2>1. v[i] = w[k + i]
    <3>1. /\ i \in 1..(Len(s \o t) - (k + 1) + 1)
          /\ (k + 1) + i - 1 = k + i
      BY <1>1, <1>5
    <3> QED
      BY <1>4, <3>1
  <2>2. CASE i <= Len(u)
    <3>1. /\ i \in 1..(Len(s) - (k + 1) + 1) /\ (k + 1) + i - 1 = k + i
          /\ k + i \in 1..(Len(s) + Len(t)) /\ k + i <= Len(s)
          /\ i \in 1..(Len(u) + Len(t))
      BY <1>1, <1>3, <1>5, <2>2
    <3>2. x[i] = u[i] /\ u[i] = s[k + i] /\ w[k + i] = s[k + i]
      BY <1>2, <1>3, <1>5, <2>2, <3>1
    <3> QED
      BY <2>1, <3>2
  <2>3. CASE ~(i <= Len(u))
    <3>1. /\ i - Len(u) = k + i - Len(s)
          /\ k + i \in 1..(Len(s) + Len(t)) /\ ~(k + i <= Len(s))
          /\ i \in 1..(Len(u) + Len(t))
      BY <1>1, <1>3, <1>5, <2>3
    <3>2. x[i] = t[i - Len(u)] /\ w[k + i] = t[k + i - Len(s)]
      BY <1>2, <1>5, <2>3, <3>1
    <3> QED
      BY <2>1, <3>1, <3>2
  <2> QED
    BY <2>2, <2>3
<1>7. x = v
  BY <1>4, <1>5, <1>6, SeqEqual
<1> QED
  BY <1>7 DEF u, v, w, x

\* A sequence cut in two is the two put together.
LEMMA Rejoin ==
  ASSUME NEW S, NEW s \in Seq(S), NEW k \in 0..Len(s)
  PROVE  SubSeq(s, 1, k) \o SubSeq(s, k + 1, Len(s)) = s
<1>1. Len(s) \in Nat
  BY LenProperties
<1>2. /\ 1 \in 1..(Len(s) + 1) /\ k \in (1 - 1)..Len(s) /\ Len(s) \in k..Len(s)
  BY <1>1
<1>3. SubSeq(s, 1, k) \o SubSeq(s, k + 1, Len(s)) = SubSeq(s, 1, Len(s))
  BY <1>2, ConcatAdjacentSubSeq
<1> QED
  BY <1>3, SubSeqFull

-----------------------------------------------------------------------------
(* The steps.                                                               *)

\* The pending bytes begin with those of the buffer.
LEMMA PendingShape ==
  ASSUME TypeOK
  PROVE  /\ Pending \in Seq(Byte) /\ arrived \o wire \in Seq(Byte)
         /\ Len(Pending) >= hasrecvive /\ hasrecvive \in Nat
         /\ Len(Pending) = hasrecvive + Len(arrived) + Len(wire)
         /\ \A i \in 1..hasrecvive : Pending[i] = recvbuf[i]
<1>1. /\ recvbuf \in Seq(Byte) /\ arrived \in Seq(Byte) /\ wire \in Seq(Byte)
      /\ Len(recvbuf) \in Nat /\ Len(arrived) \in Nat /\ Len(wire) \in Nat
  BY LenProperties DEF TypeOK
<1> DEFINE R == arrived \o wire
<1>2. R \in Seq(Byte) /\ Len(R) = Len(arrived) + Len(wire)
  BY <1>1, ConcatProperties
<1> HIDE DEF R
<1>3. /\ recvbuf \o R \in Seq(Byte) /\ Len(recvbuf \o R) = Len(recvbuf) + Len(R)
      /\ \A i \in 1..(Len(recvbuf) + Len(R)) :
           (recvbuf \o R)[i] = IF i <= Len(recvbuf) THEN recvbuf[i] ELSE R[i - Len(recvbuf)]
  <2>1. recvbuf \in Seq(Byte) /\ R \in Seq(Byte)
    BY <1>1, <1>2
  <2> QED
    BY <2>1, ConcatProperties
<1>4. \A i \in 1..Len(recvbuf) : (recvbuf \o R)[i] = recvbuf[i]
  BY <1>1, <1>2, <1>3
<1> QED
  BY <1>1, <1>2, <1>3, <1>4 DEF Pending, hasrecvive, R

\* Where the noise is harmless, a head in the buffer is that of the first
\* pending frame, and once its last byte is in the buffer so is its tail.
LEMMA TrueHead ==
  ASSUME TypeOK, WholeHead, Len(delivered) <= Len(sent),
         NEW pos, Layout(Pending, Len(delivered), sent, pos)
  PROVE  LET d == Len(delivered)
             b == sent[d + 1]
         IN  /\ d + 1 \in 1..Len(sent) /\ pos[d + 1] = 1
             /\ b \in Bodies /\ data_size = Len(b) /\ TailAt = Size(b)
             /\ ~TooLarge
             /\ ~Incomplete => /\ Size(b) <= hasrecvive
                               /\ recvbuf[TailAt] = Hash
                               /\ \A j \in 1..Len(b) : recvbuf[MSG_HEADER + j] = b[j]
<1> DEFINE d == Len(delivered)
           b == sent[d + 1]
<1>1. /\ sent \in Seq(Bodies) /\ d \in Nat /\ Len(sent) \in Nat
  BY LenProperties DEF TypeOK
<1>2. /\ Pending \in Seq(Byte) /\ hasrecvive \in Nat /\ Len(Pending) \in Nat
      /\ Len(Pending) >= hasrecvive
      /\ \A i \in 1..hasrecvive : Pending[i] = recvbuf[i]
  BY PendingShape, LenProperties
<1>3. hasrecvive >= MSG_HEADER /\ recvbuf[1] = Dollar
  BY DEF WholeHead
<1>4. Pending[1] = Dollar /\ Len(Pending) >= 1
  BY <1>2, <1>3, SizesAssumption
<1>5. d + 1 \in 1..Len(sent) /\ pos[d + 1] = 1
  BY <1>1, <1>2, <1>4, FirstFrame
<1>6. b \in Bodies
  BY <1>1, <1>5, ElementOfSeq
<1>7. Len(b) \in Nat /\ Len(b) <= MaxBody
  BY <1>6, BytesAssumption, LenProperties
<1>8. At(Pending, 1, b)
  BY <1>1, <1>5 DEF Layout, Stand
<1> HIDE DEF b, d
<1>9. data_size = Len(b)
  <2>1. Pending[1 + MSG_HEADER - 1] = Len(b)
    BY <1>8 DEF At
  <2>2. 1 + MSG_HEADER - 1 = MSG_HEADER /\ MSG_HEADER \in 1..hasrecvive
    BY <1>2, <1>3, SizesAssumption
  <2>3. Pending[MSG_HEADER] = recvbuf[MSG_HEADER]
    BY <1>2, <2>2
  <2> QED
    BY <2>1, <2>2, <2>3 DEF data_size
<1>10. TailAt = Size(b) /\ ~TooLarge
  BY <1>7, <1>9, SizesAssumption DEF TailAt, Size, TooLarge, MaxBody
<1>11. ASSUME ~Incomplete
       PROVE  /\ Size(b) <= hasrecvive
              /\ recvbuf[TailAt] = Hash
              /\ \A j \in 1..Len(b) : recvbuf[MSG_HEADER + j] = b[j]
  <2>1. Size(b) <= hasrecvive /\ Size(b) \in Nat /\ Size(b) >= 1
    BY <1>2, <1>7, <1>9, <1>11, SizesAssumption DEF Incomplete, Size
  <2>2. recvbuf[Size(b)] = Hash
    <3>1. Pending[1 + Size(b) - 1] = Hash
      BY <1>8 DEF At
    <3>2. 1 + Size(b) - 1 = Size(b) /\ Size(b) \in 1..hasrecvive
      BY <1>2, <2>1
    <3>3. Pending[Size(b)] = Hash
      BY <3>1, <3>2
    <3> QED
      BY <1>2, <3>2, <3>3
  <2>3. ASSUME NEW j \in 1..Len(b) PROVE recvbuf[MSG_HEADER + j] = b[j]
    <3>1. Pending[1 + MSG_HEADER - 1 + j] = b[j]
      BY <1>8 DEF At
    <3>2. 1 + MSG_HEADER - 1 + j = MSG_HEADER + j /\ MSG_HEADER + j \in 1..hasrecvive
      BY <1>2, <1>7, <2>1, SizesAssumption DEF Size
    <3>3. Pending[MSG_HEADER + j] = b[j]
      BY <3>1, <3>2
    <3> QED
      BY <1>2, <3>2, <3>3
  <2> QED
    BY <1>10, <2>1, <2>2, <2>3
<1> QED
  BY <1>5, <1>6, <1>9, <1>10, <1>11 DEF b, d

\* The stream is read in the order of its pieces, however they are held.
LEMMA Regrouped ==
  \A x, y, z \in Seq(Byte) : x \o (y \o z) = (x \o y) \o z
<1> SUFFICES ASSUME NEW x \in Seq(Byte), NEW y \in Seq(Byte), NEW z \in Seq(Byte)
             PROVE  x \o (y \o z) = (x \o y) \o z
  OBVIOUS
<1> QED
  BY ConcatAssociative

\* The server writes a frame.
LEMMA SendLaid ==
  ASSUME TypeOK, Laid, NEW body \in Bodies, Send(body)
  PROVE  Laid'
<1> SUFFICES ASSUME Harmless'
             PROVE  /\ Len(delivered') <= Len(sent')
                    /\ \A i \in 1..Len(delivered') : delivered'[i] = sent'[i]
                    /\ \E pos \in [1..Len(sent') -> Int] :
                         Layout(Pending', Len(delivered'), sent', pos)
  BY DEF Laid
<1>1. /\ sent' = Append(sent, body) /\ delivered' = delivered /\ noise' = noise
      /\ wire' = wire \o Frame(body) /\ arrived' = arrived /\ recvbuf' = recvbuf
  BY DEF Send
<1>2. Harmless
  BY <1>1 DEF Harmless
<1>3. /\ sent \in Seq(Bodies) /\ Len(sent) \in Nat /\ Len(delivered) \in Nat
      /\ Len(sent') = Len(sent) + 1
      /\ \A i \in 1..Len(sent) : sent'[i] = sent[i]
  BY <1>1, LenProperties, AppendProperties DEF TypeOK
<1>4. Pending' = Pending \o Frame(body)
  <2>1. /\ recvbuf \in Seq(Byte) /\ arrived \in Seq(Byte) /\ wire \in Seq(Byte)
        /\ Frame(body) \in Seq(Byte) /\ arrived \o wire \in Seq(Byte)
    BY FrameBytes, PendingShape DEF TypeOK
  <2>2. arrived \o (wire \o Frame(body)) = (arrived \o wire) \o Frame(body)
    BY <2>1, Regrouped
  <2>3. recvbuf \o ((arrived \o wire) \o Frame(body)) = (recvbuf \o (arrived \o wire)) \o Frame(body)
    BY <2>1, Regrouped
  <2> QED
    BY <1>1, <2>2, <2>3 DEF Pending
<1>5. PICK pos \in [1..Len(sent) -> Int] : Layout(Pending, Len(delivered), sent, pos)
  BY <1>2 DEF Laid
<1>6. Len(delivered) \in 0..Len(sent)
  BY <1>2, <1>3 DEF Laid
<1>7. \E r \in [1..(Len(sent) + 1) -> Int] :
        Layout(Pending \o Frame(body), Len(delivered), Append(sent, body), r)
  BY <1>3, <1>5, <1>6, PendingShape, LayoutSend
<1>8. \A i \in 1..Len(delivered) : delivered[i] = sent'[i]
  BY <1>2, <1>3, <1>6 DEF Laid
<1>9. \E r \in [1..Len(sent') -> Int] : Layout(Pending', Len(delivered'), sent', r)
  BY <1>1, <1>3, <1>4, <1>7
<1> QED
  BY <1>1, <1>3, <1>6, <1>8, <1>9

\* A byte of noise joins the stream.
LEMMA GarbleLaid ==
  ASSUME TypeOK, Laid, NEW b \in Noise, Garble(b)
  PROVE  Laid'
<1> SUFFICES ASSUME Harmless' PROVE Laid'
  BY DEF Laid
<1>1. /\ sent' = sent /\ delivered' = delivered /\ noise' = Append(noise, b)
      /\ wire' = Append(wire, b) /\ arrived' = arrived /\ recvbuf' = recvbuf
  BY DEF Garble
<1>2. /\ noise \in Seq(Noise) /\ Len(noise) \in Nat
      /\ Len(noise') = Len(noise) + 1
      /\ \A i \in 1..Len(noise) : noise'[i] = noise[i]
      /\ noise'[Len(noise) + 1] = b
  BY <1>1, LenProperties, AppendProperties DEF TypeOK
<1>3. Harmless /\ b # Dollar
  BY <1>2 DEF Harmless
<1>4. b \in Byte
  BY BytesAssumption
<1>5. Pending' = Append(Pending, b)
  <2>1. /\ recvbuf \in Seq(Byte) /\ arrived \in Seq(Byte) /\ wire \in Seq(Byte)
        /\ <<b>> \in Seq(Byte) /\ arrived \o wire \in Seq(Byte) /\ Pending \in Seq(Byte)
    BY <1>4, PendingShape DEF TypeOK
  <2>2. wire' = wire \o <<b>>
    BY <1>1, <1>4, <2>1, AppendIsConcat
  <2>3. arrived \o (wire \o <<b>>) = (arrived \o wire) \o <<b>>
    BY <2>1, Regrouped
  <2>4. recvbuf \o ((arrived \o wire) \o <<b>>) = (recvbuf \o (arrived \o wire)) \o <<b>>
    BY <2>1, Regrouped
  <2>5. Append(Pending, b) = Pending \o <<b>>
    BY <1>4, <2>1, AppendIsConcat
  <2> QED
    BY <1>1, <2>2, <2>3, <2>4, <2>5 DEF Pending
<1>6. PICK pos \in [1..Len(sent) -> Int] : Layout(Pending, Len(delivered), sent, pos)
  BY <1>3 DEF Laid
<1>7. sent \in Seq(Bodies) /\ Len(delivered) \in Nat
  BY LenProperties DEF TypeOK
<1>8. Layout(Append(Pending, b), Len(delivered), sent, pos)
  BY <1>3, <1>4, <1>6, <1>7, PendingShape, LayoutNoise
<1>9. Layout(Pending', Len(delivered'), sent', pos)
  BY <1>1, <1>5, <1>8
<1> QED
  BY <1>1, <1>3, <1>9 DEF Laid

\* Bytes arrive, or are read into the buffer: none leaves the stream.
LEMMA MoveLaid ==
  ASSUME TypeOK, Laid, Read \/ \E n \in 1..Len(wire) : Arrive(n)
  PROVE  Laid'
<1>0. recvbuf \in Seq(Byte) /\ arrived \in Seq(Byte) /\ wire \in Seq(Byte)
  BY DEF TypeOK
<1>1. /\ arrived \in Seq(Byte) /\ wire \in Seq(Byte)
      /\ Len(arrived) \in Nat /\ Len(wire) \in Nat
  BY <1>0, LenProperties
<1>2. Pending' = Pending
  <2>1. CASE Read
    <3>1. maxread \in 0..Len(arrived)
      BY ReadBound
    <3>2. SubSeq(arrived, 1, maxread) \o SubSeq(arrived, maxread + 1, Len(arrived)) = arrived
      BY <1>1, <3>1, Rejoin
    <3>3. \E A, B \in Seq(Byte) : /\ A \o B = arrived
                                  /\ recvbuf' = recvbuf \o A /\ arrived' = B
      BY <1>1, <2>1, <3>1, <3>2, Cut DEF Read
    <3>4. PICK A \in Seq(Byte), B \in Seq(Byte) :
             A \o B = arrived /\ recvbuf' = recvbuf \o A /\ arrived' = B
      BY <3>3
    <3>5. (recvbuf \o A) \o (B \o wire) = recvbuf \o (A \o (B \o wire))
      <4>1. recvbuf \in Seq(Byte) /\ B \o wire \in Seq(Byte)
        BY <1>0, ConcatProperties
      <4> QED
        BY <4>1, ConcatAssociative
    <3>6. (A \o B) \o wire = A \o (B \o wire)
      <4>1. wire \in Seq(Byte)
        BY <1>0
      <4> QED
        BY <4>1, ConcatAssociative
    <3>7. wire' = wire
      BY <2>1 DEF Read
    <3> QED
      BY <3>4, <3>5, <3>6, <3>7, Zenon DEF Pending
  <2>2. CASE \E n \in 1..Len(wire) : Arrive(n)
    <3>1. PICK n \in 1..Len(wire) : Arrive(n)
      BY <2>2
    <3>2. n \in 0..Len(wire)
      BY <1>1
    <3>3. SubSeq(wire, 1, n) \o SubSeq(wire, n + 1, Len(wire)) = wire
      BY <1>1, <3>2, Rejoin
    <3>4. \E A, B \in Seq(Byte) : /\ A \o B = wire
                                  /\ arrived' = arrived \o A /\ wire' = B
      BY <1>1, <3>1, <3>2, <3>3, Cut DEF Arrive
    <3>5. PICK A \in Seq(Byte), B \in Seq(Byte) :
             A \o B = wire /\ arrived' = arrived \o A /\ wire' = B
      BY <3>4
    <3>6. (arrived \o A) \o B = arrived \o (A \o B)
      <4>1. arrived \in Seq(Byte)
        BY <1>0
      <4> QED
        BY <4>1, ConcatAssociative
    <3>7. recvbuf' = recvbuf
      BY <3>1 DEF Arrive
    <3> QED
      BY <3>5, <3>6, <3>7, Zenon DEF Pending
  <2> QED
    BY <2>1, <2>2
<1>3. UNCHANGED <<delivered, sent, noise>>
  BY DEF Read, Arrive
<1> QED
  BY <1>2, <1>3 DEF Laid, Harmless

\* What is pending after k bytes have left the buffer.
LEMMA SlidePending ==
  ASSUME TypeOK, NEW k \in 0..hasrecvive, Slide(k), UNCHANGED <<arrived, wire>>
  PROVE  /\ Pending' = SubSeq(Pending, k + 1, Len(Pending))
         /\ k \in 0..Len(Pending)
<1>1. recvbuf \in Seq(Byte) /\ arrived \o wire \in Seq(Byte)
  BY PendingShape DEF TypeOK
<1>2. k \in 0..Len(Pending)
  BY PendingShape, LenProperties
<1>3. SubSeq(recvbuf, k + 1, Len(recvbuf)) \o (arrived \o wire)
        = SubSeq(recvbuf \o (arrived \o wire), k + 1, Len(recvbuf \o (arrived \o wire)))
  BY <1>1, CutBefore DEF hasrecvive
<1> QED
  BY <1>2, <1>3 DEF Slide, Pending, hasrecvive

\* A byte that starts no frame leaves the buffer.
LEMMA ResyncLaid ==
  ASSUME TypeOK, Laid, Resync
  PROVE  Laid'
<1> SUFFICES ASSUME Harmless' PROVE Laid'
  BY DEF Laid
<1>1. Slide(1) /\ UNCHANGED <<wire, arrived, delivered, sent, noise>>
  BY DEF Resync
<1>2. Harmless
  BY <1>1 DEF Harmless
<1>3. PICK pos \in [1..Len(sent) -> Int] : Layout(Pending, Len(delivered), sent, pos)
  BY <1>2 DEF Laid
<1>4. /\ Len(delivered) <= Len(sent) /\ Len(delivered) \in Nat /\ Len(sent) \in Nat
      /\ sent \in Seq(Bodies)
  BY <1>2, LenProperties DEF Laid, TypeOK
<1>5. recvbuf[1] # Dollar
  <2>1. ~WholeHead
    BY <1>3, <1>4, TrueHead DEF Resync
  <2> QED
    BY <2>1 DEF Resync, WholeHead
<1>6. hasrecvive \in Nat /\ 1 \in 1..hasrecvive /\ Pending[1] # Dollar
  <2>1. hasrecvive \in Nat /\ hasrecvive >= MSG_HEADER
    BY PendingShape DEF Resync
  <2>2. 1 \in 1..hasrecvive
    BY <2>1, SizesAssumption
  <2> QED
    BY <1>5, <2>1, <2>2, PendingShape
<1>7. ASSUME NEW k \in 1..Len(sent), k > Len(delivered) PROVE pos[k] > 1
  <2>1. At(Pending, pos[k], sent[k])
    BY <1>3, <1>7 DEF Layout, Stand
  <2>2. pos[k] # 1 /\ pos[k] >= 1 /\ pos[k] \in Int
    BY <1>3, <1>6, <2>1 DEF At
  <2> QED
    BY <2>2
<1>8. Pending' = SubSeq(Pending, 1 + 1, Len(Pending)) /\ 1 \in 0..Len(Pending)
  <2>1. 1 \in 0..hasrecvive
    BY <1>6
  <2> QED
    BY <1>1, <2>1, SlidePending
<1>9. \E r \in [1..Len(sent) -> Int] :
        Layout(SubSeq(Pending, 1 + 1, Len(Pending)), Len(delivered), sent, r)
  <2>1. \A k \in 1..Len(sent) :
          Len(delivered) < k /\ k <= Len(delivered) => pos[k] + Size(sent[k]) <= 1 + 1
    BY <1>4
  <2>2. Len(delivered) <= Len(delivered) /\ Pending \in Seq(Byte)
    BY <1>4, PendingShape
  <2>3. \A k \in 1..Len(sent) : k > Len(delivered) => pos[k] > 1
    BY <1>7
  <2> DEFINE d == Len(delivered)
  <2> HIDE DEF d
  <2>4. \E r \in [1..Len(sent) -> Int] :
          Layout(SubSeq(Pending, 1 + 1, Len(Pending)), d, sent, r)
    BY <1>3, <1>4, <1>8, <2>1, <2>2, <2>3, LayoutCut DEF d
  <2> QED
    BY <2>4 DEF d
<1> QED
  BY <1>1, <1>2, <1>8, <1>9 DEF Laid

\* The first pending frame leaves the buffer and is handled.
LEMMA DeliverLaid ==
  ASSUME TypeOK, Laid, Deliver
  PROVE  Laid'
<1> SUFFICES ASSUME Harmless' PROVE Laid'
  BY DEF Laid
<1> DEFINE d == Len(delivered)
           b == sent[d + 1]
           c == SubSeq(recvbuf, MSG_HEADER + 1, MSG_HEADER + data_size)
<1>1. /\ Slide(TailAt) /\ UNCHANGED <<wire, arrived, sent, noise>>
      /\ WholeHead /\ ~Incomplete
      /\ delivered' = Append(delivered, c)
  BY DEF Deliver
<1>2. Harmless
  BY <1>1 DEF Harmless
<1>3. PICK pos \in [1..Len(sent) -> Int] : Layout(Pending, d, sent, pos)
  BY <1>2 DEF Laid
<1>4. /\ d <= Len(sent) /\ d \in Nat /\ Len(sent) \in Nat
      /\ sent \in Seq(Bodies)
  BY <1>2, LenProperties DEF Laid, TypeOK
<1>5. /\ d + 1 \in 1..Len(sent) /\ pos[d + 1] = 1
      /\ b \in Bodies /\ data_size = Len(b) /\ TailAt = Size(b)
      /\ Size(b) <= hasrecvive
      /\ \A j \in 1..Len(b) : recvbuf[MSG_HEADER + j] = b[j]
  BY <1>1, <1>3, <1>4, TrueHead
<1>6. /\ Len(b) \in Nat /\ b \in Seq(Byte) /\ Size(b) \in Nat /\ Size(b) >= MSG_HEADER
      /\ hasrecvive \in Nat
  BY <1>5, BytesAssumption, SizesAssumption, LenProperties, PendingShape DEF Size
<1>7. c = b
  <2>1. \A i \in 1..Len(recvbuf) : recvbuf[i] \in Byte
    BY ElementOfSeq DEF TypeOK
  <2>2. \A i \in (MSG_HEADER + 1)..(MSG_HEADER + Len(b)) : recvbuf[i] \in Byte
    BY <1>5, <1>6, <2>1, SizesAssumption DEF Size, hasrecvive
  <2>3. /\ MSG_HEADER + 1 \in Int /\ MSG_HEADER + Len(b) \in Int
        /\ (MSG_HEADER + Len(b)) - (MSG_HEADER + 1) + 1 = Len(b)
    BY <1>6, SizesAssumption
  <2>4. /\ c \in Seq(Byte)
        /\ Len(c) = IF MSG_HEADER + 1 <= MSG_HEADER + Len(b) THEN Len(b) ELSE 0
        /\ \A i \in 1..Len(b) : c[i] = recvbuf[(MSG_HEADER + 1) + i - 1]
    BY <1>5, <2>2, <2>3, SubSeqProperties
  <2>5. Len(c) = Len(b)
    BY <1>6, <2>4, SizesAssumption
  <2>6. ASSUME NEW i \in 1..Len(c) PROVE c[i] = b[i]
    <3>1. i \in 1..Len(b) /\ (MSG_HEADER + 1) + i - 1 = MSG_HEADER + i
      <4> HIDE DEF c, b
      <4> QED
        BY <1>6, <2>5, SizesAssumption
    <3>2. c[i] = recvbuf[(MSG_HEADER + 1) + i - 1]
      BY <2>4, <3>1
    <3>3. recvbuf[MSG_HEADER + i] = b[i]
      BY <1>5, <3>1
    <3> HIDE DEF c
    <3> QED
      BY <3>1, <3>2, <3>3
  <2> HIDE DEF c, b
  <2> QED
    BY <1>6, <2>4, <2>5, <2>6, SeqEqual
<1> HIDE DEF c
<1>8. Pending' = SubSeq(Pending, Size(b) + 1, Len(Pending)) /\ Size(b) \in 0..Len(Pending)
  <2>1. Size(b) \in 0..hasrecvive
    BY <1>5, <1>6
  <2> QED
    BY <1>1, <1>5, <2>1, SlidePending
<1>9. ASSUME NEW k \in 1..Len(sent), k > d + 1 PROVE pos[k] > Size(b)
  <2>1. pos[d + 1] + Size(sent[d + 1]) <= pos[k]
    BY <1>3, <1>4, <1>5, <1>9 DEF Layout, Stand
  <2>2. pos[k] \in Int
    BY <1>3
  <2> QED
    BY <1>5, <1>6, <2>1, <2>2
<1>10. ASSUME NEW k \in 1..Len(sent), d < k, k <= d + 1
       PROVE  pos[k] + Size(sent[k]) <= Size(b) + 1
  <2>1. k = d + 1
    BY <1>4, <1>10
  <2> QED
    BY <1>5, <1>6, <2>1
<1>11. \E r \in [1..Len(sent) -> Int] :
         Layout(SubSeq(Pending, Size(b) + 1, Len(Pending)), d + 1, sent, r)
  <2>1. d + 1 \in Nat /\ d <= d + 1
    BY <1>4
  <2> HIDE DEF b, d
  <2> QED
    BY <1>3, <1>4, <1>8, <1>9, <1>10, <2>1, PendingShape, LayoutCut
<1>12. /\ Len(delivered') = d + 1
       /\ \A i \in 1..d : delivered'[i] = delivered[i]
       /\ delivered'[d + 1] = b
  BY <1>1, <1>6, <1>7, AppendProperties DEF TypeOK
<1>13. \A i \in 1..d : delivered[i] = sent[i]
  BY <1>2 DEF Laid
<1>14. \A i \in 1..(d + 1) : delivered'[i] = sent[i]
  BY <1>4, <1>12, <1>13
<1>15. d + 1 <= Len(sent)
  BY <1>4, <1>5
<1>16. sent' = sent
  BY <1>1
<1> HIDE DEF b, d
<1> QED
  BY <1>8, <1>11, <1>12, <1>14, <1>15, <1>16 DEF Laid

\* An empty stream holds no frame.
LEMMA LaidInit == Init => Laid
<1> SUFFICES ASSUME Init PROVE Laid
  OBVIOUS
<1>1. /\ recvbuf = <<>> /\ arrived = <<>> /\ wire = <<>>
      /\ delivered = <<>> /\ sent = <<>>
  BY DEF Init
<1>2. Pending = <<>> /\ Len(Pending) = 0 /\ Len(sent) = 0 /\ Len(delivered) = 0
  <2>1. <<>> \o <<>> = <<>>
    <3>1. <<>> \in Seq(Byte)
      BY EmptySeq
    <3> QED
      BY <3>1, ConcatEmptySeq
  <2>2. Len(<<>>) = 0
    BY EmptySeq
  <2> QED
    BY <1>1, <2>1, <2>2 DEF Pending
<1> DEFINE pos == [k \in 1..Len(sent) |-> 0]
<1>3. pos \in [1..Len(sent) -> Int]
  OBVIOUS
<1> HIDE DEF pos
<1>4. Layout(Pending, Len(delivered), sent, pos)
  <2>1. 1..Len(sent) = {} /\ 1..Len(Pending) = {}
    BY <1>2
  <2>2. Stand(Pending, Len(delivered), sent, pos) /\ Covered(Pending, Len(delivered), sent, pos)
    BY <2>1, Zenon DEF Stand, Covered
  <2> QED
    BY <1>3, <2>2 DEF Layout
<1>5. \A i \in 1..Len(delivered) : delivered[i] = sent[i]
  BY <1>2
<1>6. \E r \in [1..Len(sent) -> Int] : Layout(Pending, Len(delivered), sent, r)
  BY <1>3, <1>4
<1>7. Len(delivered) <= Len(sent)
  BY <1>2
<1> QED
  BY <1>5, <1>6, <1>7, Zenon DEF Laid

\* Every step keeps the frames handled and the frames pending in order.
LEMMA LaidStep ==
  ASSUME TypeOK, Laid, [Next]_vars
  PROVE  Laid'
<1>1. CASE DropAll
  <2>1. ~Harmless
    <3> SUFFICES ASSUME Harmless PROVE FALSE
      OBVIOUS
    <3>1. PICK pos \in [1..Len(sent) -> Int] : Layout(Pending, Len(delivered), sent, pos)
      BY DEF Laid
    <3> QED
      BY <1>1, <3>1, TrueHead DEF DropAll, Laid
  <2> QED
    BY <1>1, <2>1 DEF DropAll, Laid, Harmless
<1>2. CASE Return
  BY <1>2 DEF Return, Laid, Harmless, Pending
<1>3. CASE UNCHANGED vars
  BY <1>3 DEF vars, Laid, Harmless, Pending
<1> QED
  BY <1>1, <1>2, <1>3, SendLaid, GarbleLaid, MoveLaid, ResyncLaid, DeliverLaid DEF Next

\* The loop ends where the buffer calls for more bytes, and a read that finds
\* none leaves it as it was.
LEMMA WaitsStep ==
  ASSUME Bounded, Waits, [Next]_vars
  PROVE  Waits'
<1> USE DEF Waits, hasrecvive, WholeHead, TooLarge, Incomplete, data_size
<1>1. CASE Read
  <2>1. CASE maxread > 0
    <3>1. looping'
      BY <1>1, <2>1, Zenon DEF Read
    <3> QED
      BY <3>1
  <2>2. CASE ~(maxread > 0)
    <3>1. maxread = 0
      BY <2>2, ReadBound, LenProperties DEF Bounded, TypeOK
    <3>2. recvbuf' = recvbuf
      <4>1. SubSeq(arrived, 1, 0) = <<>>
        BY SubSeqEmpty
      <4>2. recvbuf \o <<>> = recvbuf
        BY ConcatEmptySeq DEF Bounded, TypeOK
      <4> QED
        BY <1>1, <3>1, <4>1, <4>2 DEF Read
    <3> QED
      BY <1>1, <3>2 DEF Read
  <2> QED
    BY <2>1, <2>2
<1>2. CASE Resync \/ Deliver
  BY <1>2 DEF Resync, Deliver, Bounded, TypeOK
<1>3. CASE DropAll
  BY <1>3, EmptySeq, SizesAssumption DEF DropAll
<1>4. CASE Return
  BY <1>4 DEF Return
<1>5. CASE UNCHANGED <<recvbuf, looping>>
  BY <1>5
<1> QED
  BY <1>1, <1>2, <1>3, <1>4, <1>5 DEF Next, vars, Send, Garble, Arrive

\* The strengthening that both theorems rest on.
Stream == Bounded /\ Laid /\ Waits

\* In every reachable state the stream is laid out frame after frame.
LEMMA StreamAlways == Spec => []Stream
<1>1. Init => Stream
  <2>1. Init => Waits
    BY EmptySeq, SizesAssumption DEF Init, Waits, hasrecvive
  <2> QED
    BY <2>1, BoundedInit, LaidInit DEF Stream
<1>2. Stream /\ [Next]_vars => Stream'
  BY BoundedStep, LaidStep, WaitsStep DEF Stream, Bounded
<1> QED
  BY <1>1, <1>2, PTL DEF Spec

\* While no '$' stands between the frames, those handled are the first frames
\* sent, whole and in order, whatever their bodies hold, however the stream is
\* cut and whatever the sizes of head and buffer (mytcpsocket.cpp 234-271).
THEOREM Ordered == Spec => []InOrder
<1>1. Stream => InOrder
  <2> SUFFICES ASSUME Stream, Harmless PROVE IsPrefix(delivered, sent)
    BY DEF InOrder
  <2>1. /\ Len(delivered) <= Len(sent)
        /\ \A i \in 1..Len(delivered) : delivered[i] = sent[i]
    BY DEF Stream, Laid
  <2>2. SubSeq(delivered, 1, Len(delivered)) = SubSeq(sent, 1, Len(delivered))
    <3>1. /\ Len(delivered) \in Nat /\ Len(sent) \in Nat
          /\ delivered \in Seq(Seq(Byte)) /\ sent \in Seq(Seq(Byte))
      BY BytesAssumption, LenProperties, SeqMonotonic DEF Stream, Bounded, TypeOK
    <3> DEFINE u == SubSeq(delivered, 1, Len(delivered))
               v == SubSeq(sent, 1, Len(delivered))
               n == Len(delivered)
    <3>2. /\ \A i \in 1..n : delivered[i] \in Seq(Byte)
          /\ \A i \in 1..n : sent[i] \in Seq(Byte)
      BY <2>1, <3>1, ElementOfSeq
    <3>3. /\ u \in Seq(Seq(Byte)) /\ Len(u) = IF 1 <= n THEN n - 1 + 1 ELSE 0
          /\ \A i \in 1..(n - 1 + 1) : u[i] = delivered[1 + i - 1]
      BY <3>1, <3>2, SubSeqProperties
    <3>4. /\ v \in Seq(Seq(Byte)) /\ Len(v) = IF 1 <= n THEN n - 1 + 1 ELSE 0
          /\ \A i \in 1..(n - 1 + 1) : v[i] = sent[1 + i - 1]
      BY <3>1, <3>2, SubSeqProperties
    <3> HIDE DEF u, v
    <3>5. Len(u) = n /\ Len(v) = n
      BY <3>1, <3>3, <3>4
    <3>6. ASSUME NEW i \in 1..Len(u) PROVE u[i] = v[i]
      <4>1. i \in 1..(n - 1 + 1) /\ 1 + i - 1 = i /\ i \in 1..n
        BY <3>1, <3>5
      <4> QED
        BY <2>1, <3>3, <3>4, <4>1
    <3>7. u = v
      BY <3>3, <3>4, <3>5, <3>6, SeqEqual
    <3> QED
      BY <3>7 DEF u, v
  <2> QED
    BY <2>1, <2>2 DEF IsPrefix
<1> QED
  BY <1>1, StreamAlways, PTL

\* And once all that was sent has been read, every frame has been handled.
THEOREM Complete == Spec => []NoneLost
<1>1. Stream => NoneLost
  <2> SUFFICES ASSUME Stream, Harmless, wire = <<>>, arrived = <<>>, ~looping
               PROVE  delivered = sent
    BY DEF NoneLost
  <2>1. /\ Len(delivered) <= Len(sent)
        /\ \A i \in 1..Len(delivered) : delivered[i] = sent[i]
    BY DEF Stream, Laid
  <2>2. PICK pos \in [1..Len(sent) -> Int] : Layout(Pending, Len(delivered), sent, pos)
    BY DEF Stream, Laid
  <2>3. /\ Len(delivered) \in Nat /\ Len(sent) \in Nat
        /\ delivered \in Seq(Seq(Byte)) /\ sent \in Seq(Bodies)
        /\ sent \in Seq(Seq(Byte))
    BY BytesAssumption, LenProperties, SeqMonotonic DEF Stream, Bounded, TypeOK
  <2>4. TypeOK
    BY DEF Stream, Bounded
  <2>5. Pending = recvbuf
    <3>1. <<>> \in Seq(Byte) /\ recvbuf \in Seq(Byte)
      BY <2>4, EmptySeq DEF TypeOK
    <3>2. <<>> \o <<>> = <<>> /\ recvbuf \o <<>> = recvbuf
      BY <3>1, ConcatEmptySeq
    <3> QED
      BY <3>2 DEF Pending
  <2>6. ASSUME Len(delivered) < Len(sent) PROVE FALSE
    <3> DEFINE d == Len(delivered)
               b == sent[d + 1]
    <3>1. d + 1 \in 1..Len(sent)
      BY <2>3, <2>6
    <3>2. b \in Bodies
      BY <2>3, <3>1, ElementOfSeq
    <3>3. Len(b) \in Nat
      BY <3>2, BytesAssumption, LenProperties
    <3>4. At(recvbuf, pos[d + 1], b)
      BY <2>2, <2>3, <2>5, <3>1 DEF Layout, Stand
    <3>5. pos[d + 1] \in Int /\ hasrecvive \in Nat
      BY <2>2, <2>4, <3>1, PendingShape
    <3>6. pos[d + 1] + Size(b) - 1 <= hasrecvive /\ pos[d + 1] >= 1
      BY <3>4 DEF At, hasrecvive
    <3>7. hasrecvive >= MSG_HEADER
      <4> HIDE DEF b, d
      <4> QED
        BY <3>3, <3>5, <3>6, SizesAssumption DEF Size
    <3>8. WholeHead /\ Incomplete
      BY <3>7 DEF Stream, Waits
    <3>9. data_size = Len(b) /\ pos[d + 1] = 1
      BY <2>1, <2>2, <2>4, <3>8, TrueHead
    <3> HIDE DEF b, d
    <3> QED
      BY <3>3, <3>5, <3>6, <3>8, <3>9, SizesAssumption DEF Size, Incomplete
  <2>7. Len(delivered) = Len(sent)
    BY <2>1, <2>3, <2>6
  <2> QED
    BY <2>1, <2>3, <2>7, SeqEqual
<1> QED
  BY <1>1, StreamAlways, PTL
=============================================================================
