# CloudMeeting in TLA+

Specifications, model-checking configurations and machine-checked proofs for
the meeting server (`src/CloudMeeting_Server-master`) and the parts of the
client (`src/CloudMeeting-master`) it depends on.

Run TLC on a configuration with `tlc -config MCRoom_members.cfg MCRoom.tla`,
the proofs with `tlapm RoomProof.tla`. `PROJECT.json` lists the runs with what
each checks, the mutants that show that each property can fail, the lines of
the program behind every definition, the findings and the hazards.

## The system

The server listens on one port with four *acceptor* threads. An acceptor reads
frames from a connection until it has made a room, joined one, or seen the
connection close. A room is a `Pool` object with a *room* thread that reads the
members' frames, an *accept* thread that registers the connections an acceptor
hands over, and five *send* threads that write frames to the members. The
client has a socket thread, a sending thread, threads for camera, microphone
and texts, a thread that hands received frames to the user interface, and the
user interface itself.

| Component | State | Operations | Talks to |
|---|---|---|---|
| `SEND_QUEUE` (msg.h) | `send_queue`, `shutdown_flag`, one mutex, one condition variable | `push_msg`, `pop_msg`, `shutdown`, `clear` | room, accept and send threads of one room |
| Pool and room thread (msg.h, room.cpp) | `fdset`, `activeFds`, `fdToIp`, `num`, `owner`, `status`, `shutdown` | `room_thread_main`, `fdclose`, `clear_room` | members' sockets; `SEND_QUEUE`; accept thread through `clientQueue` and `join` |
| Accept thread (room.cpp) | the connection in hand | `accept_fd`: 'C', 'J', 'X' | `clientQueue`, Pool, `SEND_QUEUE` |
| Send threads (room.cpp) | the frame in hand, its recipients | `send_func` | `SEND_QUEUE`, members' sockets, no lock while writing |
| Acceptors and room map (main.cpp, userdeal.cpp) | `g_rooms`, the connection being served | `dowithuser`, `generate_room_id`, `writetofd` | Pool under its lock, `clientQueue`, the client |
| Socket wrappers (net.cpp) | none | `Select`, `Readn`, `writen`, `Close` | all of the above |
| Client socket (mytcpsocket.cpp) | `recvbuf`, `hasrecvive`, `m_isCanRun` | `recvFromSocket`, `sendData`, `run`, connect and disconnect | server, `queue_send`, `queue_recv`, `audio_recv` |
| `QUEUE_DATA` (netheader.h) | queue, mutex, condition | `push_msg`, `pop_msg` with a timeout, `clear` | all client threads |
| `RecvSolve` (recvsolve.cpp) | `m_isCanRun` | `run` | `queue_recv`, `Widget` by a blocking signal |
| `Widget` (widget.cpp) | `partner`, `_joinmeet`, `_createmeet`, buttons | `datasolve` and the buttons | all client threads |
| Text, picture, sound threads | their queues and stop flags | push, run, stop | `queue_send`, devices |

What is hard here: one condition variable serves both sides of a queue; a
connection passes through four owners under three locks; `status` and `num` are
tested in one thread and acted on in another; the room thread works on copies of
sets that its own calls change; the send threads write with no lock; a room
closes while joins are under way; the streams are cut anywhere; half a frame, or
half a head, blocks a room. Nothing is persistent, so there is no crash recovery; TCP
neither loses nor reorders, and the program repeats nothing.

What makes each component correct:

* `SEND_QUEUE`: a bounded FIFO that loses no wakeup and lets every send thread
  go after `shutdown()`.
* Pool and its threads: the four books on the members agree; a closed handle is
  never selected on; each connection has one owner; nothing enters a closed
  room; a member that is gone is closed; a closed room ends and leaves nobody.
* Rosters: the clients come to show the members.
* Acceptors and the map: what the map finds is a room that has not ended, and
  every such room is found; everyone is accepted unless silent clients hold all
  acceptors; every request is answered unless a text came before it.
* Framing: what was sent is what is received, however it is cut.
* Client queues and session: a feeder asleep has a message in front of it whose
  removal wakes it; nothing that is sent or shown belongs to an earlier session;
  disconnecting and closing the window come to an end.
* Window: one connection at a time and a way on, but for three cases that are
  named; sound only in company, but for what a lost connection leaves in the map
  of tiles; the label of the microphone's button says that it is read; tiles and
  list of mentions go together, and no tile is a null pointer as long as the
  camera keeps to a rule; a text that was sent gives its button back.

## Modules

| Module | Models | Correspondence |
|---|---|---|
| `SendQueue` | class `SEND_QUEUE` | one operator per critical section; the wait set is `waiting`, and a thread in it takes no step. No next-state relation of its own. |
| `SendQueueUse` | `SEND_QUEUE` with arbitrary threads | a notification is a step of its own because the methods unlock first; waits may end spuriously. |
| `FrameQueue` | abstract | the bounded FIFO a room wants: no wait set, no pills. |
| `Meeting` | abstract | who is outside, who is present, whether it is over: no sockets, queues or threads. |
| `Room` | Pool, room, accept and send threads, the end of a join in the acceptors, clients as environment | one action per critical section; `roomPc`, `acceptPc`, `sendPc`, `lobby` name the statement a thread is about to run. |
| `Roster` | `Room` with `Widget::partner` of each client | extends each `SendWrite` and `JoinRespond` by what `datasolve` makes of the frame. |
| `Lobby` | `main.cpp`, `dowithuser`, `generate_room_id`, `g_rooms` | one action per critical section of an acceptor (`at`); a room is reduced to `drawn`, `on`, `close`, `ended`. |
| `Framing` | `MyTcpSocket::recvFromSocket` | one action per iteration of its loop; bytes arrive in any pieces. |
| `Uplink` | `sendData` against the reading part of `room_thread_main` | bytes of one connection. |
| `QueueData` | `QUEUE_DATA` | one operator per critical section, the notification included; a timed wait may end at any time. |
| `Session` | the client's threads: user interface, socket thread, sending thread, `RecvSolve`, `AudioOutput`, `SendText`/`SendImg` | one program counter per thread (`ui`, `sock`, `run`, `solve`, `play`, `feed`), one step per critical section, event or return of a `wait()`; three instances of `QueueData`. |
| `Widget` | `widget.cpp` | one action per button, per branch of `datasolve` and per event of camera, microphone and text thread; what follows a message box is an action of its own. |
| `MC...` | instances for TLC | sets, symmetry, constraints only. |
| `SendQueueProof`, `RoomTypes`, `RoomProof`, `LobbyProof`, `FramingProof`, `RosterProof`, `SessionProof`, `WidgetProof` | proofs | see below. |

`Room` extends `SendQueue`, `Roster` extends `Room`, `RosterProof` extends
`Roster` and `RoomProof`. `SendQueueUse` instantiates `FrameQueue` for its
refinement, `Room` instantiates `Meeting` (`Gathering`: present are `activeFds`,
over is `shutdown`, outside are those not yet `Past` the hand-over), `Session`
three times `QueueData` (`queue_send`, `queue_recv`, `audio_recv`).
`Room` takes a method's notification together with its critical section, which
`SendQueueUse` shows not to matter for what the queue promises; `QueueData` does
the same.

`Lobby` and `Room` meet at the join: `Lobby` follows the acceptors over several
rooms and knows of a room only whether it can be found and has ended; `Room`
follows one room and knows of the acceptors only where they touch it. `Session`
and `Widget` meet at connect and disconnect, which are many steps in `Session`
and one in `Widget`; the buttons that `Session` leaves out touch no queue.

Choices a reader of the code should know, first the server's:

* A handle is named by its connection and not reused; reuse of the number by
  Windows is outside the model.
* A frame in `Room` is a head (`MEDIA` for text, picture and sound, `CAMERA`,
  `OTHER` for an unknown type, `GARBAGE` for no head, `STUB` for a part of one)
  followed by `REST` or `BADREST`. What completes a `STUB` may come later, or
  never, or the client closes: until then the room thread waits in `Readn`
  (`roomPc = "head"`, `room.cpp:63`). One half head at a time is a bound
  (`HalfSaid`). The byte after a frame is compared as an
  `int` of which one byte was read, so `RoomBody` may refuse a whole frame, and
  where no byte came the outcome is open.
* Reading an absent key of `fdToIp` inserts it, as `std::map` does (`Looked`).
* `Select` has a zero timeout and the room thread spins; `RoomTop` waits when
  `fdset` is empty, where the code sleeps 10 ms and looks again.
* In `Roster` the frames written to a client are taken as handled at once, in
  the order of the writes, which is the order in which they are read. Addresses
  (`IpOf`) are arbitrary: they may be shared, as behind one router, or `NoIp`, the
  0 of a `getpeername` that failed, as for the joiner of `room_frames`; TLC's
  other instances give each client its own. `NobodyMissing` names what sharing costs
  (`NamesakeIsOut`): the exit of one takes the other's tile away.
* Clients are taken to read what they are sent: a `writen` that blocks for ever
  is not modelled.
* `Lobby` counts the bytes of a frame where that decides whether `dowithuser`
  reads at the start of the next one (`skew`). Addresses and numbers are taken to
  hold no `'$'` byte; a text reaches the acceptor as the head and tail that
  `sendData` writes. Whether a room is full is open there; `Room` counts.

and the client's:

* In `Framing` a size field is one byte, the last of the head, and may be any
  number up to `MaxByte`, which is arbitrary: such a byte stands for the four of
  the code. Frames of any type are handled alike.
* In `Session` a message handed to `SendText` or `SendImg` is a count; the short
  locked sections of their own queues (`textqueue`, `imgqueue`) cannot block, and
  `clearImgQueue` is the same as never having been asked. `AudioInput` pushes to
  `queue_send` from its own thread the way a feeder does and is left out.
  Failing allocations are left out.
* A lost connection is told to the user interface or not: the signal that
  `errorDetect` is connected to by name, `error(QAbstractSocket::SocketError)`,
  exists in some versions of Qt only. In `Widget` a loss that is told (`"lost"`)
  puts its news behind the message in hand (`news`); one that is not is
  `"silent"`.
* In `Widget` the map `partner` has entries for addresses of other members, for
  the own one, for 0 (`Unconnected`: an open socket that has lost its connection)
  and for -1 (`NoSocket`). Nothing keeps the own address from being another
  member's: a client on the same machine has it, and `Others` may hold `Own`.
* In `Widget` a server answers a request with a room number other than 0, with
  "missing", or not at all.

## Runs

Passing runs; distinct states in parentheses.

| Run | Bounds | Shows |
|---|---|---|
| `send_queue` (22,693) | 2 + 2 threads, 4 places, 2 frames, 2 pills | no lost wakeup while nobody calls `clear()`, every consumer retires, nothing is left behind by a retired one, and `FrameQueue` is implemented. |
| `room_members` (390,050) | creator and 2 joiners, limit 2, queue of 3, 1 send thread, no media | the safety properties of the room under every order of joins, refusals, leaves and the closing: no handle is forgotten or has two owners, and `Meeting` is implemented. |
| `room_frames` (502,143) | creator and 1 joiner whose address is not known, queue of 3, 1 send thread, 1 frame of any kind and 1 half head, room number known to all | the threads never wait for one another at the send queue, a member that is gone is closed unless half a head or half a frame blocks the room; a connection handed over is registered or the room closes. |
| `roster_meet` (31,134) | creator and 1 joiner, 2 send threads | two members come to show one another. |
| `roster_missing` (5.2 million) | creator and 2 joiners, 2 send threads, only while the owner is there | in a settled room no member lacks another, but for the two cases the property names. |
| `lobby_rooms` (428,883) | 2 acceptors, 3 clients, 2 numbers, heads of 2 bytes, 2 frames in all | the map and the rooms agree unless a number is drawn twice at once; everyone is accepted and answered but for the two named exceptions. |
| `framing_stream` (1.3 million) | heads of 2 bytes, a buffer of 6, 3 frames, 2 bytes of noise | the frames come out whole, in order and all, and the buffer never jams. |
| `session_threads` (572,945) | 1 feeder, queues of one message, 2 sessions, 2 messages given, 3 received | nothing crosses from one session to the next, sleeping feeders are woken, and disconnecting and closing end but for the named ways to hang. |
| `widget_meeting` (3.3 million) | 1 member elsewhere and 1 with the own address, 1 request and 1 microphone signal on their way; see `Within` below | buttons, tiles, list, sound and camera agree, whatever is handled while a message box is open and whether or not a loss is told. |

Runs that end in a violation, each one a statement of the program's own comments
that the code breaks:

| Run | Property | What happens |
|---|---|---|
| `room_deadlock` | `ClosedRoomEnds` | the accept thread sleeps in `push_msg` on a full queue; the owner leaves; `clear()` empties the queue and wakes nobody; the room thread waits for the accept thread for ever. |
| `room_stranded` | `NoneLeftBehind` | a join queued behind 'X' is answered with success and belongs to nobody. |
| `uplink_data` | `SaidIsForwarded` | `sendData` announces a size and writes no data; the next frames are taken for it. |

Why the bounds are enough. Two threads on a side are what it takes for a
wakeup to go to the wrong one of two kinds, to a thread of the same kind, or to
nobody; four places are the fewest for which two and two threads cannot strand
each other, and the proofs cover the rest. A room needs a joiner that arrives
while another one leaves and the owner closes, hence three connections, and a
limit of two lets the third be refused or slip in. One frame of each kind is
enough for half a frame to block, to break, or to be cut by a close, and one half
head for the same. Two send
threads are what it takes for frames to overtake one another. In `framing_stream`
one body is itself a frame and another is a tail mark; the noise bytes announce
a size that just does not fit, one that fits after sliding, and one far too
large.

In `lobby_rooms` two acceptors draw one number at once, erase each other's
entry, or are both held by silent clients while a third waits; two frames are a
text followed by a request, or two requests. In `session_threads` a queue of
one message is full after one push, so that each of the circles closes; a
second session is what anything left over from the first could reach; three
messages fill the queue, the hand-over and the socket thread at once. In
`widget_meeting` one other member is present or absent, announced twice, or
gone before it was announced, and another does the same to the entry of this
client, whose address it has; tiles of several members do not depend on one
another, and the proofs cover any number of them and any number of requests and
signals on their way.

Two runs have a constraint, whose other states are checked but not left.
`MCRoster!WhileOwned`: `NobodyMissing` speaks of members, and a room whose owner
has left has and gets none (`ClosedStaysEmpty`, proved). `MCWidget!Within`: two
entries in `partner` are what company is counted from, and a third comes and goes
as the second did; of a text, a request, a signal to the microphone and a last
frame of the camera, none of which is handled by what another has changed, one is
on its way at a time; and a microphone started after `stopCollect()` (`overrun`) is what
`MicIsShown` excepts, and no other property reads. The proofs need none of this.
Symmetry is used where only safety is checked. Deadlock is not checked for rooms,
acceptors, streams and the client, which really may come to rest; `send_queue`
checks it.

## Fairness

Weak fairness of each thread of the program and nothing else: every loop of the
code goes on, blocked threads are not enabled, and a mutex is held for a few
statements. An acceptor inside `dowithuser` finishes its call. Clients owe the
server nothing: they need not send the rest of a frame, join or close. That
matters, because `sendData` leaves the room waiting for data it does not send;
`GoneMemberIsClosed` therefore names the case of a room thread that waits for
ever (`Stalled`) instead of assuming it away, and `EveryoneAccepted` that of
acceptors held by silent clients (`AllHeld`). In the same way the user and the
server owe the client's threads nothing in `Session`. In `SendQueueUse` the
consumers and the notifications are fair, the producers are not, and no spurious
wakeup is relied on.

`DisconnectReturns` and `WindowCloses` name the ways in which the client really
hangs, each a state of the model:

* `Circle`: the user interface waits for the socket thread, that for a place in
  `queue_recv`, `RecvSolve` for the user interface (a blocking signal);
* `Deaf`: the socket thread waits for a place in `audio_recv`, whose reader has
  ended because the device refused what it wrote (`AudioOutput.cpp:102`);
* `Restarted`: the sending thread sets `m_isCanRun` after it was told to stop;
* `HandedTooLate`: `~Widget` waits for `RecvSolve`, which waits for the window;
* `FeederHeld`: a feeder waits for a place in a queue nobody pops any more.

## Proofs

All theorems hold for every value of the constants that meets the named
assumptions in the modules: any finite sets of threads and connections, any
capacity, limit and buffer.

* `SendQueueProof`: `Types`, `ShutdownWakes` (nobody sleeps after `shutdown()`;
  in no run, since `EveryConsumerRetires` cannot hold without it), `Balance`
  (`Accounting`, the invariant behind the next), `Wakeups` (`NoLostWakeup`),
  `Drained` (`DrainedBeforeRetiring`) and `Implements` (`ImplementsFrameQueue`). `NoLostWakeup` assumes `Roomy`: the queue has places
  for twice the threads less two. The program has 10000 places and seven
  threads. It rests on `Accounting`: a sleeping consumer means that the frames
  do not outnumber the consumers awake or about to be notified, and the same of
  producers and places; so both sides cannot sleep at once and some notification
  is on its way. With fewer places it is false, and TLC shows it. That nothing
  is left behind, and the refinement, rest on `PillsLast`: pills are pushed under
  the flag that ends all other pushes, so the queue is frames and then pills, and
  `FramesOf`, the queue up to its first pill, is the abstract queue. `Simulation`
  maps each step to one of `FrameQueue` or a stutter.
* `RoomTypes`: `Types` (`TypeOK` of `Room`), one lemma per thread; `TypeInv` adds
  that the accept thread holds a connection when it registers one.
* `RoomProof`: `Books` (`Bookkeeping`), `Selecting` (`SelectSafe`), `Closing`
  (`ClosedStaysEmpty`), `Reading` (`StaleOnlyAfterClear`), `Places` (`OnePlace`),
  `StartsLast`, `Flowing` (`NeverJams`), and `HoldsMeeting` (`ImplementsMeeting`).
  None of the invariants is inductive. That the room thread selects on open
  handles only needs that its copy holds members (`CopiesAreMembers`); that a closed handle is no
  member needs that no acceptor or accept thread still holds it (`HeldArePast`,
  `NotInTwoPlaces`); and that nothing enters a closed room needs that the creator has
  been registered before the room can close (`CreatorComes`). `Core`, at the end
  of `Room`, is the conjunction; TLC checked it as an invariant on the instance
  of `room_members` before it was proved. `OnePlace` says two things of an open
  connection: it is never in two places (`NotInTwoPlaces`, part of `Core`), and
  once past the hand-over it is a member or in the hands of a closing thread, so
  that no handle is forgotten. The second follows only with `BeforeStart` (nothing
  of the room runs before its creator has been handed over) and with what each
  step does to `activeFds` (`Leaving`, `OpenShrinks`, `ClosingStays`). For the
  refinement a connection enters once because `Past` is never lost (`OutStays`,
  `OutsideKept`), and the meeting ends for all at once because only the
  owner's exit sets `shutdown` and clears the members in the same section
  (`HostStep`: the creator, while a member, is the owner). What the accept thread
  has dealt with has come in or been turned away (`HandsEmptied`); `MeetingStep`
  maps every step. `Flowing` (`NeverJams`) assumes `Roomy`, more places than send
  threads, and says what `SendQueueUse` says of arbitrary threads for those of a
  room, which also write, read and wait for one another elsewhere: `Balanced`
  counts the frames against the send threads awake and the free places against
  the two pushing threads awake, so that a notification finds sleepers of one
  side only and never the wrong one. (`Room` notifies within the critical section;
  with notifications under way the same holds of `Accounting` in `SendQueueUse`.)
  It needs that pills and the end of a send thread come after the owner's exit
  (`InUse`); after that exit it is false, and `room_deadlock` shows how. With one place for two send threads TLC finds it
  violated.
* `RosterProof`: `OnTheWay` (`Meets`) and `AllShown` (`NobodyMissing`). The send
  threads write in any order, so no order of frames can be relied on. `Meets` does
  without: a frame that shows one member to another is in the accept thread's
  hands, in the queue or in a send thread's hands until it has been handled
  (`OthersShown`); a `PARTNER_EXIT` is only ever about those that are out for good
  (`AllTruthful`), so that it cannot take a member away however late it is
  written; and the list for `PARTNER_JOIN2` is read from `fdToIp`, which has every
  member's address (`AddressesKnown`). Recipients are looked up when a frame is
  written, so that a member registered meanwhile is not passed over. A number
  nobody could guess means that the creator is registered first
  (`CreatorFirst`). Two cases are excepted by name: a member whose address one
  that left had too (`NamesakeIsOut`), and the creator with one that guessed
  the number (`Introduced`). TLC checked `Meets` on the instance of
  `roster_missing` before it was proved.
* `LobbyProof`: `Types`, `OneAcceptor` (no two acceptors serve one connection)
  and `MapAndRooms` (`MapAgrees`). `Placed` says where a connection is: served
  by one acceptor (`Served`, `Apart`) or in the backlog once (`Queued`), and that
  it has a room only once its request has been read (`Making`). `Mapped` adds that an entry's
  room bears its number (`Entries`), that a live room is listed or its number
  was drawn twice (`Listed`), and that two live rooms share a number only then
  (`Unique`); without the last, a room's end would erase somebody else's entry.
* `FramingProof`: `BufferTyping` (the buffer is never overrun) and `AlwaysReads`
  (`RoomToRead`). An accepted size leaves the whole frame within the buffer, so
  an incomplete one leaves at least a byte. `Ordered` (`InOrder`) and `Complete` (`NoneLost`), for heads,
  buffers and bodies of any size and any number of frames. The invariant `Laid`
  says of the bytes not yet cut, in the buffer, the socket and on the wire, that
  the frames not yet handled stand in them in order, each at a place of its own
  (`Stand`), and that every `'$'` lies inside one of them (`Covered`). The places
  are a function, chosen anew at every step: no recursion over the stream is
  needed. The loop can then only stop at the first frame still pending, and
  cannot go past it. `Waits` says what an empty socket leaves in the buffer, and
  so that with nothing on its way nothing is pending.
* `SessionProof`: `Types`, `Wake` (`FeedersWillWake`), `SentOnce`
  (`SentInItsSession`) and `ReceivedOnce` (`ReceivedInThisSession`). `Parted` joins
  what each thread may hold: the sending thread runs only for the present
  session (`Running`), events of an old one are freed before the next connects
  (`Sends`, `Connects`), and between two sessions the socket is silent and the
  queues hold at most the news that the old connection is closed (`Silent`,
  `Emptied`).
* `WidgetProof`: every invariant of `Widget`, with no assumption on who has which
  address but that 0, -1 and the own one differ. `SoundNeedsCompany` follows from
  `Accompanied`, the test that the code makes on the number of entries: of two
  entries one is another client's, or stands under 0 or -1, the exception.
  `EntriesAreTiles` needs `Entered` (the camera, on with this client's entry in
  place, still has it there) and that connecting starts from a closed socket.
  `early` records when the camera breaks that rule: it was switched on without
  the entry, a member with the same address took the entry away, or it was left
  on across a connection. `MentionsAreShown` needs that nobody is named twice
  (`Named`), `MicIsShown` what the microphone will be once the signals on their
  way have come (`WillCollect`); `OneConnection`, `WayOn` and `SendmsgComesBack`
  need `Ways`, which says of each box, each answer under way and each piece of
  news what is still to be enabled.

Model-checked only: the liveness properties (`EveryConsumerRetires`,
`FullIsRelieved`, `GoneMemberIsClosed`, `HandedIsRegistered`, `MembersMeet`,
`EveryoneAccepted`, `EveryoneAnswered`, `DisconnectReturns`, `WindowCloses`), which
are out of the prover's reach.

## Known departures

What the code does otherwise than one would expect, kept in the models as it is
and claimed by no property. What contradicts the program's own words is in the
violation runs above.

* Joins that pass the test of `num` before either is counted take the room over
  its limit (`userdeal.cpp:168`, `room.cpp:278`).
* `PARTNER_JOIN` overtaken by the same member's `PARTNER_EXIT` leaves a member
  shown that has gone (`room.cpp:418`). In the client, a `PARTNER_JOIN` still to
  be handled after the user has left the meeting does the same.
* `generate_room_id` releases the lock between test and use: of two rooms with
  one number, one cannot be found (`userdeal.cpp:20`, `twins` in `Lobby`).
* A network error clears the tiles and not the list of mentions, and leaves the
  buttons for connecting disabled (`widget.cpp:1095`); `createmeet` and
  `joinmeet` survive a connection closed by the server; `clearPartner` leaves the
  label of the microphone's button as it was.
* A text typed without a connection is sent to the acceptor of the next one,
  which loses its step (`userdeal.cpp:67`).
* Half a head blocks a room as half a frame does, for as long as its sender is
  silent (`room.cpp:63`, `95`): `Stalled` in `GoneMemberIsClosed`, which is false
  without either.
* A frame of the camera makes an entry under the address of the moment, also when
  there is no tile: with the connection lost or closed it stands under 0 or -1
  until the next clearing and counts as company, so that somebody who connects
  again with the camera on and makes a room hears and is offered the microphone
  alone, against the comments in `widget.cpp:1133` and `1156`. An answer that is
  handled after the loss enters a tile under 0, with the same effect.
* That entry is a null pointer. `closeImg` uses the one of the own address
  (`widget.cpp:823`), and `IMG_RECV` (`widget.cpp:985`) that of a sender with the
  same address, a client on the same machine. `EntriesAreTiles` says when neither
  finds one.
* Under a Qt without the signal that `errorDetect` is connected to by name
  (`mytcpsocket.cpp:538`; the README names Qt 6, which has none), a client that loses
  its connection outside a room keeps `joinmeetBtn` and `createmeetBtn`, whose
  requests are dropped (`mytcpsocket.cpp:83`), and can neither connect nor leave.
* `textSend` takes the last item of a list that may be empty (`widget.cpp:1313`).
  The models do not follow a program that has crashed.

## Not modelled, and why

* The log thread: it reads a `QUEUE_DATA` the way `SendText` does and writes a
  file nobody reads; closing it twice (`logqueue.cpp:23`) is a matter of one
  line.
* Chat widgets, tiles as widgets, the screen, the main picture (`mainip`),
  style: no state that another component relies on.
* Compression and Base64 of pictures and sound: frames are opaque.
* `AudioInput`'s pushes, capture and playback devices.
* Listening, printing of addresses, texts of errors.
* Nothing is persistent and nothing is retried, so there is no crash recovery
  and no retry to model.

## Plan

1. `SendQueue`, `SendQueueUse`, `FrameQueue`, `Room`, `Roster`, `Framing`, `Uplink`
   with their runs and proofs. Done.
2. `Lobby`: the acceptors over several rooms. Done.
3. `QueueData` and `Session`: the client's queues and threads. Done.
4. `Widget`: buttons and `datasolve`. Done.
5. Proofs of the refinement, of `DrainedBeforeRetiring`, of the stream and of the
   invariants of 2 to 4. Done.
6. Proofs of `NobodyMissing`, of `NeverJams`, and that a room implements `Meeting`.
   Done.

Left: a property of the bytes that a full buffer
leaves in the socket without another signal (`mytcpsocket.cpp:224`), which the
last frame of a burst may wait for; handles that Windows gives out again.
