---------------------------- MODULE SendQueueUse ----------------------------
(***************************************************************************)
(* SEND_QUEUE under arbitrary threads: producers that push at any time,     *)
(* consumers that pop until they get a poison pill, and calls of shutdown() *)
(* and clear() at any moment.  A method that notifies does so after it has  *)
(* released the mutex, so the notification is a step of its own here; a     *)
(* wait may end with no notification, as the C++ standard allows.           *)
(***************************************************************************)
EXTENDS SendQueue

CONSTANTS
  Producers,        \* threads that call push_msg
  Consumers,        \* threads that call pop_msg
  Messages,         \* what is pushed
  Idle              \* no message popped yet

ASSUME ThreadsAssumption ==
  /\ IsFiniteSet(Producers) /\ IsFiniteSet(Consumers)
  /\ Producers \cap Consumers = {}
  /\ Producers # {} /\ Consumers # {}
  /\ Pill \notin Messages
  /\ Idle \notin Messages \cup {Pill}

VARIABLES
  notifying,        \* threads between lk.unlock() and cond.notify_one()
  held,             \* the message each consumer popped last
  cleared           \* clear() has been called (history, read by no action)

vars == <<send_queue, shutdown_flag, waiting, notifying, held, cleared>>

Threads == Producers \cup Consumers

Init ==
  /\ QueueInit
  /\ notifying = {}
  /\ held = [c \in Consumers |-> Idle]
  /\ cleared = FALSE

\* A thread is free to run when it neither sleeps nor owes a notification.
Free(t) == t \notin waiting \cup notifying

Push(p, m) ==
  /\ Free(p)
  /\ \/ Enqueue(p, m) /\ notifying' = notifying \cup {p} /\ UNCHANGED waiting
     \/ PushDropped(p) /\ UNCHANGED notifying
  /\ UNCHANGED <<held, cleared>>

PushSleeps(p) ==
  /\ Free(p)
  /\ PushWait(p)
  /\ UNCHANGED <<notifying, held, cleared>>

\* send_func leaves its loop when it pops a pill.
Pop(c) ==
  /\ Free(c)
  /\ held[c] # Pill
  /\ \/ /\ Dequeue(c)
        /\ held' = [held EXCEPT ![c] = Head(send_queue)]
        /\ notifying' = notifying \cup {c}
        /\ UNCHANGED waiting
     \/ /\ PopNothing(c)
        /\ held' = [held EXCEPT ![c] = Pill]
        /\ UNCHANGED notifying
  /\ UNCHANGED cleared

PopSleeps(c) ==
  /\ Free(c)
  /\ held[c] # Pill
  /\ PopWait(c)
  /\ UNCHANGED <<notifying, held, cleared>>

Notify(t) ==
  /\ t \in notifying
  /\ NotifyOne
  /\ notifying' = notifying \ {t}
  /\ UNCHANGED <<send_queue, shutdown_flag, held, cleared>>

\* A wait that ends by itself; its thread tests the condition again.
Spurious(t) ==
  /\ t \in waiting
  /\ waiting' = waiting \ {t}
  /\ UNCHANGED <<send_queue, shutdown_flag, notifying, held, cleared>>

\* The room thread calls shutdown() once.
DoShutdown ==
  /\ ~shutdown_flag
  /\ Shutdown
  /\ UNCHANGED <<notifying, held, cleared>>

DoClear ==
  /\ Clear
  /\ cleared' = TRUE
  /\ UNCHANGED <<notifying, held>>

Next ==
  \/ \E p \in Producers : PushSleeps(p) \/ \E m \in Messages : Push(p, m)
  \/ \E c \in Consumers : Pop(c) \/ PopSleeps(c)
  \/ \E t \in Threads : Notify(t) \/ Spurious(t)
  \/ DoShutdown
  \/ DoClear

Spec == Init /\ [][Next]_vars

\* A thread inside a method finishes it; no producer has to push, nobody has
\* to shut down, and a spurious wakeup is never relied on.
Fairness ==
  /\ \A c \in Consumers : WF_vars(Pop(c) \/ PopSleeps(c))
  /\ \A t \in Threads : WF_vars(Notify(t))

FairSpec == Spec /\ Fairness

-----------------------------------------------------------------------------
(* Properties.                                                              *)

SleepingProducers == waiting \cap Producers
SleepingConsumers == waiting \cap Consumers

\* Types of the variables; pills beyond MAXSIZE come from shutdown() only.
TypeOK ==
  /\ send_queue \in Seq(Messages \cup {Pill})
  /\ shutdown_flag \in BOOLEAN
  /\ waiting \subseteq Threads
  /\ notifying \subseteq Threads
  /\ held \in [Consumers -> Messages \cup {Pill, Idle}]
  /\ cleared \in BOOLEAN
  /\ Len(send_queue) <= MAXSIZE + SENDTHREADSIZE

\* The accounting behind NoLostWakeup, for a queue larger than its users: a
\* sleeping consumer means that the messages do not outnumber the consumers
\* awake or about to be notified, and the same of producers and free places.
Accounting ==
  ~cleared =>
    /\ SleepingConsumers # {} =>
         /\ SleepingProducers = {}
         /\ Len(send_queue) + Cardinality(SleepingConsumers)
              <= Cardinality(Consumers) + Cardinality(notifying)
    /\ SleepingProducers # {} =>
         /\ SleepingConsumers = {}
         /\ MAXSIZE + Cardinality(SleepingProducers)
              <= Len(send_queue) + Cardinality(Producers) + Cardinality(notifying)

\* What a queue needs for one condition variable with notify_one to serve
\* both sides: 10000 places and 2 + 5 threads in the program.
Roomy ==
  /\ MAXSIZE + 2 >= 2 * Cardinality(Producers) + Cardinality(Consumers)
  /\ MAXSIZE + 2 >= Cardinality(Producers) + 2 * Cardinality(Consumers)

\* notify_one never wakes the wrong side: with no clear(), all consumers
\* sleeping over a message, or all producers before a free place, means that
\* a notification is still on its way (msg.h 51-62, 68-81).
NoLostWakeup ==
  ~cleared =>
    /\ Consumers \subseteq waiting /\ ~Empty => notifying # {}
    /\ Producers \subseteq waiting /\ ~Full => notifying # {}

\* shutdown() leaves nobody asleep, and nobody falls asleep after it, even
\* where clear() had stranded a producer (msg.h 85-96).
ShutdownWakesAll == shutdown_flag => waiting = {}

\* A consumer that has retired leaves no message behind: the pills are the
\* last things in the queue (msg.h 65-96).
DrainedBeforeRetiring ==
  (\E c \in Consumers : held[c] = Pill) =>
     \A i \in 1..Len(send_queue) : send_queue[i] = Pill

\* After shutdown() every consumer gets a pill and leaves send_func, though
\* other pops and a clear() may race with it (msg.h 73-78, 88-95).
EveryConsumerRetires ==
  \A c \in Consumers : shutdown_flag ~> held[c] = Pill

\* With no clear(), a full queue does not stay full while the consumers run
\* (msg.h 65-83).
FullIsRelieved == Full /\ ~shutdown_flag ~> ~Full \/ shutdown_flag \/ cleared

-----------------------------------------------------------------------------
(* What the room relies on.                                                 *)

\* The frames of a queue q: what precedes its first pill.
FramesOf(q) ==
  LET n == CHOOSE k \in 0..Len(q) :
             /\ \A i \in 1..k : q[i] # Pill
             /\ k < Len(q) => q[k + 1] = Pill
  IN  [i \in 1..n |-> q[i]]

Promise == INSTANCE FrameQueue WITH
  Capacity <- MAXSIZE,
  Readers <- Consumers,
  Frames <- Messages,
  Retired <- Pill,
  frames <- FramesOf(send_queue),
  closed <- shutdown_flag,
  reading <- held

\* SEND_QUEUE implements the bounded FIFO of FrameQueue: nothing is lost,
\* duplicated or reordered inside it, nothing enters after shutdown(), and a
\* consumer is sent home only when no frame is left (msg.h 48-107).
ImplementsFrameQueue == Promise!Spec
=============================================================================
