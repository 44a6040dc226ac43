----------------------------- MODULE SendQueue -----------------------------
(***************************************************************************)
(* The class SEND_QUEUE of msg.h: the queue of frames a room has still to   *)
(* send.  One mutex and one condition variable are shared by the threads    *)
(* that push (the room thread, the accept thread) and by those that pop     *)
(* (the send threads).                                                      *)
(*                                                                          *)
(* The module holds the state of one object and one operator for each      *)
(* critical section of its methods.  It has no next-state relation of its   *)
(* own: SendQueueUse drives it with arbitrary threads, Room with the        *)
(* threads of a meeting room.  The wait set of the condition variable is    *)
(* the variable waiting; a thread in it takes no step until it is notified. *)
(***************************************************************************)
EXTENDS Naturals, Sequences, FiniteSets

CONSTANTS
  MAXSIZE,          \* frames the queue holds before a push waits
  SENDTHREADSIZE,   \* poison pills shutdown() leaves, one per send thread
  Pill              \* the message of type 0xFFFF

ASSUME SizeAssumption == MAXSIZE \in Nat \ {0} /\ SENDTHREADSIZE \in Nat

VARIABLES
  send_queue,       \* the messages, head first
  shutdown_flag,    \* shutdown() has been called
  waiting           \* threads inside cond.wait

queueVars == <<send_queue, shutdown_flag, waiting>>

QueueInit ==
  /\ send_queue = <<>>
  /\ shutdown_flag = FALSE
  /\ waiting = {}

Full == Len(send_queue) >= MAXSIZE
Empty == send_queue = <<>>

-----------------------------------------------------------------------------
(* The condition variable.                                                  *)

\* Mutant: the notification is forgotten.
MutantNotifyNobody == waiting' = waiting

\* notify_one wakes any one waiter, whichever side of the queue it is on.
NotifyOne ==
  \/ waiting = {} /\ waiting' = {}
  \/ \E t \in waiting : waiting' = waiting \ {t}

Sleep(t) ==
  /\ t \notin waiting
  /\ waiting' = waiting \cup {t}
  /\ UNCHANGED <<send_queue, shutdown_flag>>

-----------------------------------------------------------------------------
(* push_msg.  Enqueue and Dequeue say nothing of waiting: the method unlocks *)
(* first and notifies afterwards, and the caller places the notification.   *)

\* The loop finds the queue full: wait.
PushWait(t) == Full /\ ~shutdown_flag /\ Sleep(t)

\* Mutant: the size is not tested.
MutantEnqueueUnbounded(t, msg) ==
  /\ t \notin waiting
  /\ ~shutdown_flag
  /\ send_queue' = Append(send_queue, msg)
  /\ UNCHANGED shutdown_flag

\* Mutant: a push that runs after shutdown() still adds its message.
MutantEnqueueLate(t, msg) ==
  /\ t \notin waiting
  /\ ~Full
  /\ send_queue' = Append(send_queue, msg)
  /\ UNCHANGED shutdown_flag

Enqueue(t, msg) ==
  /\ t \notin waiting
  /\ ~shutdown_flag
  /\ ~Full
  /\ send_queue' = Append(send_queue, msg)
  /\ UNCHANGED shutdown_flag

\* After shutdown() the message is freed and the push returns.
PushDropped(t) ==
  /\ t \notin waiting
  /\ shutdown_flag
  /\ UNCHANGED queueVars

(* pop_msg.                                                                 *)
PopWait(t) == Empty /\ ~shutdown_flag /\ Sleep(t)

\* Mutant: front() without pop().
MutantDequeueKeeps(t) ==
  /\ t \notin waiting
  /\ ~Empty
  /\ UNCHANGED <<send_queue, shutdown_flag>>

Dequeue(t) ==
  /\ t \notin waiting
  /\ ~Empty
  /\ send_queue' = Tail(send_queue)
  /\ UNCHANGED shutdown_flag

\* Empty after shutdown(): the method makes a poison pill of its own.
PopNothing(t) ==
  /\ t \notin waiting
  /\ Empty
  /\ shutdown_flag
  /\ UNCHANGED queueVars

\* Mutant: notify_one instead of notify_all.
MutantShutdownWakesOne ==
  /\ shutdown_flag' = TRUE
  /\ send_queue' = send_queue \o [i \in 1..SENDTHREADSIZE |-> Pill]
  /\ NotifyOne

\* shutdown() pushes its pills without looking at the size.
Shutdown ==
  /\ shutdown_flag' = TRUE
  /\ send_queue' = send_queue \o [i \in 1..SENDTHREADSIZE |-> Pill]
  /\ waiting' = {}

\* clear() drops every message and notifies nobody.
Clear ==
  /\ send_queue' = <<>>
  /\ UNCHANGED <<shutdown_flag, waiting>>
=============================================================================
