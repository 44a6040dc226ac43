----------------------------- MODULE QueueData -----------------------------
(***************************************************************************)
(* QUEUE_DATA of the client's netheader.h: a queue of messages between      *)
(* threads, under one mutex and one condition variable.  A thread that      *)
(* pushes waits without a limit, a thread that pops waits two seconds and   *)
(* comes back with NULL, and clear() wakes nobody.                          *)
(*                                                                          *)
(* One operator for each critical section, the notification that follows    *)
(* it included.  Session instantiates the module for each of its queues.    *)
(***************************************************************************)
EXTENDS Naturals, Sequences

CONSTANT QUEUE_MAXSIZE    \* 1500 in netheader.h

VARIABLES
  queue,            \* the messages, head first
  asleep            \* threads inside send_queueCond.wait

MutantTooLong == Len(queue) > QUEUE_MAXSIZE + 1

\* The test is size() > QUEUE_MAXSIZE: the queue holds one message more.
TooLong == Len(queue) > QUEUE_MAXSIZE

WakeOne ==
  IF asleep = {} THEN UNCHANGED asleep
                 ELSE \E t \in asleep : asleep' = asleep \ {t}

Push(t, m) ==
  /\ t \notin asleep
  /\ ~TooLong
  /\ queue' = Append(queue, m)
  /\ WakeOne

PushWaits(t) ==
  /\ t \notin asleep
  /\ TooLong
  /\ asleep' = asleep \cup {t}
  /\ UNCHANGED queue

MutantPopSilent(t) == t \notin asleep /\ queue # <<>> /\ queue' = Tail(queue) /\ UNCHANGED asleep

\* The caller takes Head(queue).
Pop(t) ==
  /\ t \notin asleep
  /\ queue # <<>>
  /\ queue' = Tail(queue)
  /\ WakeOne

PopWaits(t) ==
  /\ t \notin asleep
  /\ queue = <<>>
  /\ asleep' = asleep \cup {t}
  /\ UNCHANGED queue

\* The wait ends by itself and pop_msg returns NULL, whatever has been pushed
\* in the meantime.
TimesOut(t) ==
  /\ t \in asleep
  /\ asleep' = asleep \ {t}
  /\ UNCHANGED queue

Clear ==
  /\ queue' = <<>>
  /\ UNCHANGED asleep
=============================================================================
