--------------------------- MODULE SendQueueProof ---------------------------
(***************************************************************************)
(* Proofs about SendQueueUse for any number of producers and consumers and  *)
(* any size of the queue: its type invariant, and that with enough places   *)
(* the one condition variable loses no wakeup.                              *)
(***************************************************************************)
EXTENDS SendQueueUse, SequenceTheorems, FiniteSetTheorems, TLAPS

-----------------------------------------------------------------------------
(* Types.                                                                   *)

\* MAXSIZE bounds the queue until shutdown() adds its pills.
TypeInv == TypeOK /\ (~shutdown_flag => Len(send_queue) <= MAXSIZE)

\* The type invariant of the queue and its threads, for every size.
THEOREM Typing == Spec => []TypeInv
<1> USE SizeAssumption, ThreadsAssumption
<1>1. Init => TypeInv
  <2>1. <<>> \in Seq(Messages \cup {Pill}) /\ Len(<<>>) = 0
    BY EmptySeq
  <2> SUFFICES ASSUME Init PROVE TypeInv
    OBVIOUS
  <2>2. send_queue \in Seq(Messages \cup {Pill}) /\ Len(send_queue) = 0
    BY <2>1 DEF Init, QueueInit
  <2>3. held \in [Consumers -> Messages \cup {Pill, Idle}]
    BY DEF Init
  <2>4. /\ shutdown_flag = FALSE /\ waiting = {}
        /\ notifying = {} /\ cleared = FALSE
    BY DEF Init, QueueInit
  <2>5. Len(send_queue) <= MAXSIZE
    BY <2>2
  <2>6. Len(send_queue) <= MAXSIZE + SENDTHREADSIZE
    BY <2>2
  <2> QED
    BY <2>2, <2>3, <2>4, <2>5, <2>6, Zenon DEF TypeInv, TypeOK
<1>2. TypeInv /\ [Next]_vars => TypeInv'
  <2> SUFFICES ASSUME TypeInv, [Next]_vars PROVE TypeInv'
    OBVIOUS
  <2> DEFINE Msg == Messages \cup {Pill}
  <2>0. send_queue \in Seq(Msg) /\ Len(send_queue) \in Nat
    BY LenProperties DEF TypeInv, TypeOK
  <2>1. ASSUME NEW p \in Producers, NEW m \in Messages, Push(p, m)
        PROVE  TypeInv'
    BY <2>0, <2>1, AppendProperties
    DEF Push, Enqueue, PushDropped, Full, queueVars, TypeInv, TypeOK, Threads
  <2>2. ASSUME NEW p \in Producers, PushSleeps(p)
        PROVE  TypeInv'
    BY <2>2 DEF PushSleeps, PushWait, Sleep, TypeInv, TypeOK, Threads
  <2>3. ASSUME NEW c \in Consumers, Pop(c)
        PROVE  TypeInv'
    BY <2>0, <2>3, HeadTailProperties
    DEF Pop, Dequeue, PopNothing, Empty, queueVars, TypeInv, TypeOK, Threads
  <2>4. ASSUME NEW c \in Consumers, PopSleeps(c)
        PROVE  TypeInv'
    BY <2>4 DEF PopSleeps, PopWait, Sleep, TypeInv, TypeOK, Threads
  <2>5. ASSUME NEW t \in Threads, Notify(t)
        PROVE  TypeInv'
    BY <2>5 DEF Notify, NotifyOne, TypeInv, TypeOK
  <2>6. ASSUME NEW t \in Threads, Spurious(t)
        PROVE  TypeInv'
    BY <2>6 DEF Spurious, TypeInv, TypeOK
  <2>7. CASE DoShutdown
    <3> DEFINE pills == [i \in 1..SENDTHREADSIZE |-> Pill]
    <3>1. pills \in Seq(Msg) /\ Len(pills) = SENDTHREADSIZE
      OBVIOUS
    <3>2. /\ send_queue \o pills \in Seq(Msg)
          /\ Len(send_queue \o pills) = Len(send_queue) + SENDTHREADSIZE
      BY <2>0, <3>1, ConcatProperties
    <3> HIDE DEF pills
    <3> QED
      BY <2>0, <2>7, <3>2 DEF DoShutdown, Shutdown, TypeInv, TypeOK, pills
  <2>8. CASE DoClear
    BY <2>8, EmptySeq DEF DoClear, Clear, TypeInv, TypeOK
  <2>9. CASE UNCHANGED vars
    BY <2>9 DEF vars, TypeInv, TypeOK
  <2> QED
    BY <2>1, <2>2, <2>3, <2>4, <2>5, <2>6, <2>7, <2>8, <2>9 DEF Next
<1> QED
  BY <1>1, <1>2, PTL DEF Spec

-----------------------------------------------------------------------------
(* Sleeping and owing a notification exclude each other, and shutdown()     *)
(* ends all sleep.                                                          *)

Apart == waiting \cap notifying = {}

\* The types of the queue hold in every state (msg.h 42-107).
THEOREM Types == Spec => []TypeOK
<1>1. TypeInv => TypeOK
  BY DEF TypeInv
<1> QED
  BY <1>1, Typing, PTL

\* After shutdown() no thread sleeps, whatever was cleared before.
THEOREM ShutdownWakes == Spec => [](Apart /\ ShutdownWakesAll)
<1> DEFINE Inv == Apart /\ ShutdownWakesAll
<1>1. Init => Inv
  BY DEF Init, QueueInit, Apart, ShutdownWakesAll
<1>2. Inv /\ [Next]_vars => Inv'
  <2> SUFFICES ASSUME Inv, [Next]_vars PROVE Inv'
    OBVIOUS
  <2> USE DEF Apart, ShutdownWakesAll, Free
  <2>1. ASSUME NEW p \in Producers, NEW m \in Messages, Push(p, m)
        PROVE  Inv'
    BY <2>1 DEF Push, Enqueue, PushDropped, queueVars
  <2>2. ASSUME NEW p \in Producers, PushSleeps(p)
        PROVE  Inv'
    BY <2>2 DEF PushSleeps, PushWait, Sleep
  <2>3. ASSUME NEW c \in Consumers, Pop(c)
        PROVE  Inv'
    BY <2>3 DEF Pop, Dequeue, PopNothing, queueVars
  <2>4. ASSUME NEW c \in Consumers, PopSleeps(c)
        PROVE  Inv'
    BY <2>4 DEF PopSleeps, PopWait, Sleep
  <2>5. ASSUME NEW t \in Threads, Notify(t) \/ Spurious(t)
        PROVE  Inv'
    BY <2>5 DEF Notify, NotifyOne, Spurious
  <2>6. CASE DoShutdown
    BY <2>6 DEF DoShutdown, Shutdown
  <2>7. CASE DoClear \/ UNCHANGED vars
    BY <2>7 DEF DoClear, Clear, vars
  <2> QED
    BY <2>1, <2>2, <2>3, <2>4, <2>5, <2>6, <2>7 DEF Next
<1> QED
  BY <1>1, <1>2, PTL DEF Spec

-----------------------------------------------------------------------------
(* No lost wakeup.                                                          *)

\* The size of two finite sets with nothing in common.
LEMMA DisjointUnion ==
  ASSUME NEW S, NEW T, IsFiniteSet(S), IsFiniteSet(T), S \cap T = {}
  PROVE  /\ IsFiniteSet(S \cup T)
         /\ Cardinality(S \cup T) = Cardinality(S) + Cardinality(T)
<1>1. /\ IsFiniteSet(S \cup T)
      /\ Cardinality(S \cup T)
           = Cardinality(S) + Cardinality(T) - Cardinality(S \cap T)
  BY FS_Union
<1>2. Cardinality(S \cap T) = 0
  BY FS_EmptySet
<1> QED
  BY <1>1, <1>2, FS_CardinalityType

\* The sleepers and those that owe a notification are different threads, so
\* they are no more than the threads, and fewer where one thread is free.
LEMMA Sizes ==
  ASSUME TypeOK, Apart
  PROVE  /\ IsFiniteSet(SleepingProducers) /\ IsFiniteSet(SleepingConsumers)
         /\ IsFiniteSet(notifying)
         /\ Cardinality(SleepingProducers) \in Nat
         /\ Cardinality(SleepingConsumers) \in Nat
         /\ Cardinality(notifying) \in Nat
         /\ Cardinality(Producers) \in Nat
         /\ Cardinality(Consumers) \in Nat
         /\ \A t \in Threads : Free(t) =>
              Cardinality(notifying) + Cardinality(SleepingProducers)
                + Cardinality(SleepingConsumers) + 1
                <= Cardinality(Producers) + Cardinality(Consumers)
<1> USE ThreadsAssumption
<1> DEFINE P == Producers
           C == Consumers
           Wp == SleepingProducers
           Wc == SleepingConsumers
           N == notifying
<1>1. /\ IsFiniteSet(P) /\ IsFiniteSet(C)
      /\ IsFiniteSet(Threads)
      /\ Cardinality(Threads) = Cardinality(P) + Cardinality(C)
  BY DisjointUnion DEF Threads
<1>2. /\ IsFiniteSet(Wp) /\ IsFiniteSet(Wc) /\ IsFiniteSet(N)
  BY <1>1, FS_Subset DEF TypeOK, Threads, SleepingProducers, SleepingConsumers
<1>3. /\ IsFiniteSet(Wp \cup Wc)
      /\ Cardinality(Wp \cup Wc) = Cardinality(Wp) + Cardinality(Wc)
  <2>1. Wp \cap Wc = {}
    BY DEF SleepingProducers, SleepingConsumers
  <2> HIDE DEF Wp, Wc
  <2> QED
    BY <1>2, <2>1, DisjointUnion
<1>4. /\ IsFiniteSet(N \cup (Wp \cup Wc))
      /\ Cardinality(N \cup (Wp \cup Wc))
           = Cardinality(N) + Cardinality(Wp) + Cardinality(Wc)
  <2>1. N \cap (Wp \cup Wc) = {}
    BY DEF Apart, SleepingProducers, SleepingConsumers
  <2>2. /\ IsFiniteSet(N \cup (Wp \cup Wc))
        /\ Cardinality(N \cup (Wp \cup Wc)) = Cardinality(N) + Cardinality(Wp \cup Wc)
    BY <1>2, <1>3, <2>1, DisjointUnion
  <2> HIDE DEF Wp, Wc, N
  <2> QED
    BY <1>2, <1>3, <2>2, FS_CardinalityType
<1>5. ASSUME NEW t \in Threads, Free(t)
      PROVE  Cardinality(N) + Cardinality(Wp) + Cardinality(Wc) + 1
               <= Cardinality(P) + Cardinality(C)
  <2> DEFINE Busy == N \cup (Wp \cup Wc)
  <2>1. t \notin Busy /\ Busy \cup {t} \subseteq Threads
    BY <1>5 DEF Free, TypeOK, Threads, SleepingProducers, SleepingConsumers
  <2>2. Cardinality(Busy \cup {t}) = Cardinality(Busy) + 1
    BY <1>4, <2>1, FS_AddElement
  <2>3. Cardinality(Busy \cup {t}) <= Cardinality(Threads)
    BY <1>1, <2>1, FS_Subset
  <2> QED
    BY <1>1, <1>2, <1>4, <2>2, <2>3, FS_CardinalityType
<1> QED
  BY <1>1, <1>2, <1>5, FS_CardinalityType

\* The part of Accounting about one side, with the numbers as parameters, so
\* that a step of the proof is a step of arithmetic.
LEMMA Arithmetic ==
  ASSUME TypeInv, Apart, Roomy, Accounting, ~cleared, ~shutdown_flag
  PROVE  /\ \A c \in Consumers : Free(c) /\ Empty => SleepingProducers = {}
         /\ \A p \in Producers : Free(p) /\ Full => SleepingConsumers = {}
<1> USE SizeAssumption, ThreadsAssumption DEF TypeInv
<1>0. /\ Len(send_queue) \in Nat
      /\ Empty => Len(send_queue) = 0
  <2>1. send_queue \in Seq(Messages \cup {Pill})
    BY DEF TypeOK
  <2>2. Len(send_queue) \in Nat
    BY <2>1, LenProperties
  <2>3. Len(<<>>) = 0
    BY EmptySeq
  <2> QED
    BY <2>2, <2>3 DEF Empty
<1>1. ASSUME NEW c \in Consumers, Free(c), Empty, SleepingProducers # {}
      PROVE  FALSE
  <2>1. Cardinality(SleepingProducers) # 0
    BY <1>1, Sizes, FS_EmptySet
  <2>2. MAXSIZE + Cardinality(SleepingProducers)
          <= Cardinality(Producers) + Cardinality(notifying)
    BY <1>0, <1>1, Sizes DEF Accounting
  <2>3. Cardinality(notifying) + Cardinality(SleepingProducers) + 1
          <= Cardinality(Producers) + Cardinality(Consumers)
    BY <1>1, Sizes DEF Threads
  <2> QED
    BY <2>1, <2>2, <2>3, Sizes DEF Roomy
<1>2. ASSUME NEW p \in Producers, Free(p), Full, SleepingConsumers # {}
      PROVE  FALSE
  <2>1. Cardinality(SleepingConsumers) # 0
    BY <1>2, Sizes, FS_EmptySet
  <2>2. MAXSIZE + Cardinality(SleepingConsumers)
          <= Cardinality(Consumers) + Cardinality(notifying)
    BY <1>0, <1>2, Sizes DEF Accounting, Full
  <2>3. Cardinality(notifying) + Cardinality(SleepingConsumers) + 1
          <= Cardinality(Producers) + Cardinality(Consumers)
    BY <1>2, Sizes DEF Threads
  <2> QED
    BY <2>1, <2>2, <2>3, Sizes DEF Roomy
<1> QED
  BY <1>1, <1>2

\* Accounting is kept by every step of a queue with room for its users.
LEMMA AccountingStep ==
  ASSUME TypeInv, TypeInv', Apart, ShutdownWakesAll', Roomy, Accounting,
         [Next]_vars
  PROVE  Accounting'
<1> USE SizeAssumption, ThreadsAssumption
<1> DEFINE L == Len(send_queue)
<1>0. /\ L \in Nat /\ L' \in Nat
      /\ send_queue \in Seq(Messages \cup {Pill})
  BY LenProperties DEF TypeInv, TypeOK
<1>1. CASE shutdown_flag' \/ cleared'
  BY <1>1 DEF ShutdownWakesAll, Accounting, SleepingProducers, SleepingConsumers
<1>2. CASE ~shutdown_flag' /\ ~cleared'
  <2>1. ~shutdown_flag /\ ~cleared
    BY <1>2 DEF Next, vars, Push, PushSleeps, Pop, PopSleeps, Notify, Spurious,
                DoShutdown, DoClear, Enqueue, PushDropped, PushWait, Dequeue,
                PopNothing, PopWait, Sleep, Shutdown, Clear, queueVars
  <2>2. /\ IsFiniteSet(notifying) /\ Cardinality(notifying) \in Nat
        /\ IsFiniteSet(SleepingProducers) /\ Cardinality(SleepingProducers) \in Nat
        /\ IsFiniteSet(SleepingConsumers) /\ Cardinality(SleepingConsumers) \in Nat
        /\ Cardinality(Producers) \in Nat /\ Cardinality(Consumers) \in Nat
    BY Sizes DEF TypeInv
  <2>3. ASSUME NEW p \in Producers, NEW m \in Messages, Push(p, m)
        PROVE  Accounting'
    <3>1. /\ waiting' = waiting /\ cleared' = cleared
          /\ notifying' = notifying \cup {p}
          /\ p \notin notifying
          /\ send_queue' = Append(send_queue, m)
      BY <2>1, <2>3 DEF Push, PushDropped, Enqueue, Free
    <3>2. L' = L + 1
      BY <1>0, <3>1, AppendProperties
    <3>3. Cardinality(notifying') = Cardinality(notifying) + 1
      BY <2>2, <3>1, FS_AddElement
    <3>4. SleepingProducers' = SleepingProducers /\ SleepingConsumers' = SleepingConsumers
      BY <3>1 DEF SleepingProducers, SleepingConsumers
    <3> QED
      BY <1>0, <2>1, <2>2, <3>2, <3>3, <3>4 DEF Accounting
  <2>4. ASSUME NEW c \in Consumers, Pop(c)
        PROVE  Accounting'
    <3>1. /\ waiting' = waiting /\ cleared' = cleared
          /\ notifying' = notifying \cup {c}
          /\ c \notin notifying
          /\ send_queue # <<>>
          /\ send_queue' = Tail(send_queue)
      BY <2>1, <2>4 DEF Pop, Dequeue, PopNothing, Empty, Free
    <3>2. L' = L - 1
      BY <1>0, <3>1, HeadTailProperties
    <3>3. Cardinality(notifying') = Cardinality(notifying) + 1
      BY <2>2, <3>1, FS_AddElement
    <3>4. SleepingProducers' = SleepingProducers /\ SleepingConsumers' = SleepingConsumers
      BY <3>1 DEF SleepingProducers, SleepingConsumers
    <3> QED
      BY <1>0, <2>1, <2>2, <3>2, <3>3, <3>4 DEF Accounting
  <2>5. ASSUME NEW p \in Producers, PushSleeps(p)
        PROVE  Accounting'
    <3>1. /\ Free(p) /\ Full
          /\ send_queue' = send_queue /\ notifying' = notifying
          /\ waiting' = waiting \cup {p}
      BY <2>5 DEF PushSleeps, PushWait, Sleep
    <3>2. SleepingConsumers = {} /\ SleepingConsumers' = {}
      BY <2>1, <3>1, Arithmetic DEF SleepingConsumers
    <3>3. Cardinality(SleepingProducers') <= Cardinality(Producers)
      BY FS_Subset DEF SleepingProducers
    <3>4. Cardinality(SleepingProducers') \in Nat
      BY FS_Subset, FS_CardinalityType DEF SleepingProducers
    <3>5. MAXSIZE <= L
      BY <3>1 DEF Full
    <3> QED
      BY <1>0, <2>2, <3>1, <3>2, <3>3, <3>4, <3>5 DEF Accounting
  <2>6. ASSUME NEW c \in Consumers, PopSleeps(c)
        PROVE  Accounting'
    <3>1. /\ Free(c) /\ Empty
          /\ send_queue' = send_queue /\ notifying' = notifying
          /\ waiting' = waiting \cup {c}
      BY <2>6 DEF PopSleeps, PopWait, Sleep
    <3>2. SleepingProducers = {} /\ SleepingProducers' = {}
      BY <2>1, <3>1, Arithmetic DEF SleepingProducers
    <3>3. Cardinality(SleepingConsumers') <= Cardinality(Consumers)
      BY FS_Subset DEF SleepingConsumers
    <3>4. Cardinality(SleepingConsumers') \in Nat
      BY FS_Subset, FS_CardinalityType DEF SleepingConsumers
    <3>5. L' = 0
      BY <3>1, EmptySeq DEF Empty
    <3> QED
      BY <2>2, <3>1, <3>2, <3>3, <3>4, <3>5 DEF Accounting
  <2>7. ASSUME NEW t \in Threads, Notify(t)
        PROVE  Accounting'
    <3>1. /\ t \in notifying
          /\ notifying' = notifying \ {t}
          /\ send_queue' = send_queue /\ cleared' = cleared
      BY <2>7 DEF Notify
    <3>2. Cardinality(notifying') = Cardinality(notifying) - 1
      BY <2>2, <3>1, FS_RemoveElement
    <3>3. CASE waiting = {}
      BY <2>7, <3>3 DEF Notify, NotifyOne, Accounting, SleepingProducers,
                        SleepingConsumers
    <3>4. ASSUME NEW w \in waiting, waiting' = waiting \ {w}
          PROVE  Accounting'
      <4>1. CASE w \in Consumers
        <5>1. SleepingConsumers' = SleepingConsumers \ {w} /\ w \in SleepingConsumers
          BY <3>4, <4>1 DEF SleepingConsumers
        <5>2. SleepingProducers = {} /\ SleepingProducers' = {}
          BY <2>1, <3>4, <5>1 DEF Accounting, SleepingProducers
        <5>3. Cardinality(SleepingConsumers') = Cardinality(SleepingConsumers) - 1
          BY <2>2, <5>1, FS_RemoveElement
        <5> QED
          BY <1>0, <2>1, <2>2, <3>1, <3>2, <5>1, <5>2, <5>3 DEF Accounting
      <4>2. CASE w \in Producers
        <5>1. SleepingProducers' = SleepingProducers \ {w} /\ w \in SleepingProducers
          BY <3>4, <4>2 DEF SleepingProducers
        <5>2. SleepingConsumers = {} /\ SleepingConsumers' = {}
          BY <2>1, <3>4, <5>1 DEF Accounting, SleepingConsumers
        <5>3. Cardinality(SleepingProducers') = Cardinality(SleepingProducers) - 1
          BY <2>2, <5>1, FS_RemoveElement
        <5> QED
          BY <1>0, <2>1, <2>2, <3>1, <3>2, <5>1, <5>2, <5>3 DEF Accounting
      <4> QED
        BY <3>4, <4>1, <4>2 DEF TypeInv, TypeOK, Threads
    <3> QED
      BY <2>7, <3>3, <3>4 DEF Notify, NotifyOne
  <2>8. ASSUME NEW t \in Threads, Spurious(t)
        PROVE  Accounting'
    <3>1. /\ t \in waiting /\ waiting' = waiting \ {t}
          /\ send_queue' = send_queue /\ notifying' = notifying
          /\ cleared' = cleared
      BY <2>8 DEF Spurious
    <3>2. /\ SleepingProducers' = SleepingProducers \ {t}
          /\ SleepingConsumers' = SleepingConsumers \ {t}
      BY <3>1 DEF SleepingProducers, SleepingConsumers
    <3>3. /\ Cardinality(SleepingProducers') <= Cardinality(SleepingProducers)
          /\ Cardinality(SleepingConsumers') <= Cardinality(SleepingConsumers)
          /\ Cardinality(SleepingProducers') \in Nat
          /\ Cardinality(SleepingConsumers') \in Nat
      BY <2>2, <3>2, FS_Subset, FS_CardinalityType
    <3> QED
      BY <1>0, <2>1, <2>2, <3>1, <3>2, <3>3 DEF Accounting
  <2>9. CASE DoShutdown \/ DoClear
    BY <1>2, <2>9 DEF DoShutdown, Shutdown, DoClear
  <2>10. CASE UNCHANGED vars
    BY <2>10 DEF vars, Accounting, SleepingProducers, SleepingConsumers
  <2> QED
    BY <2>3, <2>4, <2>5, <2>6, <2>7, <2>8, <2>9, <2>10 DEF Next
<1> QED
  BY <1>1, <1>2

\* Accounting says that nobody sleeps over what it waits for.
LEMMA AccountingSuffices ==
  ASSUME TypeInv, Apart, ShutdownWakesAll, Accounting
  PROVE  NoLostWakeup
<1> USE ThreadsAssumption, SizeAssumption
<1> SUFFICES ASSUME ~cleared, notifying = {} PROVE
      /\ Consumers \subseteq waiting => Empty
      /\ Producers \subseteq waiting => Full
  BY DEF NoLostWakeup
<1>0. /\ send_queue \in Seq(Messages \cup {Pill})
      /\ Len(send_queue) \in Nat
      /\ ~Empty => Len(send_queue) # 0
  BY LenProperties, EmptySeq DEF TypeInv, TypeOK, Empty
<1>1. Cardinality(notifying) = 0
  BY FS_EmptySet
<1>2. ASSUME Consumers \subseteq waiting PROVE Empty
  <2>1. SleepingConsumers = Consumers
    BY <1>2 DEF SleepingConsumers
  <2> QED
    BY <1>0, <1>1, <2>1, Sizes DEF Accounting, TypeInv
<1>3. ASSUME Producers \subseteq waiting PROVE Full
  <2>1. SleepingProducers = Producers
    BY <1>3 DEF SleepingProducers
  <2> QED
    BY <1>0, <1>1, <2>1, Sizes DEF Accounting, TypeInv, Full
<1> QED
  BY <1>2, <1>3

\* With room for its users and no clear(), the sleepers on either side are
\* outnumbered by what they wait for only where notifications are owed.
THEOREM Balance == ASSUME Roomy PROVE Spec => []Accounting
<1>1. Init => Accounting
  BY DEF Init, QueueInit, Accounting, SleepingProducers, SleepingConsumers
<1>2. /\ TypeInv /\ TypeInv' /\ Apart /\ ShutdownWakesAll' /\ Accounting
      /\ [Next]_vars
      => Accounting'
  BY AccountingStep
<1> QED
  BY <1>1, <1>2, Typing, ShutdownWakes, PTL DEF Spec

\* Hence the one condition variable of SEND_QUEUE never lets a thread sleep
\* over what it waits for.
THEOREM Wakeups == ASSUME Roomy PROVE Spec => []NoLostWakeup
<1>1. TypeInv /\ Apart /\ ShutdownWakesAll /\ Accounting => NoLostWakeup
  BY AccountingSuffices
<1> QED
  BY <1>1, Balance, Typing, ShutdownWakes, PTL

-----------------------------------------------------------------------------
(* Pills come last.                                                         *)

Msg == Messages \cup {Pill}

\* The first n messages of q are frames, the rest are pills.
Parted(q, n) ==
  /\ n \in 0..Len(q)
  /\ \A i \in 1..Len(q) : i <= n <=> q[i] # Pill

\* Before shutdown() there are no pills, in the queue or in a hand; after it
\* they are the end of the queue; and once a hand holds one they are all.
PillsLast ==
  /\ \E n \in 0..Len(send_queue) : Parted(send_queue, n)
  /\ ~shutdown_flag => /\ Parted(send_queue, Len(send_queue))
                       /\ \A c \in Consumers : held[c] # Pill
  /\ (\E c \in Consumers : held[c] = Pill) => Parted(send_queue, 0)

\* A message pushed before shutdown() leaves the queue without pills.
LEMMA PartedPush ==
  ASSUME NEW q \in Seq(Msg), NEW m \in Messages, Parted(q, Len(q))
  PROVE  Parted(Append(q, m), Len(Append(q, m)))
<1> USE ThreadsAssumption DEF Msg
<1>1. /\ Len(q) \in Nat /\ Len(Append(q, m)) = Len(q) + 1
      /\ \A i \in 1..Len(q) : Append(q, m)[i] = q[i]
      /\ Append(q, m)[Len(q) + 1] = m
  BY LenProperties, AppendProperties
<1> QED
  BY <1>1 DEF Parted

\* A pop takes a frame while there is one, and then a pill.
LEMMA PartedPop ==
  ASSUME NEW q \in Seq(Msg), q # <<>>, NEW n \in 0..Len(q), Parted(q, n)
  PROVE  /\ n > 0 => Parted(Tail(q), n - 1) /\ Head(q) # Pill
         /\ n = 0 => Parted(Tail(q), 0) /\ Head(q) = Pill
<1>1. /\ Len(q) \in Nat /\ Len(q) > 0 /\ Len(Tail(q)) = Len(q) - 1
      /\ \A i \in 1..Len(Tail(q)) : Tail(q)[i] = q[i + 1]
      /\ Head(q) = q[1]
  BY EmptySeq, HeadTailProperties
<1>2. ASSUME n > 0 PROVE Parted(Tail(q), n - 1)
  BY <1>1, <1>2 DEF Parted
<1>3. ASSUME n = 0 PROVE Parted(Tail(q), 0)
  BY <1>1, <1>3 DEF Parted
<1>4. n > 0 <=> Head(q) # Pill
  BY <1>1 DEF Parted
<1> QED
  BY <1>2, <1>3, <1>4

\* shutdown() adds its pills behind the frames.
LEMMA PartedShutdown ==
  ASSUME NEW q \in Seq(Msg), Parted(q, Len(q))
  PROVE  Parted(q \o [i \in 1..SENDTHREADSIZE |-> Pill], Len(q))
<1> USE SizeAssumption DEF Msg
<1> DEFINE pills == [i \in 1..SENDTHREADSIZE |-> Pill]
<1>1. pills \in Seq(Msg) /\ Len(pills) = SENDTHREADSIZE
  OBVIOUS
<1>2. \A i \in 1..SENDTHREADSIZE : pills[i] = Pill
  OBVIOUS
<1> HIDE DEF pills
<1>3. /\ Len(q) \in Nat /\ Len(q \o pills) = Len(q) + SENDTHREADSIZE
      /\ \A i \in 1..(Len(q) + SENDTHREADSIZE) :
           (q \o pills)[i] = IF i <= Len(q) THEN q[i] ELSE pills[i - Len(q)]
  BY <1>1, LenProperties, ConcatProperties
<1>4. ASSUME NEW i \in 1..(Len(q) + SENDTHREADSIZE), i > Len(q)
      PROVE  (q \o pills)[i] = Pill
  <2>1. i - Len(q) \in 1..SENDTHREADSIZE
    BY <1>3, <1>4
  <2> QED
    BY <1>2, <1>3, <1>4, <2>1
<1>5. /\ Len(q) \in Nat /\ Len(q \o pills) = Len(q) + SENDTHREADSIZE
      /\ \A i \in 1..Len(q) : (q \o pills)[i] = q[i]
      /\ \A i \in 1..(Len(q) + SENDTHREADSIZE) :
           i > Len(q) => (q \o pills)[i] = Pill
  BY <1>3, <1>4
<1>6. Parted(q \o pills, Len(q))
  BY <1>5 DEF Parted
<1> QED
  BY <1>6 DEF pills

\* Every step keeps the pills last.
LEMMA PillsLastStep ==
  ASSUME TypeInv, PillsLast, [Next]_vars
  PROVE  PillsLast'
<1> USE ThreadsAssumption
<1>0. send_queue \in Seq(Msg) /\ Len(send_queue) \in Nat
  BY LenProperties DEF TypeInv, TypeOK, Msg
<1>1. ASSUME NEW p \in Producers, NEW m \in Messages, Push(p, m)
      PROVE  PillsLast'
  <2>1. CASE Enqueue(p, m)
    <3>1. /\ ~shutdown_flag /\ shutdown_flag' = shutdown_flag
          /\ send_queue' = Append(send_queue, m) /\ held' = held
      BY <1>1, <2>1 DEF Push, Enqueue
    <3>2. Parted(send_queue', Len(send_queue'))
      BY <1>0, <3>1, PartedPush DEF PillsLast
    <3>3. Len(send_queue') \in 0..Len(send_queue')
      BY <3>2 DEF Parted
    <3> QED
      BY <3>1, <3>2, <3>3 DEF PillsLast
  <2>2. CASE PushDropped(p)
    BY <1>1, <2>2 DEF Push, PushDropped, queueVars, PillsLast, Parted
  <2> QED
    BY <1>1, <2>1, <2>2 DEF Push
<1>2. ASSUME NEW c \in Consumers, Pop(c)
      PROVE  PillsLast'
  <2>1. CASE Dequeue(c)
    <3>1. /\ send_queue # <<>> /\ send_queue' = Tail(send_queue)
          /\ shutdown_flag' = shutdown_flag
      BY <1>2, <2>1 DEF Pop, Dequeue, Empty
    <3>2. held' = [held EXCEPT ![c] = Head(send_queue)]
      BY <1>2, <2>1 DEF Pop, Dequeue, PopNothing, Empty
    <3>3. held \in [Consumers -> Messages \cup {Pill, Idle}]
      BY DEF TypeInv, TypeOK
    <3>4. PICK n \in 0..Len(send_queue) : Parted(send_queue, n)
      BY DEF PillsLast
    <3>5. Len(send_queue') = Len(send_queue) - 1
      BY <1>0, <3>1, HeadTailProperties
    <3>6. CASE n = 0
      <4>1. Parted(send_queue', 0) /\ Head(send_queue) = Pill
        BY <1>0, <3>1, <3>4, <3>6, PartedPop
      <4>2. shutdown_flag
        BY <1>0, <3>1, <3>4, <3>6, EmptySeq DEF PillsLast, Parted
      <4>3. 0 \in 0..Len(send_queue')
        BY <4>1 DEF Parted
      <4> QED
        BY <3>1, <4>1, <4>2, <4>3 DEF PillsLast
    <3>7. CASE n > 0
      <4>1. Parted(send_queue', n - 1) /\ Head(send_queue) # Pill
        BY <1>0, <3>1, <3>4, <3>7, PartedPop
      <4>2. \A d \in Consumers : held[d] # Pill
        BY <1>0, <3>4, <3>7 DEF PillsLast, Parted
      <4>3. \A d \in Consumers : held'[d] # Pill
        BY <3>2, <3>3, <4>1, <4>2
      <4>4. ~shutdown_flag => Parted(send_queue', Len(send_queue'))
        <5> SUFFICES ASSUME ~shutdown_flag
                     PROVE  Parted(send_queue', Len(send_queue'))
          OBVIOUS
        <5>1. Parted(send_queue, Len(send_queue)) /\ Len(send_queue) > 0
          BY <1>0, <3>1, EmptySeq DEF PillsLast
        <5>2. Parted(send_queue', Len(send_queue) - 1)
          BY <1>0, <3>1, <5>1, PartedPop
        <5> QED
          BY <3>5, <5>2
      <4>5. n - 1 \in 0..Len(send_queue')
        BY <4>1 DEF Parted
      <4> QED
        BY <3>1, <4>1, <4>3, <4>4, <4>5 DEF PillsLast
    <3> QED
      BY <1>0, <3>6, <3>7
  <2>2. CASE PopNothing(c)
    <3>1. shutdown_flag' /\ send_queue' = <<>>
      BY <2>2 DEF PopNothing, Empty, queueVars
    <3>2. Parted(send_queue', 0) /\ 0 \in 0..Len(send_queue')
      BY <3>1, EmptySeq DEF Parted
    <3> QED
      BY <3>1, <3>2 DEF PillsLast
  <2> QED
    BY <1>2, <2>1, <2>2 DEF Pop
<1>3. CASE DoShutdown
  <2>1. /\ ~shutdown_flag /\ shutdown_flag' /\ held' = held
        /\ send_queue' = send_queue \o [i \in 1..SENDTHREADSIZE |-> Pill]
    BY <1>3 DEF DoShutdown, Shutdown
  <2>2. Parted(send_queue', Len(send_queue))
    BY <1>0, <2>1, PartedShutdown DEF PillsLast
  <2>3. Len(send_queue) \in 0..Len(send_queue')
    BY <2>2 DEF Parted
  <2> QED
    BY <2>1, <2>2, <2>3 DEF PillsLast
<1>4. CASE DoClear
  <2>1. send_queue' = <<>> /\ shutdown_flag' = shutdown_flag /\ held' = held
    BY <1>4 DEF DoClear, Clear
  <2>2. /\ Parted(send_queue', 0) /\ 0 \in 0..Len(send_queue')
        /\ Len(send_queue') = 0
    BY <2>1, EmptySeq DEF Parted
  <2> QED
    BY <2>1, <2>2 DEF PillsLast
<1>5. CASE UNCHANGED <<send_queue, shutdown_flag, held>>
  BY <1>5 DEF PillsLast, Parted
<1> QED
  BY <1>1, <1>2, <1>3, <1>4, <1>5
  DEF Next, PushSleeps, PushWait, PopSleeps, PopWait, Sleep, Notify, Spurious, vars

\* The pills are the end of the queue in every reachable state.
THEOREM Pills == Spec => []PillsLast
<1>1. Init => PillsLast
  <2> SUFFICES ASSUME Init PROVE PillsLast
    OBVIOUS
  <2>1. /\ send_queue = <<>> /\ Len(send_queue) = 0
        /\ \A c \in Consumers : held[c] # Pill
    BY ThreadsAssumption, EmptySeq DEF Init, QueueInit
  <2>2. Parted(send_queue, 0) /\ 0 \in 0..Len(send_queue)
    BY <2>1 DEF Parted
  <2> QED
    BY <2>1, <2>2 DEF PillsLast
<1>2. TypeInv /\ PillsLast /\ [Next]_vars => PillsLast'
  BY PillsLastStep
<1> QED
  BY <1>1, <1>2, Typing, PTL DEF Spec

\* A send thread that has left its loop has left no frame behind.
THEOREM Drained == Spec => []DrainedBeforeRetiring
<1>1. TypeInv /\ PillsLast => DrainedBeforeRetiring
  BY LenProperties DEF TypeInv, TypeOK, PillsLast, Parted, DrainedBeforeRetiring
<1> QED
  BY <1>1, Typing, Pills, PTL

-----------------------------------------------------------------------------
(* SEND_QUEUE implements FrameQueue.                                        *)

\* Where the pills come last, the frames are the messages before them.
LEMMA FramesFirst ==
  ASSUME NEW q \in Seq(Msg), NEW n \in 0..Len(q), Parted(q, n)
  PROVE  FramesOf(q) = [i \in 1..n |-> q[i]]
<1> DEFINE Ends(k) == /\ \A i \in 1..k : q[i] # Pill
                      /\ k < Len(q) => q[k + 1] = Pill
           m == CHOOSE k \in 0..Len(q) : Ends(k)
<1>1. Len(q) \in Nat
  BY LenProperties
<1>2. Ends(n)
  BY <1>1 DEF Parted
<1>3. m \in 0..Len(q) /\ Ends(m)
  <2> HIDE DEF Ends
  <2> QED
    BY <1>2
<1>4. ASSUME NEW k \in 0..Len(q), Ends(k) PROVE k = n
  <2>1. ~(k < n)
    BY <1>1, <1>4 DEF Parted
  <2>2. ~(n < k)
    BY <1>1, <1>4 DEF Parted
  <2> QED
    BY <1>1, <2>1, <2>2
<1>5. m = n
  <2> HIDE DEF Ends, m
  <2> QED
    BY <1>3, <1>4
<1>6. FramesOf(q) = [i \in 1..m |-> q[i]]
  BY DEF FramesOf
<1> HIDE DEF m
<1> QED
  BY <1>5, <1>6

\* A queue without pills is its own frames.
LEMMA AllFrames ==
  ASSUME NEW q \in Seq(Msg), Parted(q, Len(q))
  PROVE  FramesOf(q) = q
<1>1. Len(q) \in Nat /\ q = [i \in 1..Len(q) |-> q[i]]
  BY LenProperties
<1>2. Len(q) \in 0..Len(q)
  BY <1>1
<1> QED
  BY <1>1, <1>2, FramesFirst

\* A queue that starts with its pills has no frames.
LEMMA NoFrames ==
  ASSUME NEW q \in Seq(Msg), Parted(q, 0)
  PROVE  FramesOf(q) = <<>>
<1>1. 0 \in 0..Len(q)
  BY LenProperties
<1>2. FramesOf(q) = [i \in 1..0 |-> q[i]]
  BY <1>1, FramesFirst
<1> QED
  BY <1>2

\* Popping a frame pops it from the frames.
LEMMA FramesPop ==
  ASSUME NEW q \in Seq(Msg), q # <<>>, NEW n \in 1..Len(q), Parted(q, n)
  PROVE  /\ FramesOf(q) # <<>>
         /\ Head(FramesOf(q)) = Head(q)
         /\ FramesOf(Tail(q)) = Tail(FramesOf(q))
<1>1. /\ Len(q) \in Nat /\ Len(q) > 0
      /\ Tail(q) \in Seq(Msg) /\ Len(Tail(q)) = Len(q) - 1
      /\ \A i \in 1..Len(Tail(q)) : Tail(q)[i] = q[i + 1]
      /\ Head(q) = q[1]
      /\ q \in [1..Len(q) -> Msg]
  BY LenProperties, EmptySeq, HeadTailProperties
<1>2. Parted(Tail(q), n - 1)
  BY <1>1, PartedPop
<1> DEFINE f == [i \in 1..n |-> q[i]]
<1>3. FramesOf(q) = f
  BY <1>1, FramesFirst
<1>4. FramesOf(Tail(q)) = [i \in 1..(n - 1) |-> Tail(q)[i]]
  <2>1. n - 1 \in 0..Len(Tail(q))
    BY <1>2 DEF Parted
  <2> QED
    BY <1>1, <1>2, <2>1, FramesFirst
<1>5. f \in Seq(Msg) /\ Len(f) = n /\ f[1] = q[1]
  BY <1>1
<1>6. f # <<>>
  BY <1>5, EmptySeq
<1>7. /\ Head(f) = f[1] /\ Tail(f) \in Seq(Msg) /\ Len(Tail(f)) = n - 1
      /\ \A i \in 1..(n - 1) : Tail(f)[i] = f[i + 1]
  <2> HIDE DEF f
  <2> QED
    BY <1>5, <1>6, HeadTailProperties
<1>8. Tail(f) = [i \in 1..(n - 1) |-> Tail(q)[i]]
  <2>1. \A i \in 1..(n - 1) : Tail(f)[i] = Tail(q)[i]
    <3> SUFFICES ASSUME NEW i \in 1..(n - 1) PROVE Tail(f)[i] = Tail(q)[i]
      OBVIOUS
    <3>1. i + 1 \in 1..n /\ i \in 1..Len(Tail(q))
      BY <1>1
    <3>2. f[i + 1] = q[i + 1]
      BY <3>1
    <3> HIDE DEF f
    <3> QED
      BY <1>1, <1>7, <3>1, <3>2
  <2>2. Tail(f) = [i \in 1..(n - 1) |-> Tail(f)[i]]
    <3> HIDE DEF f
    <3> QED
      BY <1>7, LenProperties
  <2> HIDE DEF f
  <2> QED
    BY <2>1, <2>2
<1> HIDE DEF f
<1> QED
  BY <1>1, <1>3, <1>4, <1>5, <1>6, <1>7, <1>8

\* Each step of the queue and its threads is a step of FrameQueue, or none.
LEMMA Simulation ==
  ASSUME TypeInv, PillsLast, PillsLast', TypeInv', [Next]_vars
  PROVE  [Promise!Next]_<<FramesOf(send_queue), shutdown_flag, held>>
<1> USE ThreadsAssumption
<1> DEFINE frames == FramesOf(send_queue)
           Idles == UNCHANGED <<frames, shutdown_flag, held>>
<1>0. /\ send_queue \in Seq(Msg) /\ send_queue' \in Seq(Msg)
      /\ Len(send_queue) \in Nat
  BY LenProperties DEF TypeInv, TypeOK, Msg
<1>1. ASSUME NEW p \in Producers, NEW m \in Messages, Push(p, m)
      PROVE  Promise!Next \/ Idles
  <2>1. CASE Enqueue(p, m)
    <3>1. /\ ~shutdown_flag /\ shutdown_flag' = shutdown_flag
          /\ send_queue' = Append(send_queue, m) /\ held' = held
          /\ Len(send_queue) < MAXSIZE
      BY <1>0, <1>1, <2>1, SizeAssumption DEF Push, Enqueue, Full
    <3>2. frames = send_queue /\ frames' = send_queue'
      BY <1>0, <3>1, AllFrames DEF PillsLast
    <3>3. Promise!Put(m)
      BY <3>1, <3>2 DEF Promise!Put
    <3> QED
      BY <3>3 DEF Promise!Next
  <2>2. CASE PushDropped(p)
    BY <1>1, <2>2 DEF Push, PushDropped, queueVars
  <2> QED
    BY <1>1, <2>1, <2>2 DEF Push
<1>2. ASSUME NEW c \in Consumers, Pop(c)
      PROVE  Promise!Next \/ Idles
  <2>1. CASE Dequeue(c)
    <3>1. /\ send_queue # <<>> /\ send_queue' = Tail(send_queue)
          /\ shutdown_flag' = shutdown_flag /\ held[c] # Pill
          /\ held' = [held EXCEPT ![c] = Head(send_queue)]
      BY <1>2, <2>1 DEF Pop, Dequeue, PopNothing, Empty
    <3>2. PICK n \in 0..Len(send_queue) : Parted(send_queue, n)
      BY DEF PillsLast
    <3>3. CASE n > 0
      <4>1. /\ frames # <<>> /\ Head(frames) = Head(send_queue)
            /\ frames' = Tail(frames)
        BY <1>0, <3>1, <3>2, <3>3, FramesPop
      <4>2. Promise!Take(c)
        BY <3>1, <4>1 DEF Promise!Take
      <4> QED
        BY <4>2 DEF Promise!Next
    <3>4. CASE n = 0
      <4>1. Parted(Tail(send_queue), 0) /\ Head(send_queue) = Pill
        BY <1>0, <3>1, <3>2, <3>4, PartedPop
      <4>2. frames = <<>> /\ frames' = <<>>
        BY <1>0, <3>1, <3>2, <3>4, <4>1, NoFrames
      <4>3. shutdown_flag
        BY <1>0, <3>1, <3>2, <3>4, EmptySeq DEF PillsLast, Parted
      <4>4. Promise!Retire(c)
        BY <3>1, <4>1, <4>2, <4>3 DEF Promise!Retire
      <4> QED
        BY <4>4 DEF Promise!Next
    <3> QED
      BY <3>3, <3>4
  <2>2. CASE PopNothing(c)
    <3>1. /\ shutdown_flag /\ shutdown_flag' = shutdown_flag
          /\ send_queue = <<>> /\ send_queue' = <<>>
          /\ held' = [held EXCEPT ![c] = Pill]
      BY <1>2, <2>2 DEF Pop, PopNothing, Dequeue, Empty, queueVars
    <3>2. Parted(<<>>, 0)
      BY EmptySeq DEF Parted
    <3>3. frames = <<>> /\ frames' = <<>>
      BY <1>0, <3>1, <3>2, NoFrames
    <3>4. Promise!Retire(c)
      BY <3>1, <3>3 DEF Promise!Retire
    <3> QED
      BY <3>4 DEF Promise!Next
  <2> QED
    BY <1>2, <2>1, <2>2 DEF Pop
<1>3. CASE DoShutdown
  <2>1. /\ ~shutdown_flag /\ shutdown_flag' = TRUE /\ held' = held
        /\ send_queue' = send_queue \o [i \in 1..SENDTHREADSIZE |-> Pill]
    BY <1>3 DEF DoShutdown, Shutdown
  <2>2. Parted(send_queue, Len(send_queue))
    BY <2>1 DEF PillsLast
  <2>3. Parted(send_queue', Len(send_queue))
    BY <1>0, <2>1, <2>2, PartedShutdown
  <2>4. frames = [i \in 1..Len(send_queue) |-> send_queue[i]]
    BY <1>0, <2>2, FramesFirst
  <2>5. frames' = [i \in 1..Len(send_queue) |-> send_queue'[i]]
    BY <1>0, <2>3, FramesFirst DEF Parted
  <2>6. \A i \in 1..Len(send_queue) : send_queue'[i] = send_queue[i]
    <3> DEFINE pills == [i \in 1..SENDTHREADSIZE |-> Pill]
    <3>1. pills \in Seq(Msg) /\ Len(pills) = SENDTHREADSIZE
      BY SizeAssumption DEF Msg
    <3> HIDE DEF pills
    <3>2. send_queue' = send_queue \o pills
      BY <2>1 DEF pills
    <3> QED
      BY <1>0, <3>1, <3>2, SizeAssumption, ConcatProperties
  <2>7. frames' = frames
    BY <2>4, <2>5, <2>6
  <2>8. Promise!Close
    BY <2>1, <2>7 DEF Promise!Close
  <2> QED
    BY <2>8 DEF Promise!Next
<1>4. CASE DoClear
  <2>1. send_queue' = <<>> /\ shutdown_flag' = shutdown_flag /\ held' = held
    BY <1>4 DEF DoClear, Clear
  <2>2. Parted(<<>>, 0)
    BY EmptySeq DEF Parted
  <2>3. frames' = <<>>
    BY <1>0, <2>1, <2>2, NoFrames
  <2>4. Promise!Discard
    BY <2>1, <2>3 DEF Promise!Discard
  <2> QED
    BY <2>4 DEF Promise!Next
<1>5. CASE UNCHANGED <<send_queue, shutdown_flag, held>>
  BY <1>5
<1> HIDE DEF Idles
<1>6. Promise!Next \/ Idles => [Promise!Next]_<<frames, shutdown_flag, held>>
  BY DEF Idles
<1>7. CASE \E p \in Producers, m \in Messages : Push(p, m)
  BY <1>1, <1>6, <1>7
<1>8. CASE \E c \in Consumers : Pop(c)
  BY <1>2, <1>6, <1>8
<1> HIDE DEF frames
<1> QED
  BY <1>3, <1>4, <1>5, <1>7, <1>8
  DEF Next, PushSleeps, PushWait, PopSleeps, PopWait, Sleep, Notify, Spurious, vars

\* For every size and any threads, SEND_QUEUE is the bounded FIFO that a room
\* relies on.
THEOREM Implements == Spec => ImplementsFrameQueue
<1>1. Init => Promise!Init
  <2> SUFFICES ASSUME Init PROVE Promise!Init
    OBVIOUS
  <2>1. send_queue = <<>> /\ Parted(<<>>, 0) /\ <<>> \in Seq(Msg)
    BY EmptySeq DEF Init, QueueInit, Parted
  <2>2. FramesOf(send_queue) = <<>>
    BY <2>1, NoFrames
  <2> QED
    BY <2>2 DEF Init, QueueInit, Promise!Init
<1>2. TypeInv /\ TypeInv' /\ PillsLast /\ PillsLast' /\ [Next]_vars
        => [Promise!Next]_<<FramesOf(send_queue), shutdown_flag, held>>
  BY Simulation
<1> QED
  BY <1>1, <1>2, Typing, Pills, PTL DEF Spec, ImplementsFrameQueue, Promise!Spec
=============================================================================
