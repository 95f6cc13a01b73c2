--------------------------- MODULE Channel_proofs ---------------------------
(***************************************************************************)
(* For any number of producers and consumers and any capacity: the channel *)
(* stays within its capacity, never pops an empty queue, and implements    *)
(* the bounded FIFO queue of BoundedFifo.                                  *)
(***************************************************************************)
EXTENDS Channel, TLAPS

USE CapacityAssumption, ItemRangeAssumption, ThreadsAssumption

\* The inductive invariant.
IInv == TypeOK /\ HoldsMutex /\ Foresight /\ CapacityBound /\ PopSafe

\* The counter arithmetic: Pred undoes Succ, both stay in range.
LEMMA Counter ==
  ASSUME NEW n \in 0 .. ItemRange - 1
  PROVE  /\ Succ(n) \in 0 .. ItemRange - 1 /\ Pred(n) \in 0 .. ItemRange - 1
         /\ Pred(Succ(n)) = n /\ Succ(Pred(n)) = n
BY DEF Succ, Pred

\* A moved thread is where it was sent and nobody else has moved.
LEMMA Moved ==
  ASSUME TypeOK, NEW t \in Threads, NEW from, NEW to, Goto(t, from, to)
  PROVE  /\ pc[t] = from /\ pc'[t] = to
         /\ \A u \in Threads : u # t => pc'[u] = pc[u]
         /\ DOMAIN pc' = Threads
BY DEF TypeOK, Goto

\* Types, for a step of a producer that moves it and leaves the queue alone.
LEMMA ProducerTypes ==
  ASSUME TypeOK, NEW p \in Producers, NEW from, NEW to, Goto(p, from, to),
         to \in ProducerPCs, from # "wait",
         m' \in Threads \cup {NoThread}, waiting' \in SUBSET waiting,
         q' \in Seq(Items), i' \in [Producers -> 0 .. ItemRange - 1],
         UNCHANGED <<done, data, main>>
  PROVE  TypeOK'
<1>1. p \in Threads
  BY DEF Threads
<1>2. pc' \in [Threads -> ProducerPCs \cup ConsumerPCs]
  BY <1>1 DEF TypeOK, Goto
<1>0. pc[p] = from /\ pc'[p] = to /\ \A u \in Threads : u # p => pc'[u] = pc[u]
  BY <1>1, Moved
<1>3. \A x \in Producers : pc'[x] \in ProducerPCs
  BY <1>0 DEF TypeOK, Threads
<1>4. \A c \in Consumers : pc'[c] \in ConsumerPCs /\ (c \in waiting' => pc'[c] = "wait")
  BY <1>0 DEF TypeOK, Threads
<1> QED
  BY <1>2, <1>3, <1>4 DEF TypeOK

\* Types, for a step of a consumer.
LEMMA ConsumerTypes ==
  ASSUME TypeOK, NEW c \in Consumers, NEW from, NEW to, Goto(c, from, to),
         to \in ConsumerPCs, c \in waiting' => to = "wait",
         m' \in Threads \cup {NoThread}, waiting' \subseteq waiting \cup {c},
         q' \in Seq(Items), data' \in [Consumers -> Items \cup {Null}],
         UNCHANGED <<done, i, main>>
  PROVE  TypeOK'
<1>1. c \in Threads
  BY DEF Threads
<1>2. pc' \in [Threads -> ProducerPCs \cup ConsumerPCs]
  BY <1>1 DEF TypeOK, Goto
<1>0. pc[c] = from /\ pc'[c] = to /\ \A u \in Threads : u # c => pc'[u] = pc[u]
  BY <1>1, Moved
<1>3. \A x \in Producers : pc'[x] \in ProducerPCs
  BY <1>0 DEF TypeOK, Threads
<1>4. \A x \in Consumers : pc'[x] \in ConsumerPCs /\ (x \in waiting' => pc'[x] = "wait")
  BY <1>0 DEF TypeOK, Threads
<1>5. waiting' \in SUBSET Consumers
  BY DEF TypeOK
<1> QED
  BY <1>2, <1>3, <1>4, <1>5 DEF TypeOK

\* The program starts in the invariant.
LEMMA InitIInv == Init => IInv
<1> SUFFICES ASSUME Init PROVE IInv
  OBVIOUS
<1>1. TypeOK
  <2>1. done \in BOOLEAN
    BY Zenon DEF Init
  <2>2. /\ pc \in [Threads -> ProducerPCs \cup ConsumerPCs]
        /\ \A p \in Producers : pc[p] \in ProducerPCs
        /\ \A c \in Consumers : pc[c] \in ConsumerPCs /\ (c \in waiting => pc[c] = "wait")
    BY DEF Init, Threads, ProducerPCs, ConsumerPCs
  <2>3. i \in [Producers -> 0 .. ItemRange - 1] /\ q \in Seq(Items)
    BY DEF Init
  <2>4. /\ m \in Threads \cup {NoThread} /\ waiting \in SUBSET Consumers
        /\ data \in [Consumers -> Items \cup {Null}] /\ main \in {"sleep", "join", "exit", "crashed"}
    BY DEF Init
  <2> QED  BY <2>1, <2>2, <2>3, <2>4 DEF TypeOK
<1>2. HoldsMutex /\ Foresight /\ PopSafe
  BY DEF Init, HoldsMutex, Foresight, PopSafe, Threads
<1>3. CapacityBound
  BY DEF Init, CapacityBound
<1> QED
  BY <1>1, <1>2, <1>3 DEF IInv

\* The part of the invariant that speaks of control.
Control == HoldsMutex /\ Foresight /\ CapacityBound /\ PopSafe

-----------------------------------------------------------------------------
(* operator<< *)

\* The producer's loop test.
LEMMA ProducerLoopIInv == ASSUME IInv, NEW p \in Producers, ProducerLoop(p) PROVE IInv'
<1>0. p \in Threads /\ p # NoThread
  BY DEF Threads
<1>1. /\ \/ Goto(p, "loop", "exit") \/ Goto(p, "loop", "lock")
      /\ i' \in [Producers -> 0 .. ItemRange - 1]
  <2>1. Succ(i[p]) \in 0 .. ItemRange - 1 /\ i \in [Producers -> 0 .. ItemRange - 1]
    BY Counter DEF IInv, TypeOK
  <2> QED  BY <2>1 DEF ProducerLoop
<1>2. TypeOK'
  BY <1>1, ProducerTypes DEF ProducerLoop, IInv, TypeOK, ProducerPCs
<1>3. Control'
  BY <1>0 DEF IInv, TypeOK, Control, HoldsMutex, Foresight, CapacityBound, PopSafe,
     ProducerLoop, Goto, Acquire, Release, Threads
<1> QED  BY <1>2, <1>3 DEF IInv, Control

\* operator<< takes the mutex.
LEMMA SendLockIInv == ASSUME IInv, NEW p \in Producers, SendLock(p) PROVE IInv'
<1>0. p \in Threads /\ p # NoThread
  BY DEF Threads
<1>2. TypeOK'
  <2>1. Goto(p, "lock", "full?") /\ m' \in Threads \cup {NoThread} /\ waiting' \in SUBSET waiting
    BY <1>0 DEF SendLock, IInv, TypeOK, Acquire, Release
  <2> QED  BY <2>1, ProducerTypes DEF SendLock, IInv, TypeOK, ProducerPCs
<1>3. Control'
  BY <1>0 DEF IInv, TypeOK, Control, HoldsMutex, Foresight, CapacityBound, PopSafe,
     SendLock, Goto, Acquire, Release, Threads
<1> QED  BY <1>2, <1>3 DEF IInv, Control

\* operator<< gives the mutex up on a full queue.
LEMMA SendFullIInv == ASSUME IInv, NEW p \in Producers, SendFull(p) PROVE IInv'
<1>0. p \in Threads /\ p # NoThread
  BY DEF Threads
<1>2. TypeOK'
  <2>1. Goto(p, "full?", "sleep") /\ m' \in Threads \cup {NoThread} /\ waiting' \in SUBSET waiting
    BY <1>0 DEF SendFull, IInv, TypeOK, Acquire, Release, KeepsSleeping, Full
  <2> QED  BY <2>1, ProducerTypes DEF SendFull, IInv, TypeOK, ProducerPCs
<1>3. Control'
  BY <1>0 DEF IInv, TypeOK, Control, HoldsMutex, Foresight, CapacityBound, PopSafe,
     SendFull, Goto, Acquire, Release, Threads, KeepsSleeping, Full
<1> QED  BY <1>2, <1>3 DEF IInv, Control

\* operator<< takes the mutex again after sleeping.
LEMMA SendRelockIInv == ASSUME IInv, NEW p \in Producers, SendRelock(p) PROVE IInv'
<1>0. p \in Threads /\ p # NoThread
  BY DEF Threads
<1>2. TypeOK'
  <2>1. Goto(p, "sleep", "full?") /\ m' \in Threads \cup {NoThread} /\ waiting' \in SUBSET waiting
    BY <1>0 DEF SendRelock, IInv, TypeOK, Acquire, Release
  <2> QED  BY <2>1, ProducerTypes DEF SendRelock, IInv, TypeOK, ProducerPCs
<1>3. Control'
  BY <1>0 DEF IInv, TypeOK, Control, HoldsMutex, Foresight, CapacityBound, PopSafe,
     SendRelock, Goto, Acquire, Release, Threads
<1> QED  BY <1>2, <1>3 DEF IInv, Control

\* operator<< leaves its loop: there is room, or the channel is closed.
LEMMA SendNotFullIInv == ASSUME IInv, NEW p \in Producers, SendNotFull(p) PROVE IInv'
<1>0. p \in Threads /\ p # NoThread
  BY DEF Threads
<1>2. TypeOK'
  <2>1. Goto(p, "full?", "done?") /\ m' \in Threads \cup {NoThread} /\ waiting' \in SUBSET waiting
    BY <1>0 DEF SendNotFull, IInv, TypeOK, Acquire, Release, KeepsSleeping, Full
  <2> QED  BY <2>1, ProducerTypes DEF SendNotFull, IInv, TypeOK, ProducerPCs
<1>3. Control'
  BY <1>0 DEF IInv, TypeOK, Control, HoldsMutex, Foresight, CapacityBound, PopSafe,
     SendNotFull, Goto, Acquire, Release, Threads, KeepsSleeping, Full
<1> QED  BY <1>2, <1>3 DEF IInv, Control

\* operator<< on a closed channel drops the item.
LEMMA SendDropIInv == ASSUME IInv, NEW p \in Producers, SendDrop(p) PROVE IInv'
<1>0. p \in Threads /\ p # NoThread
  BY DEF Threads
<1>2. TypeOK'
  <2>1. Goto(p, "done?", "loop") /\ m' \in Threads \cup {NoThread} /\ waiting' \in SUBSET waiting
    BY <1>0 DEF SendDrop, IInv, TypeOK, Acquire, Release, NotifyOne
  <2> QED  BY <2>1, ProducerTypes DEF SendDrop, IInv, TypeOK, ProducerPCs
<1>3. Control'
  BY <1>0 DEF IInv, TypeOK, Control, HoldsMutex, Foresight, CapacityBound, PopSafe,
     SendDrop, Goto, Acquire, Release, Threads, NotifyOne
<1> QED  BY <1>2, <1>3 DEF IInv, Control

\* operator<< found the channel open, hence room in the queue.
LEMMA SendOpenIInv == ASSUME IInv, NEW p \in Producers, SendOpen(p) PROVE IInv'
<1>0. p \in Threads /\ p # NoThread
  BY DEF Threads
<1>2. TypeOK'
  <2>1. Goto(p, "done?", "push") /\ m' \in Threads \cup {NoThread} /\ waiting' \in SUBSET waiting
    BY <1>0 DEF SendOpen, IInv, TypeOK, Acquire, Release
  <2> QED  BY <2>1, ProducerTypes DEF SendOpen, IInv, TypeOK, ProducerPCs
<1>3. Control'
  BY <1>0 DEF IInv, TypeOK, Control, HoldsMutex, Foresight, CapacityBound, PopSafe,
     SendOpen, Goto, Acquire, Release, Threads
<1> QED  BY <1>2, <1>3 DEF IInv, Control

\* operator<< appends the item to a queue that has room.
LEMMA PushIInv == ASSUME IInv, NEW p \in Producers, Push(p) PROVE IInv'
<1>0. p \in Threads /\ p # NoThread
  BY DEF Threads
<1>1. q' \in Seq(Items) /\ Len(q') = Len(q) + 1 /\ q' # <<>>
  <2>1. i[p] \in 0 .. ItemRange - 1 /\ q \in Seq(Items)
    BY DEF IInv, TypeOK
  <2>2. Item(p) \in Items
    BY <2>1, Counter DEF Item, Items
  <2> QED  BY <2>1, <2>2 DEF Push
<1>2. TypeOK'
  <2>1. Goto(p, "push", "loop") /\ m' \in Threads \cup {NoThread} /\ waiting' \in SUBSET waiting
    BY <1>0 DEF Push, IInv, TypeOK, Acquire, Release, NotifyOne, Item
  <2> QED  BY <1>1, <2>1, ProducerTypes DEF Push, IInv, TypeOK, ProducerPCs
<1>3. Control'
  BY <1>0, <1>1 DEF IInv, TypeOK, Control, HoldsMutex, Foresight, CapacityBound, PopSafe,
     Push, Goto, Acquire, Release, Threads, NotifyOne, Item
<1> QED  BY <1>2, <1>3 DEF IInv, Control

-----------------------------------------------------------------------------
(* operator>> *)

\* The consumer's loop test.
LEMMA ConsumerLoopIInv == ASSUME IInv, NEW c \in Consumers, ConsumerLoop(c) PROVE IInv'
<1>0. c \in Threads /\ c # NoThread
  BY DEF Threads
<1>1. Goto(c, "loop", "exit") \/ Goto(c, "loop", "lock")
  BY DEF ConsumerLoop
<1>2. TypeOK'
  <2>1. c \notin waiting
    BY <1>1 DEF Goto, IInv, TypeOK
  <2> QED  BY <1>1, <2>1, ConsumerTypes DEF ConsumerLoop, IInv, TypeOK, ConsumerPCs
<1>3. Control'
  BY <1>0 DEF IInv, TypeOK, Control, HoldsMutex, Foresight, CapacityBound, PopSafe,
     ConsumerLoop, Goto, Acquire, Release, Threads
<1> QED  BY <1>2, <1>3 DEF IInv, Control

\* operator>> takes the mutex.
LEMMA ReceiveLockIInv == ASSUME IInv, NEW c \in Consumers, ReceiveLock(c) PROVE IInv'
<1>0. c \in Threads /\ c # NoThread
  BY DEF Threads
<1>2. TypeOK'
  <2>1. Goto(c, "lock", "empty?") /\ m' \in Threads \cup {NoThread}
    BY <1>0 DEF ReceiveLock, IInv, TypeOK, Acquire, Release
  <2>2. waiting' \subseteq waiting \cup {c} /\ (c \in waiting' => "empty?" = "wait")
    BY <2>1 DEF ReceiveLock, Goto, IInv, TypeOK
  <2> QED  BY <2>1, <2>2, ConsumerTypes DEF ReceiveLock, IInv, TypeOK, ConsumerPCs
<1>3. Control'
  BY <1>0 DEF IInv, TypeOK, Control, HoldsMutex, Foresight, CapacityBound, PopSafe,
     ReceiveLock, Goto, Acquire, Release, Threads
<1> QED  BY <1>2, <1>3 DEF IInv, Control

\* wait() blocks and releases the mutex.
LEMMA WaitIInv == ASSUME IInv, NEW c \in Consumers, Wait(c) PROVE IInv'
<1>0. c \in Threads /\ c # NoThread
  BY DEF Threads
<1>2. TypeOK'
  <2>1. Goto(c, "empty?", "wait") /\ m' \in Threads \cup {NoThread}
    BY <1>0 DEF Wait, IInv, TypeOK, Acquire, Release
  <2>2. waiting' \subseteq waiting \cup {c} /\ (c \in waiting' => "wait" = "wait")
    BY <2>1 DEF Wait, Goto, IInv, TypeOK
  <2> QED  BY <2>1, <2>2, ConsumerTypes DEF Wait, IInv, TypeOK, ConsumerPCs
<1>3. Control'
  BY <1>0 DEF IInv, TypeOK, Control, HoldsMutex, Foresight, CapacityBound, PopSafe,
     Wait, Goto, Acquire, Release, Threads, MustWait
<1> QED  BY <1>2, <1>3 DEF IInv, Control

\* A woken consumer takes the mutex and tests the predicate again.
LEMMA WokenIInv == ASSUME IInv, NEW c \in Consumers, Woken(c) PROVE IInv'
<1>0. c \in Threads /\ c # NoThread
  BY DEF Threads
<1>2. TypeOK'
  <2>1. Goto(c, "wait", "empty?") /\ m' \in Threads \cup {NoThread}
    BY <1>0 DEF Woken, IInv, TypeOK, Acquire, Release
  <2>2. waiting' \subseteq waiting \cup {c} /\ (c \in waiting' => "empty?" = "wait")
    BY <2>1 DEF Woken, Goto, IInv, TypeOK
  <2> QED  BY <2>1, <2>2, ConsumerTypes DEF Woken, IInv, TypeOK, ConsumerPCs
<1>3. Control'
  BY <1>0 DEF IInv, TypeOK, Control, HoldsMutex, Foresight, CapacityBound, PopSafe,
     Woken, Goto, Acquire, Release, Threads
<1> QED  BY <1>2, <1>3 DEF IInv, Control

\* The predicate holds: the queue is not empty, or the channel is closed.
LEMMA WaitOverIInv == ASSUME IInv, NEW c \in Consumers, WaitOver(c) PROVE IInv'
<1>0. c \in Threads /\ c # NoThread
  BY DEF Threads
<1>2. TypeOK'
  <2>1. Goto(c, "empty?", "done?") /\ m' \in Threads \cup {NoThread}
    BY <1>0 DEF WaitOver, IInv, TypeOK, Acquire, Release
  <2>2. waiting' \subseteq waiting \cup {c} /\ (c \in waiting' => "done?" = "wait")
    BY <2>1 DEF WaitOver, Goto, IInv, TypeOK
  <2> QED  BY <2>1, <2>2, ConsumerTypes DEF WaitOver, IInv, TypeOK, ConsumerPCs
<1>3. Control'
  BY <1>0 DEF IInv, TypeOK, Control, HoldsMutex, Foresight, CapacityBound, PopSafe,
     WaitOver, Goto, Acquire, Release, Threads, MustWait
<1> QED  BY <1>2, <1>3 DEF IInv, Control

\* operator>> on a closed channel returns nothing.
LEMMA ReceiveClosedIInv == ASSUME IInv, NEW c \in Consumers, ReceiveClosed(c) PROVE IInv'
<1>0. c \in Threads /\ c # NoThread
  BY DEF Threads
<1>2. TypeOK'
  <2>1. Goto(c, "done?", "print") /\ m' \in Threads \cup {NoThread}
    BY <1>0 DEF ReceiveClosed, IInv, TypeOK, Acquire, Release
  <2>2. waiting' \subseteq waiting \cup {c} /\ (c \in waiting' => "print" = "wait")
    BY <2>1 DEF ReceiveClosed, Goto, IInv, TypeOK
  <2> QED  BY <2>1, <2>2, ConsumerTypes DEF ReceiveClosed, IInv, TypeOK, ConsumerPCs
<1>3. Control'
  BY <1>0 DEF IInv, TypeOK, Control, HoldsMutex, Foresight, CapacityBound, PopSafe,
     ReceiveClosed, Goto, Acquire, Release, Threads
<1> QED  BY <1>2, <1>3 DEF IInv, Control

\* operator>> found the channel open, hence an item in the queue.
LEMMA ReceiveOpenIInv == ASSUME IInv, NEW c \in Consumers, ReceiveOpen(c) PROVE IInv'
<1>0. c \in Threads /\ c # NoThread
  BY DEF Threads
<1>2. TypeOK'
  <2>1. Goto(c, "done?", "pop") /\ m' \in Threads \cup {NoThread}
    BY <1>0 DEF ReceiveOpen, IInv, TypeOK, Acquire, Release
  <2>2. waiting' \subseteq waiting \cup {c} /\ (c \in waiting' => "pop" = "wait")
    BY <2>1 DEF ReceiveOpen, Goto, IInv, TypeOK
  <2> QED  BY <2>1, <2>2, ConsumerTypes DEF ReceiveOpen, IInv, TypeOK, ConsumerPCs
<1>3. Control'
  BY <1>0 DEF IInv, TypeOK, Control, HoldsMutex, Foresight, CapacityBound, PopSafe,
     ReceiveOpen, Goto, Acquire, Release, Threads
<1> QED  BY <1>2, <1>3 DEF IInv, Control

\* operator>> takes the first item.
LEMMA PopIInv == ASSUME IInv, NEW c \in Consumers, Pop(c) PROVE IInv'
<1>0. c \in Threads /\ c # NoThread
  BY DEF Threads
<1>1. q' \in Seq(Items) /\ Len(q') = Len(q) - 1 /\ data' \in [Consumers -> Items \cup {Null}]
  <2>1. q \in Seq(Items) /\ q # <<>>
    BY DEF IInv, TypeOK, Pop
  <2>2. Head(q) \in Items
    BY <2>1
  <2> QED  BY <2>1, <2>2 DEF IInv, TypeOK, Pop
<1>2. TypeOK'
  <2>1. Goto(c, "pop", "print") /\ m' \in Threads \cup {NoThread}
    BY <1>0 DEF Pop, IInv, TypeOK, Acquire, Release
  <2>2. waiting' \subseteq waiting \cup {c} /\ (c \in waiting' => "print" = "wait")
    BY <2>1 DEF Pop, Goto, IInv, TypeOK
  <2> QED  BY <1>1, <2>1, <2>2, ConsumerTypes DEF Pop, IInv, TypeOK, ConsumerPCs
<1>3. Control'
  BY <1>0, <1>1 DEF IInv, TypeOK, Control, HoldsMutex, Foresight, CapacityBound, PopSafe,
     Pop, Goto, Acquire, Release, Threads
<1> QED  BY <1>2, <1>3 DEF IInv, Control

\* The consumer prints.
LEMMA PrintItemIInv == ASSUME IInv, NEW c \in Consumers, PrintItem(c) PROVE IInv'
<1>0. c \in Threads /\ c # NoThread
  BY DEF Threads
<1>2. TypeOK'
  <2>1. Goto(c, "print", "loop") /\ m' \in Threads \cup {NoThread}
    BY <1>0 DEF PrintItem, IInv, TypeOK, Acquire, Release
  <2>2. waiting' \subseteq waiting \cup {c} /\ (c \in waiting' => "loop" = "wait")
    BY <2>1 DEF PrintItem, Goto, IInv, TypeOK
  <2> QED  BY <2>1, <2>2, ConsumerTypes DEF PrintItem, IInv, TypeOK, ConsumerPCs
<1>3. Control'
  BY <1>0 DEF IInv, TypeOK, Control, HoldsMutex, Foresight, CapacityBound, PopSafe,
     PrintItem, Goto, Acquire, Release, Threads
<1> QED  BY <1>2, <1>3 DEF IInv, Control

\* The consumer dies of a null pointer.
LEMMA PrintNullIInv == ASSUME IInv, NEW c \in Consumers, PrintNull(c) PROVE IInv'
BY DEF IInv, TypeOK, HoldsMutex, Foresight, CapacityBound, PopSafe, PrintNull

-----------------------------------------------------------------------------
\* Every step of every thread, of main and of the condition variable keeps
\* the invariant.
LEMMA NextIInv == IInv /\ [Next]_vars => IInv'
<1> SUFFICES ASSUME IInv, [Next]_vars PROVE IInv'
  OBVIOUS
<1>1. ASSUME NEW p \in Producers, Producer(p) PROVE IInv'
  BY <1>1, ProducerLoopIInv, SendLockIInv, SendFullIInv, SendRelockIInv,
     SendNotFullIInv, SendDropIInv, SendOpenIInv, PushIInv DEF Producer
<1>2. ASSUME NEW c \in Consumers, Consumer(c) PROVE IInv'
  BY <1>2, ConsumerLoopIInv, ReceiveLockIInv, WaitIInv, WokenIInv, WaitOverIInv,
     ReceiveClosedIInv, ReceiveOpenIInv, PopIInv, PrintItemIInv, PrintNullIInv DEF Consumer
<1>3. ASSUME NEW c \in Consumers, SpuriousWake(c) PROVE IInv'
  BY <1>3 DEF IInv, TypeOK, HoldsMutex, Foresight, CapacityBound, PopSafe, SpuriousWake
<1>4. CASE Close
  BY <1>4 DEF IInv, TypeOK, HoldsMutex, Foresight, CapacityBound, PopSafe, Close
<1>5. CASE Join
  BY <1>5 DEF IInv, TypeOK, HoldsMutex, Foresight, CapacityBound, PopSafe, Join
<1>6. CASE UNCHANGED vars
  BY <1>6 DEF IInv, TypeOK, HoldsMutex, Foresight, CapacityBound, PopSafe, vars
<1> QED
  BY <1>1, <1>2, <1>3, <1>4, <1>5, <1>6 DEF Next, Exited

\* The invariant holds in every reachable state.
LEMMA Invariance == Spec => []IInv
BY InitIInv, NextIInv, PTL DEF Spec

\* The queue never exceeds the channel's capacity, for any number of threads.
THEOREM NeverOverfull == Spec => []CapacityBound
<1>1. IInv => CapacityBound
  BY DEF IInv
<1> QED  BY <1>1, Invariance, PTL

\* front() and pop() are never called on an empty queue.
THEOREM NeverPopsEmpty == Spec => []PopSafe
<1>1. IInv => PopSafe
  BY DEF IInv
<1> QED  BY <1>1, Invariance, PTL

-----------------------------------------------------------------------------
(* Refinement: sends that push or drop, receives that pop, and close are   *)
(* the steps of the bounded queue; every other step is invisible.          *)

\* A step that keeps every producer's counter and whether it is sending
\* keeps the next item.
LEMMA NextItemKept ==
  ASSUME UNCHANGED i, \A p \in Producers : pc'[p] \in Sending <=> pc[p] \in Sending
  PROVE  NextItem' = NextItem
BY DEF NextItem

\* The end of a send disposes of exactly one item.
LEMMA NextItemStep ==
  ASSUME IInv, NEW p \in Producers, NEW from \in Sending, Goto(p, from, "loop"), UNCHANGED i
  PROVE  /\ Fifo!Step(p)
         /\ NextItem[p] = Pred(i[p])
<1>0. p \in Threads
  BY DEF Threads
<1>1. pc[p] = from /\ pc'[p] = "loop" /\ \A u \in Threads : u # p => pc'[u] = pc[u]
  BY <1>0, Moved DEF IInv
<1>2. NextItem[p] = Pred(i[p]) /\ NextItem'[p] = i[p]
  BY <1>1 DEF NextItem, Sending
<1>3. i[p] = Succ(Pred(i[p]))
  BY Counter DEF IInv, TypeOK
<1>4. \A x \in Producers : x # p => NextItem'[x] = NextItem[x]
  BY <1>1 DEF NextItem, Threads
<1>5. NextItem' = [NextItem EXCEPT ![p] = Succ(@)]
  BY <1>2, <1>3, <1>4 DEF NextItem
<1> QED
  BY <1>2, <1>5 DEF Fifo!Step, Succ

\* Each step of the channel is a step of the bounded queue, or invisible.
LEMMA StepSimulation == IInv /\ [Next]_vars => [Fifo!Next]_(Fifo!fifoVars)
<1> SUFFICES ASSUME IInv, [Next]_vars PROVE [Fifo!Next]_(Fifo!fifoVars)
  OBVIOUS
<1> USE DEF Fifo!fifoVars
<1>1. ASSUME NEW p \in Producers, Producer(p) PROVE [Fifo!Next]_(Fifo!fifoVars)
  <2>0. p \in Threads /\ \A x \in Producers : x \in Threads
    BY DEF Threads
  <2>1. CASE ProducerLoop(p)
    <3>1. CASE done
      <4>1. NextItem' = NextItem
        BY <2>0, <2>1, <3>1, NextItemKept DEF ProducerLoop, Goto, Sending, IInv, TypeOK
      <4> QED  BY <2>1, <4>1 DEF ProducerLoop
    <3>2. CASE ~done
      <4>1. /\ pc[p] = "loop" /\ pc'[p] = "lock"
            /\ \A x \in Producers : x # p => pc'[x] = pc[x] /\ i'[x] = i[x]
            /\ i'[p] = Succ(i[p])
        BY <2>0, <2>1, <3>2 DEF ProducerLoop, Goto, IInv, TypeOK
      <4>2. Pred(Succ(i[p])) = i[p]
        BY Counter DEF IInv, TypeOK
      <4>3. NextItem' = NextItem
        BY <4>1, <4>2 DEF NextItem, Sending
      <4> QED  BY <2>1, <4>3 DEF ProducerLoop
    <3> QED  BY <3>1, <3>2
  <2>2. CASE SendLock(p) \/ SendFull(p) \/ SendRelock(p) \/ SendNotFull(p) \/ SendOpen(p)
    <3>1. NextItem' = NextItem
      BY <2>0, <2>2, NextItemKept
      DEF SendLock, SendFull, SendRelock, SendNotFull, SendOpen, Goto, Sending, IInv, TypeOK
    <3> QED  BY <2>2, <3>1 DEF SendLock, SendFull, SendRelock, SendNotFull, SendOpen
  <2>3. CASE SendDrop(p)
    <3>1. Fifo!Step(p)
      BY <2>3, NextItemStep DEF SendDrop, Sending
    <3>2. Fifo!Discard(p)
      BY <2>3, <3>1 DEF SendDrop, Fifo!Discard
    <3> QED  BY <3>2 DEF Fifo!Next
  <2>4. CASE Push(p)
    <3>1. Fifo!Step(p) /\ NextItem[p] = Pred(i[p])
      BY <2>4, NextItemStep DEF Push, Sending
    <3>2. Len(q) < Capacity
      BY <2>4 DEF Push, Goto, IInv, Foresight
    <3>3. Fifo!Put(p)
      BY <2>4, <3>1, <3>2 DEF Push, Item, Fifo!Put
    <3> QED  BY <3>3 DEF Fifo!Next
  <2> QED
    BY <1>1, <2>1, <2>2, <2>3, <2>4 DEF Producer
<1>2. ASSUME NEW c \in Consumers, Consumer(c) PROVE [Fifo!Next]_(Fifo!fifoVars)
  <2>0. c \in Threads /\ \A x \in Producers : x \in Threads /\ x # c
    BY DEF Threads
  <2>1. UNCHANGED i /\ \A x \in Producers : pc'[x] = pc[x]
    BY <1>2, <2>0 DEF Consumer, ConsumerLoop, ReceiveLock, Wait, Woken, WaitOver,
       ReceiveClosed, ReceiveOpen, Pop, PrintItem, PrintNull, Goto, IInv, TypeOK
  <2>2. NextItem' = NextItem
    BY <2>1, NextItemKept
  <2>3. CASE Pop(c)
    <3>1. Fifo!Take(c)
      BY <2>2, <2>3 DEF Pop, Fifo!Take
    <3> QED  BY <3>1 DEF Fifo!Next
  <2>4. CASE ~Pop(c)
    <3>1. UNCHANGED <<done, q, data>>
      BY <1>2, <2>4 DEF Consumer, ConsumerLoop, ReceiveLock, Wait, Woken, WaitOver,
         ReceiveClosed, ReceiveOpen, PrintItem, PrintNull
    <3> QED  BY <2>2, <3>1
  <2> QED  BY <2>3, <2>4
<1>3. ASSUME NEW c \in Consumers, SpuriousWake(c) PROVE [Fifo!Next]_(Fifo!fifoVars)
  BY <1>3 DEF SpuriousWake, NextItem
<1>4. CASE Close
  BY <1>4 DEF Close, NextItem, Fifo!Next, Fifo!Close
<1>5. CASE Join \/ UNCHANGED vars
  BY <1>5 DEF Join, vars, NextItem
<1> QED
  BY <1>1, <1>2, <1>3, <1>4, <1>5 DEF Next, Exited

\* The channel implements the bounded FIFO queue: for any threads and any
\* capacity no item is lost, duplicated or reordered before close().
THEOREM ImplementsBoundedFifo == Spec => ImplementsFifo
<1>1. Init => Fifo!Init
  BY DEF Init, Fifo!Init, NextItem, Sending, Threads
<1> QED
  BY <1>1, Invariance, StepSimulation, PTL DEF Spec, ImplementsFifo, Fifo!Spec
=============================================================================
