------------------------------ MODULE Channel ------------------------------
(***************************************************************************)
(* chan1/chan.cpp: a bounded channel built from a mutex, one condition     *)
(* variable and an atomic `done' flag; producer and consumer threads that  *)
(* loop on it; and main, which closes the channel and joins them.          *)
(*                                                                         *)
(* The flag is read outside the mutex and twice inside each operation, so  *)
(* every read of it is a step of its own: close() may fall between any two *)
(* of them.  notify_one and unlock happen together: Cv_Guard is destroyed  *)
(* just before the lock, and a woken thread needs the mutex to move.       *)
(*                                                                         *)
(* The counter `i' of a producer is an int; it is kept modulo ItemRange so *)
(* that producers run for ever in a finite state space.                    *)
(***************************************************************************)
EXTENDS Integers, Sequences, FiniteSets

CONSTANTS Producers, Consumers,   \* the threads
          Capacity,               \* Channel(capacity)
          ItemRange,              \* item numbers are 0 .. ItemRange-1
          NoThread, Null          \* the free mutex; the empty unique_ptr

ASSUME CapacityAssumption == Capacity \in Nat \ {0}     \* assert(capacity > 0)
ASSUME ItemRangeAssumption == ItemRange \in Nat \ {0}
ASSUME ThreadsAssumption ==
  /\ Producers \cap Consumers = {}
  /\ NoThread \notin Producers \cup Consumers
ASSUME NullAssumption == Null \notin Producers \X (0 .. ItemRange - 1)

Threads == Producers \cup Consumers
Items == Producers \X (0 .. ItemRange - 1)    \* make_unique<int>(i++) of a producer

\* i++ and its inverse, modulo ItemRange
Succ(n) == IF n = ItemRange - 1 THEN 0 ELSE n + 1
Pred(n) == IF n = 0 THEN ItemRange - 1 ELSE n - 1

VARIABLES done,      \* atomic_flag done
          m,         \* holder of the mutex
          waiting,   \* consumers blocked in q_not_empty.wait
          q,         \* queue<unique_ptr<T>> q
          pc,        \* where each thread is
          i,         \* the producers' counters
          data,      \* the consumers' unique_ptr
          main       \* where main is

vars == <<done, m, waiting, q, pc, i, data, main>>

ProducerPCs == {"loop", "lock", "full?", "sleep", "done?", "push", "exit"}
ConsumerPCs == {"loop", "lock", "empty?", "wait", "done?", "pop", "print", "exit"}

Init ==
  /\ done = FALSE
  /\ m = NoThread
  /\ waiting = {}
  /\ q = <<>>
  /\ pc = [t \in Threads |-> "loop"]
  /\ i = [p \in Producers |-> 0]
  /\ data = [c \in Consumers |-> Null]
  /\ main = "sleep"

Alive == main # "crashed"      \* the threads run until one of them crashes

Goto(t, from, to) == pc[t] = from /\ pc' = [pc EXCEPT ![t] = to]

Acquire(t) == m = NoThread /\ m' = t
Release(t) == m' = NoThread

\* mutation: the guard of operator<< does not notify
NotifyNobody == UNCHANGED waiting

\* ~Cv_Guard: notify_one wakes some waiting thread, if there is one
NotifyOne ==
  \/ waiting = {} /\ UNCHANGED waiting
  \/ \E c \in waiting : waiting' = waiting \ {c}

-----------------------------------------------------------------------------
(* producer() and operator<< *)

\* while (!chx.isDone()), and the evaluation of make_unique<int>(i++)
ProducerLoop(p) ==
  /\ IF done THEN Goto(p, "loop", "exit") /\ UNCHANGED i
             ELSE /\ Goto(p, "loop", "lock")
                  /\ i' = [i EXCEPT ![p] = Succ(@)]
  /\ UNCHANGED <<done, m, waiting, q, data, main>>

\* mutation: ++i instead of i++
ItemPreIncrement(p) == <<p, i[p]>>

\* the item in hand: the counter has already moved on
Item(p) == <<p, Pred(i[p])>>

SendLock(p) ==
  /\ Acquire(p)
  /\ Goto(p, "lock", "full?")
  /\ UNCHANGED <<done, waiting, q, i, data, main>>

Full == Len(q) >= Capacity

\* mutation: the sleeping loop does not look at the flag
FullOrClosed == Full

\* !ch.isDone() && ch.size() >= ch.capacity
KeepsSleeping == ~done /\ Full

SendFull(p) ==
  /\ KeepsSleeping
  /\ Goto(p, "full?", "sleep")
  /\ Release(p)
  /\ UNCHANGED <<done, waiting, q, i, data, main>>

\* sleep_for, then lock again
SendRelock(p) ==
  /\ Acquire(p)
  /\ Goto(p, "sleep", "full?")
  /\ UNCHANGED <<done, waiting, q, i, data, main>>

SendNotFull(p) ==
  /\ ~KeepsSleeping
  /\ Goto(p, "full?", "done?")
  /\ UNCHANGED <<done, m, waiting, q, i, data, main>>

\* if (ch.isDone()) return: the item is dropped; leaving the scope notifies and unlocks
SendDrop(p) ==
  /\ done
  /\ Goto(p, "done?", "loop")
  /\ NotifyOne
  /\ Release(p)
  /\ UNCHANGED <<done, q, i, data, main>>

SendOpen(p) ==
  /\ ~done
  /\ Goto(p, "done?", "push")
  /\ UNCHANGED <<done, m, waiting, q, i, data, main>>

Push(p) ==
  /\ Goto(p, "push", "loop")
  /\ q' = Append(q, Item(p))
  /\ NotifyOne
  /\ Release(p)
  /\ UNCHANGED <<done, i, data, main>>

-----------------------------------------------------------------------------
(* consumer() and operator>> *)

ConsumerLoop(c) ==
  /\ IF done THEN Goto(c, "loop", "exit") ELSE Goto(c, "loop", "lock")
  /\ UNCHANGED <<done, m, waiting, q, i, data, main>>

ReceiveLock(c) ==
  /\ Acquire(c)
  /\ Goto(c, "lock", "empty?")
  /\ UNCHANGED <<done, waiting, q, i, data, main>>

\* the predicate of q_not_empty.wait
MustWait == q = <<>> /\ ~done

\* the mutex is released and the thread blocked in one step
Wait(c) ==
  /\ MustWait
  /\ Goto(c, "empty?", "wait")
  /\ waiting' = waiting \cup {c}
  /\ Release(c)
  /\ UNCHANGED <<done, q, i, data, main>>

\* condition variables may wake a thread nobody notified
SpuriousWake(c) ==
  /\ Alive
  /\ c \in waiting
  /\ waiting' = waiting \ {c}
  /\ UNCHANGED <<done, m, q, pc, i, data, main>>

\* mutation: wait(lock) without a predicate
WokenGoesOn(c) ==
  /\ c \notin waiting
  /\ Acquire(c)
  /\ Goto(c, "wait", "done?")
  /\ UNCHANGED <<done, waiting, q, i, data, main>>

\* a woken thread takes the mutex and evaluates the predicate again
Woken(c) ==
  /\ c \notin waiting
  /\ Acquire(c)
  /\ Goto(c, "wait", "empty?")
  /\ UNCHANGED <<done, waiting, q, i, data, main>>

WaitOver(c) ==
  /\ ~MustWait
  /\ Goto(c, "empty?", "done?")
  /\ UNCHANGED <<done, m, waiting, q, i, data, main>>

\* if (ch.isDone()) return: data is left as it was
ReceiveClosed(c) ==
  /\ done
  /\ Goto(c, "done?", "print")
  /\ Release(c)
  /\ UNCHANGED <<done, waiting, q, i, data, main>>

ReceiveOpen(c) ==
  /\ ~done
  /\ Goto(c, "done?", "pop")
  /\ UNCHANGED <<done, m, waiting, q, i, data, main>>

\* front() and pop(); on an empty queue both are undefined
Pop(c) ==
  /\ q # <<>>
  /\ Goto(c, "pop", "print")
  /\ data' = [data EXCEPT ![c] = Head(q)]
  /\ q' = Tail(q)
  /\ Release(c)
  /\ UNCHANGED <<done, waiting, i, main>>

\* cout << *data
PrintItem(c) ==
  /\ data[c] # Null
  /\ Goto(c, "print", "loop")
  /\ UNCHANGED <<done, m, waiting, q, i, data, main>>

\* *data of a consumer that has never received anything: a receive from the
\* closed channel left its unique_ptr empty, and the process dies of the load
PrintNull(c) ==
  /\ pc[c] = "print" /\ data[c] = Null
  /\ main' = "crashed"
  /\ UNCHANGED <<done, m, waiting, q, pc, i, data>>

-----------------------------------------------------------------------------
(* main: sleep, close, join the producers, join the consumers *)

Close ==
  /\ main = "sleep" /\ main' = "join"
  /\ done' = TRUE
  /\ UNCHANGED <<m, waiting, q, pc, i, data>>

Join ==
  /\ main = "join" /\ main' = "exit"
  /\ \A t \in Threads : pc[t] = "exit"
  /\ UNCHANGED <<done, m, waiting, q, pc, i, data>>

Exited == main \in {"exit", "crashed"} /\ UNCHANGED vars

Producer(p) ==
  /\ Alive
  /\ \/ ProducerLoop(p) \/ SendLock(p) \/ SendFull(p) \/ SendRelock(p)
     \/ SendNotFull(p) \/ SendDrop(p) \/ SendOpen(p) \/ Push(p)

Consumer(c) ==
  /\ Alive
  /\ \/ ConsumerLoop(c) \/ ReceiveLock(c) \/ Wait(c) \/ Woken(c) \/ WaitOver(c)
     \/ ReceiveClosed(c) \/ ReceiveOpen(c) \/ Pop(c) \/ PrintItem(c) \/ PrintNull(c)

Next ==
  \/ \E p \in Producers : Producer(p)
  \/ \E c \in Consumers : Consumer(c) \/ SpuriousWake(c)
  \/ Close \/ Join \/ Exited

Fairness == /\ \A p \in Producers : WF_vars(Producer(p))
            /\ \A c \in Consumers : WF_vars(Consumer(c))
            /\ WF_vars(Close) /\ WF_vars(Join)

Spec == Init /\ [][Next]_vars /\ Fairness

-----------------------------------------------------------------------------
(* What is checked *)

Sending == {"lock", "full?", "sleep", "done?", "push"}

\* Every variable has its type; the waiting threads are exactly consumers
\* that are inside wait().
TypeOK ==
  /\ done \in BOOLEAN
  /\ m \in Threads \cup {NoThread}
  /\ waiting \in SUBSET Consumers
  /\ q \in Seq(Items)
  /\ pc \in [Threads -> ProducerPCs \cup ConsumerPCs]
  /\ \A p \in Producers : pc[p] \in ProducerPCs
  /\ \A c \in Consumers : pc[c] \in ConsumerPCs /\ (c \in waiting => pc[c] = "wait")
  /\ i \in [Producers -> 0 .. ItemRange - 1]
  /\ data \in [Consumers -> Items \cup {Null}]
  /\ main \in {"sleep", "join", "exit", "crashed"}

\* What makes the bounds inductive: the mutex is held wherever the code
\* relies on it, and what a thread saw under it still holds (or the channel
\* has been closed) when it acts.
HoldsMutex ==
  /\ \A p \in Producers : pc[p] \in {"full?", "done?", "push"} => m = p
  /\ \A c \in Consumers : pc[c] \in {"empty?", "done?", "pop"} => m = c
Foresight ==
  /\ \A p \in Producers : /\ pc[p] = "done?" => done \/ Len(q) < Capacity
                          /\ pc[p] = "push" => Len(q) < Capacity
  /\ \A c \in Consumers : pc[c] = "done?" => done \/ q # <<>>

\* The queue never holds more than `capacity' items, although operator<<
\* leaves its loop on a full queue once the channel is closed.
CapacityBound == Len(q) <= Capacity

\* operator>> never calls front()/pop() on an empty queue, although the
\* predicate it waited for and the flag it tests next are read separately.
PopSafe == \A c \in Consumers : pc[c] = "pop" => q # <<>>

\* the number of the next item a producer has not yet disposed of: while a
\* send is running that is the item in hand, which the counter has passed
NextItem == [p \in Producers |-> IF pc[p] \in Sending THEN Pred(i[p]) ELSE i[p]]

\* the channel seen as a bounded queue
Fifo == INSTANCE BoundedFifo WITH
          closed <- done, queue <- q, got <- data, next <- NextItem

\* The channel implements the bounded queue: nothing is lost, duplicated or
\* reordered between a producer's counter and the consumers, and nothing is
\* discarded before close().
ImplementsFifo == Fifo!Spec

\* After close() every producer leaves its loop, even from a full channel
\* that nobody empties any more; only the crash of a consumer that received
\* nothing before close() (PrintNull) can come first.
ProducersStop == done ~> (~Alive \/ \A p \in Producers : pc[p] = "exit")

\* A consumer that has received an item before
Served(c) == data[c] # Null

\* A send still running when the channel is closed gets a consumer out: it
\* notifies one on its way, who sees the flag, prints its last item once more
\* and exits, or, if it never received one, takes the process down.  (close()
\* itself notifies nobody: consumers that no such send wakes stay asleep, and
\* main's join with them.)  Where every consumer has been served nobody crashes.
LastSendWakes ==
  /\ (done /\ \E p \in Producers : pc[p] \in Sending)
       ~> (~Alive \/ \E c \in Consumers : pc[c] = "exit")
  /\ []((\A c \in Consumers : Served(c)) => []Alive)
=============================================================================
