---------------------------- MODULE BoundedFifo ----------------------------
(***************************************************************************)
(* What the channel of chan1/chan.cpp promises its users: a bounded queue  *)
(* that hands out every item once, in the order each producer numbered     *)
(* them, and that never discards one before it is closed.  Closing does    *)
(* not stop a send that has already looked at the flag.                    *)
(***************************************************************************)
EXTENDS Integers, Sequences

CONSTANTS Producers, Consumers, Capacity, ItemRange, Null

VARIABLES closed,   \* the channel has been closed
          queue,    \* items sent and not yet received
          next,     \* the number of the next item of each producer
          got       \* the last item each consumer received

fifoVars == <<closed, queue, next, got>>

Init ==
  /\ closed = FALSE
  /\ queue = <<>>
  /\ next = [p \in Producers |-> 0]
  /\ got = [c \in Consumers |-> Null]

Step(p) == next' = [next EXCEPT ![p] = IF @ = ItemRange - 1 THEN 0 ELSE @ + 1]

Put(p) ==
  /\ Len(queue) < Capacity
  /\ queue' = Append(queue, <<p, next[p]>>)
  /\ Step(p)
  /\ UNCHANGED <<closed, got>>

Discard(p) ==
  /\ closed
  /\ Step(p)
  /\ UNCHANGED <<closed, queue, got>>

Take(c) ==
  /\ queue # <<>>
  /\ got' = [got EXCEPT ![c] = Head(queue)]
  /\ queue' = Tail(queue)
  /\ UNCHANGED <<closed, next>>

Close ==
  /\ closed' = TRUE
  /\ UNCHANGED <<queue, next, got>>

Next == \/ \E p \in Producers : Put(p) \/ Discard(p)
        \/ \E c \in Consumers : Take(c)
        \/ Close

Spec == Init /\ [][Next]_fifoVars
=============================================================================
