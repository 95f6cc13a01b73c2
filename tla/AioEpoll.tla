------------------------------ MODULE AioEpoll ------------------------------
(***************************************************************************)
(* aio/aio_epoll.c: NUM_EVENTS reads are submitted with io_submit, each    *)
(* completion is announced on an eventfd, and the program waits for the    *)
(* eventfd with edge-triggered epoll and reaps completions by the count it *)
(* read from it.                                                           *)
(*                                                                         *)
(* The kernel completes a request in two steps: the event enters the       *)
(* completion ring, and then the eventfd is signalled.  finished_aio is    *)
(* unsigned: it wraps at Width, which stands for 2^64.                     *)
(***************************************************************************)
EXTENDS AioEpollParams

VARIABLES pc,            \* where main is
          i,             \* events reaped
          finished_aio,  \* count read from the eventfd, less what was reaped
          inflight,      \* requests the kernel is working on
          ring,          \* events in the completion ring
          unsignalled,   \* events in the ring whose signal is still to come
          efd,           \* the eventfd's counter
          armed,         \* efd is registered with epoll
          ready          \* efd is on epoll's ready list

vars == <<pc, i, finished_aio, inflight, ring, unsignalled, efd, armed, ready>>
kernelVars == <<inflight, ring, unsignalled, efd, armed, ready>>

Init ==
  /\ pc = "submit"
  /\ i = 0
  /\ finished_aio = 0
  /\ inflight = 0
  /\ ring = 0
  /\ unsignalled = 0
  /\ efd = 0
  /\ armed = FALSE
  /\ ready = FALSE

-----------------------------------------------------------------------------
(* The kernel *)

\* aio_complete: the event enters the ring ...
Post ==
  /\ inflight > 0
  /\ inflight' = inflight - 1
  /\ ring' = ring + 1
  /\ unsignalled' = unsignalled + 1
  /\ UNCHANGED <<pc, i, finished_aio, efd, armed, ready>>

\* ... and then the eventfd is signalled, which is an edge for epoll
Signal ==
  /\ unsignalled > 0
  /\ unsignalled' = unsignalled - 1
  /\ efd' = efd + 1
  /\ ready' = armed
  /\ UNCHANGED <<pc, i, finished_aio, inflight, ring, armed>>

-----------------------------------------------------------------------------
(* main *)

AllReaped == i >= NUM_EVENTS

\* io_submit accepts n of the requests; anything but all of them is an error
Submit ==
  /\ pc = "submit"
  /\ \E n \in 0 .. NUM_EVENTS :
       /\ inflight' = n
       /\ pc' = IF n = NUM_EVENTS THEN "add" ELSE "failed"
  /\ UNCHANGED <<i, finished_aio, ring, unsignalled, efd, armed, ready>>

\* epoll_ctl(EPOLL_CTL_ADD): a counter already above zero is reported
EpollAdd ==
  /\ pc = "add" /\ pc' = "wait"
  /\ armed' = TRUE
  /\ ready' = (efd > 0)
  /\ UNCHANGED <<i, finished_aio, inflight, ring, unsignalled, efd>>

\* epoll_create, epoll_ctl or epoll_wait fails
CallFails ==
  /\ pc = "add" \/ (pc = "wait" /\ ~AllReaped)
  /\ pc' = "failed"
  /\ UNCHANGED <<i, finished_aio, kernelVars>>

\* epoll_wait takes efd off the ready list; it returns it if it is readable
EpollWait ==
  /\ pc = "wait" /\ ~AllReaped
  /\ ready
  /\ ready' = FALSE
  /\ pc' = IF efd > 0 THEN "read" ELSE "wait"
  /\ UNCHANGED <<i, finished_aio, inflight, ring, unsignalled, efd, armed>>

\* read(efd): the counter is fetched and cleared; a zero counter is EAGAIN
ReadEfd ==
  /\ pc = "read"
  /\ IF efd > 0 THEN pc' = "reap" /\ finished_aio' = efd
                ELSE pc' = "failed" /\ UNCHANGED finished_aio
  /\ efd' = 0
  /\ UNCHANGED <<i, inflight, ring, unsignalled, armed, ready>>

\* mutation: one event is counted per call of io_getevents
ReapCountsOne ==
  /\ pc = "reap" /\ finished_aio > 0 /\ ring > 0
  /\ i' = i + 1
  /\ finished_aio' = finished_aio - 1
  /\ ring' = 0
  /\ UNCHANGED <<pc, inflight, unsignalled, efd, armed, ready>>

\* io_getevents takes whatever the ring holds, announced or not; with an
\* empty ring it returns 0 and the loop turns without effect
Reap ==
  /\ pc = "reap" /\ finished_aio > 0 /\ ring > 0
  /\ i' = i + ring
  /\ finished_aio' = (finished_aio - ring) % Width
  /\ ring' = 0
  /\ UNCHANGED <<pc, inflight, unsignalled, efd, armed, ready>>

ReapDone ==
  /\ pc = "reap" /\ ~(finished_aio > 0)
  /\ pc' = "wait"
  /\ UNCHANGED <<i, finished_aio, kernelVars>>

Return ==
  /\ pc = "wait" /\ AllReaped
  /\ pc' = "done"
  /\ UNCHANGED <<i, finished_aio, kernelVars>>

Stopped == pc \in {"done", "failed"}

\* the process is gone, or the inner loop turns with an empty ring
Idle ==
  /\ Stopped \/ (pc = "reap" /\ finished_aio > 0 /\ ring = 0)
  /\ UNCHANGED vars

Main == \/ Submit \/ EpollAdd \/ CallFails \/ EpollWait \/ ReadEfd
        \/ Reap \/ ReapDone \/ Return

Next == Main \/ Post \/ Signal \/ Idle

Fairness == /\ WF_vars(Submit) /\ WF_vars(EpollAdd) /\ WF_vars(EpollWait)
            /\ WF_vars(ReadEfd) /\ WF_vars(Reap) /\ WF_vars(ReapDone)
            /\ WF_vars(Return) /\ WF_vars(Post) /\ WF_vars(Signal)

Spec == Init /\ [][Next]_vars /\ Fairness

-----------------------------------------------------------------------------
(* What is checked *)

\* Every variable has its type; no event is counted twice.
TypeOK ==
  /\ pc \in {"submit", "add", "wait", "read", "reap", "done", "failed"}
  /\ i \in 0 .. NUM_EVENTS
  /\ finished_aio \in 0 .. Width - 1
  /\ inflight \in 0 .. NUM_EVENTS
  /\ ring \in 0 .. NUM_EVENTS
  /\ unsignalled \in 0 .. NUM_EVENTS
  /\ efd \in 0 .. NUM_EVENTS
  /\ armed \in BOOLEAN /\ ready \in BOOLEAN

\* Once all reads are submitted each is in flight, in the ring or reaped:
\* none is lost or reaped twice.
EventsConserved ==
  pc \notin {"submit", "failed"} => i + ring + inflight = NUM_EVENTS

\* Events have been reaped that the count read from the eventfd did not
\* cover, so finished_aio has wrapped and the inner loop cannot end.
Overtaken == efd + unsignalled > ring

\* finished_aio plus what the eventfd has still to deliver is the number of
\* events in the ring -- exactly, or off by one wrap of the counter after
\* io_getevents has returned more events than had been announced.
CountExact ==
  finished_aio + efd + unsignalled = IF Overtaken THEN ring + Width ELSE ring

\* An announced completion is never missed although epoll is edge-triggered
\* and efd is registered only after the reads were submitted.
NoLostEdge == armed /\ efd > 0 /\ pc # "read" => ready

\* The nonblocking read of the eventfd never finds it empty.
ReadNeverEmpty == pc = "read" => efd > 0

\* What makes these inductive: the count is in use only in the inner loop,
\* no more is announced than has completed, and before registration nothing
\* was reaped.
Phases ==
  /\ pc \notin {"reap", "failed"} => finished_aio = 0
  /\ pc = "submit" => i + ring + inflight = 0
  /\ pc \in {"submit", "add"} => ~armed
  /\ i + ring + inflight <= NUM_EVENTS
  /\ efd + unsignalled <= i + ring

\* main returns, unless a reap overtook the eventfd -- and then never.
EndsUnlessOvertaken == <>[](Stopped \/ Overtaken)

\* Once overtaken, the inner loop never ends.
OvertakenForEver == [][Overtaken /\ pc = "reap" => pc' = "reap"]_vars
=============================================================================
