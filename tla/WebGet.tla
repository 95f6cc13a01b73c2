------------------------------- MODULE WebGet -------------------------------
(***************************************************************************)
(* The clients of unpv13e that fetch a Web page and then its files, at     *)
(* most maxnconn at a time: nonblock/web.c with nonblocking connects and   *)
(* select, threads/web01.c with a thread per file and thr_join of any      *)
(* thread, threads/web02.c polling a counter of the threads that are done, *)
(* threads/web03.c waiting for it with a condition variable.               *)
(***************************************************************************)
EXTENDS Integers, FiniteSets

CONSTANTS Progs,      \* of "web", "web01", "web02", "web03"
          nfiles,
          maxnconn,
          MaxData     \* reads of a file before its end

VARIABLES prog,
          flags,      \* f_flags of each file
          conn,       \* each connection: "none", "pending", "up", "failed", "closed"
          left,       \* reads still to come from each server
          thr,        \* where the thread of each file is
          m,          \* main: pc, i, nconn, nlefttoconn, nlefttoread, rs
          mutex,      \* the holder of ndone_mutex, 0 when it is free
          ndone

vars == <<prog, flags, conn, left, thr, m, mutex, ndone>>

File == 1..nfiles
MAIN == nfiles + 1
Mutexed == prog \in {"web02", "web03"}

Go(pc) == m' = [m EXCEPT !.pc = pc]

\* home_page: a connection of its own, read to its end
home_page ==
  /\ m.pc = "home_page"
  /\ Go("loop")
  /\ UNCHANGED <<prog, flags, conn, left, thr, mutex, ndone>>

\* mutation: one connection too many
LoopOneMore(wait) ==
  /\ m.pc = "loop"
  /\ Go(IF m.nlefttoread = 0 THEN "exit"
        ELSE IF m.nconn <= maxnconn /\ m.nlefttoconn > 0 THEN "start" ELSE wait)
  /\ UNCHANGED <<prog, flags, conn, left, thr, mutex, ndone>>

\* while (nlefttoread > 0), and the test of the inner loop
Loop(wait) ==
  /\ m.pc = "loop"
  /\ Go(IF m.nlefttoread = 0 THEN "exit"
        ELSE IF m.nconn < maxnconn /\ m.nlefttoconn > 0 THEN "start" ELSE wait)
  /\ UNCHANGED <<prog, flags, conn, left, thr, mutex, ndone>>

\* the first file of which nothing has been done
Unread == {i \in File : flags[i] = "0"}
First == CHOOSE i \in Unread : \A j \in Unread : i <= j

Started(pc) == [m EXCEPT !.pc = pc, !.nconn = @ + 1, !.nlefttoconn = @ - 1]

-----------------------------------------------------------------------------
(* nonblock/web.c *)

\* Writen of the GET command; on a connection that failed it ends the process
write_get_cmd(i) ==
  IF conn[i] = "failed" THEN Go("error") /\ UNCHANGED flags
  ELSE flags' = [flags EXCEPT ![i] = "F_READING"]

\* a connect that is done at once, or EINPROGRESS, or an error
start_connect ==
  LET i == First IN
  /\ m.pc = "start" /\ prog = "web"
  /\ \/ /\ conn' = [conn EXCEPT ![i] = "up"]
        /\ flags' = [flags EXCEPT ![i] = "F_READING"]
        /\ m' = Started("loop")
     \/ /\ conn' = [conn EXCEPT ![i] = "pending"]
        /\ flags' = [flags EXCEPT ![i] = "F_CONNECTING"]
        /\ m' = Started("loop")
     \/ Go("error") /\ UNCHANGED <<flags, conn>>
  /\ UNCHANGED <<prog, left, thr, mutex, ndone>>

\* a connection that is set up or failed, or has something to read
Ready(i) ==
  \/ flags[i] = "F_CONNECTING" /\ conn[i] \in {"up", "failed"}
  \/ flags[i] = "F_READING"

Select ==
  /\ m.pc = "select" /\ (\E i \in File : Ready(i))
  /\ \E rs \in SUBSET {i \in File : Ready(i)} :
       rs # {} /\ m' = [m EXCEPT !.pc = "scan", !.i = 1, !.rs = rs]
  /\ UNCHANGED <<prog, flags, conn, left, thr, mutex, ndone>>

\* the loop over file[] after select
Scan ==
  LET i == m.i IN
  /\ m.pc = "scan"
  /\ \/ /\ i > nfiles \/ i \notin m.rs
        /\ m' = IF i > nfiles THEN [m EXCEPT !.pc = "loop"] ELSE [m EXCEPT !.i = @ + 1]
        /\ UNCHANGED <<flags, conn, left>>
     \/ /\ i \in m.rs /\ flags[i] = "F_CONNECTING" /\ write_get_cmd(i)
        /\ conn[i] # "failed" => m' = [m EXCEPT !.i = @ + 1]
        /\ UNCHANGED <<conn, left>>
     \/ /\ i \in m.rs /\ flags[i] = "F_READING" /\ left[i] > 0
        /\ left' = [left EXCEPT ![i] = @ - 1]
        /\ m' = [m EXCEPT !.i = @ + 1]
        /\ UNCHANGED <<flags, conn>>
     \/ /\ i \in m.rs /\ flags[i] = "F_READING" /\ left[i] = 0
        /\ flags' = [flags EXCEPT ![i] = "F_DONE"]
        /\ conn' = [conn EXCEPT ![i] = "closed"]
        /\ m' = [m EXCEPT !.i = @ + 1, !.nconn = @ - 1, !.nlefttoread = @ - 1]
        /\ UNCHANGED left
  /\ UNCHANGED <<prog, thr, mutex, ndone>>

web == prog = "web" /\ (home_page \/ Loop("select") \/ start_connect \/ Select \/ Scan)

\* the network answers a connect that is in progress
Answer(i) ==
  /\ conn[i] = "pending"
  /\ conn' \in {[conn EXCEPT ![i] = "up"], [conn EXCEPT ![i] = "failed"]}
  /\ UNCHANGED <<prog, flags, left, thr, m, mutex, ndone>>

-----------------------------------------------------------------------------
(* The threads *)

Create(i) == thr' = [thr EXCEPT ![i] = "connect"]

\* web01 and web03 set F_CONNECTING and create the thread; web02 creates it
\* first
create01 ==
  /\ m.pc = "start" /\ flags' = [flags EXCEPT ![First] = "F_CONNECTING"]
  /\ Create(First) /\ m' = Started("loop")
  /\ UNCHANGED <<prog, conn, left, mutex, ndone>>
create02 ==
  \/ /\ m.pc = "start" /\ Create(First)
     /\ m' = [m EXCEPT !.pc = "flag", !.i = First]
     /\ UNCHANGED <<prog, flags, conn, left, mutex, ndone>>
  \/ /\ m.pc = "flag" /\ flags' = [flags EXCEPT ![m.i] = "F_CONNECTING"]
     /\ m' = Started("loop")
     /\ UNCHANGED <<prog, conn, left, thr, mutex, ndone>>

At(i, pc) == thr[i] = pc
Next1(i, pc) == thr' = [thr EXCEPT ![i] = pc]

\* mutation: nobody is signalled
SignalsNobody == m' = m

\* pthread_cond_signal: main, if it waits for the condition
Signals == m' = [m EXCEPT !.pc = IF @ = "asleep" THEN "lock" ELSE @]

\* do_get_read: Tcp_connect, write_get_cmd, Read to the end, Close, F_DONE;
\* with a counter, ndone++ under the mutex, and web03's signal to main
do_get_read(i) ==
  \/ /\ At(i, "connect") /\ Next1(i, "read")
     /\ flags' = [flags EXCEPT ![i] = "F_READING"] /\ conn' = [conn EXCEPT ![i] = "up"]
     /\ UNCHANGED <<prog, left, m, mutex, ndone>>
  \/ /\ At(i, "read") /\ left[i] > 0
     /\ left' = [left EXCEPT ![i] = @ - 1]
     /\ UNCHANGED <<prog, flags, conn, thr, m, mutex, ndone>>
  \/ /\ At(i, "read") /\ left[i] = 0 /\ Next1(i, IF Mutexed THEN "lock" ELSE "ended")
     /\ flags' = [flags EXCEPT ![i] = "F_DONE"] /\ conn' = [conn EXCEPT ![i] = "closed"]
     /\ UNCHANGED <<prog, left, m, mutex, ndone>>
  \/ /\ At(i, "lock") /\ mutex = 0 /\ Next1(i, "unlock")
     /\ mutex' = i /\ ndone' = ndone + 1
     /\ Signals
     /\ UNCHANGED <<prog, flags, conn, left>>
  \/ /\ At(i, "unlock") /\ Next1(i, "ended") /\ mutex' = 0
     /\ UNCHANGED <<prog, flags, conn, left, m, ndone>>

\* thr_join(0): wait for any thread
thr_join ==
  /\ m.pc = "join"
  /\ \E i \in File : At(i, "ended") /\ Next1(i, "joined")
  /\ m' = [m EXCEPT !.pc = "loop", !.nconn = @ - 1, !.nlefttoread = @ - 1]
  /\ UNCHANGED <<prog, flags, conn, left, mutex, ndone>>

\* pthread_mutex_lock, and what each does with ndone: web02 looks for threads
\* when there are some, web03 waits for one
Lock ==
  /\ m.pc = "lock" /\ mutex = 0
  /\ IF ndone > 0 THEN mutex' = MAIN /\ m' = [m EXCEPT !.pc = "find", !.i = 1]
     ELSE UNCHANGED mutex /\ Go(IF prog = "web02" THEN "loop" ELSE "asleep")
  /\ UNCHANGED <<prog, flags, conn, left, thr, ndone>>

\* the loop over file[] under the mutex: pthread_join of each F_DONE
JoinDone ==
  LET i == m.i IN
  /\ m.pc = "find"
  /\ \/ /\ i <= nfiles /\ flags[i] # "F_DONE"
        /\ m' = [m EXCEPT !.i = @ + 1] /\ UNCHANGED <<flags, thr, mutex, ndone>>
     \/ /\ i <= nfiles /\ flags[i] = "F_DONE" /\ At(i, "ended") /\ Next1(i, "joined")
        /\ flags' = [flags EXCEPT ![i] = "F_JOINED"] /\ ndone' = ndone - 1
        /\ m' = [m EXCEPT !.i = @ + 1, !.nconn = @ - 1, !.nlefttoread = @ - 1]
        /\ UNCHANGED mutex
     \/ i > nfiles /\ mutex' = 0 /\ Go("loop") /\ UNCHANGED <<flags, thr, ndone>>
  /\ UNCHANGED <<prog, conn, left>>

web01 == prog = "web01" /\ (home_page \/ Loop("join") \/ create01 \/ thr_join)
web02 == prog = "web02" /\ (home_page \/ Loop("lock") \/ create02 \/ Lock \/ JoinDone)
web03 == prog = "web03" /\ (home_page \/ Loop("lock") \/ create01 \/ Lock \/ JoinDone)

-----------------------------------------------------------------------------
Init ==
  /\ prog \in Progs
  /\ flags = [i \in File |-> "0"] /\ conn = [i \in File |-> "none"]
  /\ left \in [File -> 0..MaxData] /\ thr = [i \in File |-> "none"]
  /\ m = [pc |-> "home_page", i |-> 1, nconn |-> 0, nlefttoconn |-> nfiles, nlefttoread |-> nfiles,
          rs |-> {}]
  /\ mutex = 0 /\ ndone = 0

Running == m.pc \notin {"exit", "error"}
Thread(i) == Running /\ do_get_read(i)

Next == web \/ web01 \/ web02 \/ web03 \/ \E i \in File : Thread(i) \/ Answer(i)

Fairness ==
  /\ WF_vars(web \/ web01 \/ web02 \/ web03)
  /\ \A i \in File : WF_vars(Answer(i)) /\ SF_vars(Thread(i))

Spec == Init /\ [][Next]_vars /\ Fairness

-----------------------------------------------------------------------------
\* The counters say what the files' flags and threads do: no more than
\* maxnconn connections, one for each file in between, and an exit only when
\* all files have been read.
CountersExact ==
  /\ Cardinality({i \in File : conn[i] \in {"pending", "up"}}) <= maxnconn
  /\ m.nlefttoconn - m.nlefttoread + m.nconn = 0
  /\ m.pc = "exit" => \A i \in File : left[i] = 0 /\ conn[i] = "closed"

\* main in pthread_join, with the mutex, of a thread that wants the mutex
JoinsUnderLock == m.pc = "find" /\ m.i <= nfiles /\ flags[m.i] = "F_DONE" /\ thr[m.i] = "lock"

\* web02 has overwritten the flags of a thread that was faster
Overwritten == \E i \in File : flags[i] = "F_CONNECTING" /\ thr[i] \in {"read", "lock", "unlock", "ended"}

\* Every file is read and the client exits, or a connection failed, or one of
\* the two races above was lost.
WebEnds == <>(~Running \/ []JoinsUnderLock \/ []Overwritten)
=============================================================================
