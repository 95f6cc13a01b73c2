------------------------------ MODULE TcpServ ------------------------------
(***************************************************************************)
(* The TCP server designs of unpv13e, each against the same few clients:   *)
(* iterative (server/serv00), a process per client (server/serv01,         *)
(* tcpcliserv/tcpserv01..04, 08 and 09, unixdomain/unixstrserv01 and 02),  *)
(* a pool of processes that share the listening socket (serv02..04) or are *)
(* handed connections by their parent (serv05), a thread per client        *)
(* (serv06, threads/tcpserv01 and 02), a pool of threads (serv07..09), and *)
(* one process with select or poll (tcpcliserv/tcpservselect01,            *)
(* tcpservpoll01, nonblock/tcpservselect03).                               *)
(*                                                                         *)
(* A connection is <<client, number>>, and so is the process or thread     *)
(* made for it; <<"w", i>> is member i of a pool.  A request is one line   *)
(* <<connection, i>>; i = 0 is a line without its newline.  A descriptor   *)
(* is the set of those who hold the connection open.                       *)
(***************************************************************************)
EXTENDS Integers, Sequences, FiniteSets, SequencesExt

CONSTANTS Mixes,    \* [prog, kinds]: a server and the program of each client
          NPool,    \* members of a pool
          NSlots,   \* FD_SETSIZE, OPEN_MAX: entries of client[]
          MAXNCLI   \* entries of serv08's clifd[]

VARIABLES prog,   \* the server
          cl,     \* each client: its program, where, on which connection, replies read
          lq,     \* connections that accept has not returned yet
          sock,   \* each connection: unread requests, FIN, RST, holders at the server
          w,      \* the server's processes or threads: where, connection, request
          sv      \* main, and what the server's tasks share

vars == <<prog, cl, lq, sock, w, sv>>

Conns(c) == {<<c, 0>>, <<c, 1>>}
Main == <<"main", 0>>
None == <<"none", 0>>
Pool == {<<"w", i>> : i \in 1..NPool}
Listen == <<"listen", 0>>

\* main's own fields: where it is, its descriptor, the request it holds
Move(pc, fd) == [sv EXCEPT !.pc = pc, !.fd = fd]

Hold(k, t) == [sock EXCEPT ![k].by = @ \cup {t}]
Drop(k, t) == [sock EXCEPT ![k].by = @ \ {t}]

-----------------------------------------------------------------------------
(* The clients *)

Set(c, pc) == cl' = [cl EXCEPT ![c].pc = pc]

Connect(c) ==
  /\ cl[c].pc = "start" /\ sv.up
  /\ Set(c, "connected")
  /\ lq' = Append(lq, <<c, cl[c].n>>)
  /\ UNCHANGED <<prog, sock, w, sv>>

\* the server's side is closed, or was never accepted by a server that is gone
Lost(k) ==
  \/ sock[k].by = {} /\ sock[k].accepted
  \/ ~sv.up /\ ~sock[k].accepted

Refused(c) ==
  /\ cl[c].pc = "start" /\ ~sv.up
  /\ Set(c, "failed")
  /\ UNCHANGED <<prog, lq, sock, w, sv>>

\* write() of requests, and the shutdown that may follow
SendTo(c, lines, fin) ==
  LET k == <<c, cl[c].n>> IN
  /\ Set(c, "sent")
  /\ sock' = [sock EXCEPT ![k].in = @ \o [i \in 1..Len(lines) |-> <<k, lines[i]>>], ![k].fin = fin]
  /\ UNCHANGED <<prog, lq, w, sv>>

\* Readn of n replies
Received(c, n) == Len(cl[c].got) >= n

\* close(): a FIN, or a reset when replies were not read
CloseConn(c, pc, rst) ==
  LET k == <<c, cl[c].n>> IN
  /\ cl' = [cl EXCEPT ![c].pc = pc, ![c].got = IF pc = "start" THEN <<>> ELSE @,
                      ![c].n = IF pc = "start" THEN @ + 1 ELSE @]
  /\ sock' = [sock EXCEPT ![k].fin = TRUE, ![k].rst = rst, ![k].in = IF rst THEN <<>> ELSE @,
                          ![k].gone = TRUE]
  /\ UNCHANGED <<prog, w, sv>>

\* a reset of a connection that is still in the queue: a Berkeley kernel
\* takes it out (or accept fails with ECONNABORTED and Accept tries again),
\* others leave it to the first read, or to accept (AcceptAborts)
Reset(c, pc) ==
  LET k == <<c, cl[c].n>> IN
  /\ CloseConn(c, pc, TRUE)
  /\ lq' \in {lq, SelectSeq(lq, LAMBDA x : x # k)}

\* the server closed the connection before the replies: err_quit
Fails(c) ==
  /\ cl[c].pc \in {"connected", "sent"} /\ Lost(<<c, cl[c].n>>)
  /\ ~Received(c, IF cl[c].kind = "strcli" THEN 2 ELSE 1)
  /\ CloseConn(c, "failed", FALSE) /\ UNCHANGED lq

\* server/client.c: nloops connections of one request each
client(c) ==
  /\ cl[c].kind = "client"
  /\ \/ cl[c].pc = "connected" /\ ~Lost(<<c, cl[c].n>>) /\ SendTo(c, <<1>>, FALSE)
     \/ /\ cl[c].pc = "sent" /\ Received(c, 1)
        /\ CloseConn(c, IF cl[c].n = 0 THEN "start" ELSE "done", FALSE) /\ UNCHANGED lq

\* server/clientrst.c: the third child resets its first connection at once
clientrst(c) ==
  /\ cl[c].kind = "clientrst"
  /\ \/ cl[c].pc = "connected" /\ cl[c].n = 0 /\ Reset(c, "start")
     \/ /\ cl[c].pc = "connected" /\ cl[c].n = 1 /\ ~Lost(<<c, 1>>)
        /\ SendTo(c, <<1>>, FALSE)
     \/ cl[c].pc = "sent" /\ Received(c, 1) /\ CloseConn(c, "done", FALSE) /\ UNCHANGED lq

\* nonblock/tcpcli03.c: connect, then a reset
tcpcli03(c) ==
  /\ cl[c].kind = "tcpcli03" /\ cl[c].pc = "connected"
  /\ Reset(c, "done")

\* tcpcliserv/tcpcli06.c: three bytes without a newline, and an exit much later
tcpcli06(c) ==
  /\ cl[c].kind = "tcpcli06"
  /\ \/ cl[c].pc = "connected" /\ ~Lost(<<c, 0>>) /\ SendTo(c, <<0>>, FALSE)
     \/ cl[c].pc = "sent" /\ CloseConn(c, "done", cl[c].got # <<>>) /\ UNCHANGED lq

\* a client that sends two lines without waiting (select/strcliselect02.c)
strcli(c) ==
  /\ cl[c].kind = "strcli"
  /\ \/ cl[c].pc = "connected" /\ ~Lost(<<c, 0>>) /\ SendTo(c, <<1, 2>>, TRUE)
     \/ cl[c].pc = "sent" /\ Received(c, 2) /\ CloseConn(c, "done", FALSE) /\ UNCHANGED lq

Client(c) ==
  \/ Connect(c) \/ Refused(c) \/ Fails(c)
  \/ client(c) \/ clientrst(c) \/ tcpcli03(c) \/ tcpcli06(c) \/ strcli(c)

-----------------------------------------------------------------------------
(* What every server does with a connection *)

\* the process ends: every connection it holds is closed
Down == sv' = [sv EXCEPT !.up = FALSE] /\ w' = [t \in DOMAIN w |-> [w[t] EXCEPT !.st = "dead"]]
        /\ sock' = [k \in DOMAIN sock |-> [sock[k] EXCEPT !.by = {}]]
        /\ UNCHANGED <<prog, cl, lq>>

Accepted(k, t) == [sock EXCEPT ![k].by = {t}, ![k].accepted = TRUE]

\* write() of a reply: to a peer that has closed, it earns a reset
Reply(k, r) ==
  IF sock[k].gone
    THEN sock' = [sock EXCEPT ![k].rst = TRUE] /\ UNCHANGED cl
    ELSE cl' = [cl EXCEPT ![k[1]].got = Append(@, r)] /\ UNCHANGED sock

\* Readline needs a whole line, read does not
Readable(k, lines) == sock[k].in # <<>> /\ (lines => Head(sock[k].in)[2] # 0 \/ sock[k].fin)
AtEof(k) == sock[k].in = <<>> /\ sock[k].fin /\ ~sock[k].rst

\* a task reads a request, writes the reply, and stops at end of file; a
\* reset makes Readline, Read or Writen end its process, which is Error
Serve(t, lines, Error) ==
  LET k == w[t].fd IN
  \/ /\ w[t].st = "serve" /\ Readable(k, lines) /\ ~sock[k].rst
     /\ w' = [w EXCEPT ![t].st = "write", ![t].req = Head(sock[k].in)]
     /\ sock' = [sock EXCEPT ![k].in = Tail(@)]
     /\ UNCHANGED <<prog, cl, lq, sv>>
  \/ /\ w[t].st = "write" /\ ~sock[k].rst
     /\ Reply(k, w[t].req)
     /\ w' = [w EXCEPT ![t].st = "serve"]
     /\ UNCHANGED <<prog, lq, sv>>
  \/ w[t].st \in {"serve", "write"} /\ sock[k].rst /\ Error

\* the end of a child process, which leaves a zombie and sends SIGCHLD
ExitChild(t) ==
  /\ w' = [w EXCEPT ![t].st = "zombie"]
  /\ sock' = Drop(w[t].fd, t)
  /\ sv' = [sv EXCEPT !.sigchld = TRUE]
  /\ UNCHANGED <<prog, cl, lq>>

CloseFd(t, st) ==
  /\ w' = [w EXCEPT ![t].st = st]
  /\ sock' = Drop(w[t].fd, t)
  /\ UNCHANGED <<prog, cl, lq, sv>>

-----------------------------------------------------------------------------
(* server/serv00.c: one client after the other *)

serv00 ==
  /\ prog = "serv00" /\ sv.up
  /\ \/ /\ w[Main].st = "accept" /\ lq # <<>>
        /\ w' = [w EXCEPT ![Main].st = "serve", ![Main].fd = Head(lq)]
        /\ sock' = Accepted(Head(lq), Main)
        /\ lq' = Tail(lq) /\ UNCHANGED <<prog, cl, sv>>
     \/ Serve(Main, TRUE, Down)
     \/ w[Main].st = "serve" /\ AtEof(w[Main].fd) /\ CloseFd(Main, "accept")

-----------------------------------------------------------------------------
(* A process per client: the parent accepts, forks and closes its copy *)

AcceptFork ==
  /\ sv.up
  /\ \/ /\ sv.pc = "accept" /\ lq # <<>>
        /\ sv' = Move("fork", Head(lq)) /\ lq' = Tail(lq)
        /\ sock' = Accepted(Head(lq), Main)
        /\ UNCHANGED <<prog, cl, w>>
     \/ /\ sv.pc = "fork"
        /\ sv' = Move("close", sv.fd) /\ sock' = Hold(sv.fd, sv.fd)
        /\ w' = [w EXCEPT ![sv.fd].st = "serve", ![sv.fd].fd = sv.fd]
        /\ UNCHANGED <<prog, cl, lq>>
     \/ /\ sv.pc = "close"
        /\ sv' = Move("accept", None) /\ sock' = Drop(sv.fd, Main)
        /\ UNCHANGED <<prog, cl, lq, w>>

\* the servers that call accept themselves, for EINTR, end when it fails with
\* ECONNABORTED; their children go on
AcceptAborts ==
  /\ prog \in {"serv01", "tcpserv03", "tcpserv04", "tcpserv08", "tcpserv09"}
  /\ sv.up /\ sv.pc = "accept" /\ lq # <<>> /\ sock[Head(lq)].rst
  /\ sv' = [sv EXCEPT !.up = FALSE]
  /\ UNCHANGED <<prog, cl, lq, sock, w>>

ServeChild(lines) ==
  \E t \in DOMAIN w \ {Main} :
    \/ Serve(t, lines, ExitChild(t))
    \/ w[t].st = "serve" /\ AtEof(w[t].fd) /\ ExitChild(t)

Zombies == {t \in DOMAIN w : w[t].st = "zombie"}

\* tcpcliserv/sigchldwait.c: one wait, whatever the number of children that
\* ended since the signal was sent
sigchldwait ==
  /\ sv.up /\ sv.sigchld
  /\ \E t \in Zombies : w' = [w EXCEPT ![t].st = "reaped"]
  /\ sv' = [sv EXCEPT !.sigchld = FALSE]
  /\ UNCHANGED <<prog, cl, lq, sock>>

\* mutation: one wait for each signal
ReapOne == sigchldwait

\* waitpid(-1, WNOHANG) until it finds no more
ReapAll ==
  /\ sv.up /\ sv.sigchld
  /\ w' = [t \in DOMAIN w |-> [w[t] EXCEPT !.st = IF t \in Zombies THEN "reaped" ELSE @]]
  /\ sv' = [sv EXCEPT !.sigchld = FALSE]
  /\ UNCHANGED <<prog, cl, lq, sock>>

\* tcpcliserv/sigchldwaitpid.c, server/sig_chld_waitpid.c, unixdomain/sigchldwaitpid.c
sigchldwaitpid == prog \in {"tcpserv04", "tcpserv08", "tcpserv09"} /\ ReapAll
sig_chld_waitpid == prog = "serv01" /\ ReapAll
unix_sigchldwaitpid == prog \in {"unixstrserv01", "unixstrserv02"} /\ ReapAll

tcpserv01 == prog = "tcpserv01" /\ (AcceptFork \/ ServeChild(FALSE))
tcpserv02 == prog = "tcpserv02" /\ (AcceptFork \/ ServeChild(FALSE) \/ sigchldwait)
tcpserv03 == prog = "tcpserv03" /\ (AcceptFork \/ ServeChild(FALSE) \/ sigchldwait)
tcpserv04 == prog = "tcpserv04" /\ (AcceptFork \/ ServeChild(FALSE) \/ sigchldwaitpid)
tcpserv08 == prog = "tcpserv08" /\ (AcceptFork \/ ServeChild(TRUE) \/ sigchldwaitpid)
tcpserv09 == prog = "tcpserv09" /\ (AcceptFork \/ ServeChild(TRUE) \/ sigchldwaitpid)
unixstrserv01 == prog = "unixstrserv01" /\ (AcceptFork \/ ServeChild(FALSE) \/ unix_sigchldwaitpid)
unixstrserv02 == prog = "unixstrserv02" /\ (AcceptFork \/ ServeChild(FALSE) \/ unix_sigchldwaitpid)
serv01 == prog = "serv01" /\ (AcceptFork \/ ServeChild(TRUE) \/ sig_chld_waitpid)

-----------------------------------------------------------------------------
(* A pool whose members call accept themselves *)

\* accept by member t; st is where it goes with the connection
AcceptBy(t, st) ==
  /\ lq # <<>>
  /\ w' = [w EXCEPT ![t].st = st, ![t].fd = Head(lq)]
  /\ sock' = Accepted(Head(lq), t)
  /\ lq' = Tail(lq) /\ UNCHANGED <<prog, cl, sv>>

At(t, st) == w[t].st = st
Go(t, st) == w' = [w EXCEPT ![t].st = st] /\ UNCHANGED <<prog, cl, lq, sock, sv>>

\* the lock around accept: a mutex, or a record lock on a file
LockWait(t) ==
  /\ sv.lock = None
  /\ sv' = [sv EXCEPT !.lock = t]
  /\ w' = [w EXCEPT ![t].st = "locked"] /\ UNCHANGED <<prog, cl, lq, sock>>

\* mutation: the lock is kept
LockKept(t) ==
  /\ sv.lock = t
  /\ w' = [w EXCEPT ![t].st = "serve"] /\ UNCHANGED <<prog, cl, lq, sock, sv>>

LockRelease(t) ==
  /\ sv.lock = t
  /\ sv' = [sv EXCEPT !.lock = None]
  /\ w' = [w EXCEPT ![t].st = "serve"] /\ UNCHANGED <<prog, cl, lq, sock>>

\* lock_fcntl.c and lock_pthread.c
fcntl_lock_wait(t) == LockWait(t)
fcntl_lock_release(t) == LockRelease(t)
pthread_lock_wait(t) == LockWait(t)
pthread_lock_release(t) == LockRelease(t)

\* child02.c, child02m.c and pthread09.c: no lock; child02l.c: select first,
\* and the connection may have gone to another child when accept is called
child02(t) == At(t, "accept") /\ AcceptBy(t, "serve")
child02m(t) == At(t, "accept") /\ AcceptBy(t, "serve")
child02l(t) ==
  \/ At(t, "accept") /\ lq # <<>> /\ Go(t, "selected")
  \/ At(t, "selected") /\ AcceptBy(t, "serve")
pthread09(t) == At(t, "accept") /\ AcceptBy(t, "serve")

\* child03.c, child03m.c, child04.c and pthread07.c: accept under the lock
child03(t) ==
  \/ At(t, "accept") /\ fcntl_lock_wait(t)
  \/ At(t, "locked") /\ AcceptBy(t, "unlock")
  \/ At(t, "unlock") /\ fcntl_lock_release(t)
child03m(t) ==
  \/ At(t, "accept") /\ fcntl_lock_wait(t)
  \/ At(t, "locked") /\ AcceptBy(t, "unlock")
  \/ At(t, "unlock") /\ fcntl_lock_release(t)
child04(t) ==
  \/ At(t, "accept") /\ pthread_lock_wait(t)
  \/ At(t, "locked") /\ AcceptBy(t, "unlock")
  \/ At(t, "unlock") /\ pthread_lock_release(t)
pthread07(t) ==
  \/ At(t, "accept") /\ LockWait(t)
  \/ At(t, "locked") /\ AcceptBy(t, "unlock")
  \/ At(t, "unlock") /\ LockRelease(t)

\* web_child.c in a member of a pool, then Close and the next accept
web_child(t, Error) ==
  \/ Serve(t, TRUE, Error)
  \/ w[t].st = "serve" /\ AtEof(w[t].fd) /\ CloseFd(t, "accept")

\* main forks or creates the members and pauses; sig_int ends it: it
\* terminates the children and waits for them
sig_int == sv.up /\ sv.pc = "pause" /\ Down

serv02 == prog = "serv02" /\ \E t \in Pool : (child02(t) \/ web_child(t, ExitChild(t)))
serv02m == prog = "serv02m" /\ \E t \in Pool : (child02m(t) \/ web_child(t, ExitChild(t)))
serv02l == prog = "serv02l" /\ \E t \in Pool : (child02l(t) \/ web_child(t, ExitChild(t)))
serv03 == prog = "serv03" /\ \E t \in Pool : (child03(t) \/ web_child(t, ExitChild(t)))
serv03m == prog = "serv03m" /\ \E t \in Pool : (child03m(t) \/ web_child(t, ExitChild(t)))
serv04 == prog = "serv04" /\ \E t \in Pool : (child04(t) \/ web_child(t, ExitChild(t)))
serv07 == prog = "serv07" /\ \E t \in Pool : (pthread07(t) \/ web_child(t, Down))
serv09 == prog = "serv09" /\ \E t \in Pool : (pthread09(t) \/ web_child(t, Down))

-----------------------------------------------------------------------------
(* serv05.c and child05.c: the parent passes each connection to a child *)

Nth(i) == <<"w", i>>
Select05 ==
  LET ready == {Nth(i) : i \in {j \in 1..NPool : sv.pipe[j] = "free" \/ w[Nth(j)].st = "zombie"}}
               \cup IF sv.navail > 0 /\ lq # <<>> THEN {Listen} ELSE {} IN
  /\ sv.pc = "select" /\ ready # {}
  /\ sv' = [sv EXCEPT !.pc = IF Listen \in ready THEN "accept" ELSE "find", !.i = 1,
                      !.rset = ready, !.nready = Cardinality(ready)]
  /\ UNCHANGED <<prog, cl, lq, sock, w>>

\* accept, the first child that is free, Write_fd and Close; without a free
\* child the server would quit ("no available children")
Free05 == {j \in 1..NPool : sv.status[j] = 0}
Accept05 ==
  LET free == Free05
      i == CHOOSE j \in free : \A k \in free : j <= k IN
  /\ sv.pc = "accept" /\ lq # <<>> /\ free # {}
  /\ sv' = [sv EXCEPT !.status[i] = 1, !.navail = @ - 1, !.pipe[i] = "fd", !.nready = @ - 1,
                      !.pc = IF sv.nready = 1 THEN "select" ELSE "find"]
  /\ sock' = Accepted(Head(lq), Nth(i))
  /\ w' = [w EXCEPT ![Nth(i)].fd = Head(lq)]
  /\ lq' = Tail(lq) /\ UNCHANGED <<prog, cl>>

Find05 ==
  LET i == sv.i IN
  /\ sv.pc = "find"
  /\ \/ /\ i > NPool \/ Nth(i) \notin sv.rset
        /\ sv' = IF i > NPool THEN [sv EXCEPT !.pc = "select"] ELSE [sv EXCEPT !.i = @ + 1]
        /\ UNCHANGED <<prog, cl, lq, sock, w>>
     \/ /\ i <= NPool /\ Nth(i) \in sv.rset /\ sv.pipe[i] = "free"
        /\ sv' = [sv EXCEPT !.status[i] = 0, !.navail = @ + 1, !.pipe[i] = "empty", !.nready = @ - 1,
                            !.i = @ + 1, !.pc = IF sv.nready = 1 THEN "select" ELSE @]
        /\ UNCHANGED <<prog, cl, lq, sock, w>>
     \/ i <= NPool /\ Nth(i) \in sv.rset /\ sv.pipe[i] # "free" /\ Down

child05(i) ==
  LET t == Nth(i) IN
  \/ /\ At(t, "accept") /\ sv.pipe[i] = "fd"
     /\ sv' = [sv EXCEPT !.pipe[i] = "empty"]
     /\ w' = [w EXCEPT ![t].st = "serve"] /\ UNCHANGED <<prog, cl, lq, sock>>
  \/ Serve(t, TRUE, ExitChild(t))
  \/ At(t, "serve") /\ AtEof(w[t].fd) /\ CloseFd(t, "tell")
  \/ /\ At(t, "tell")
     /\ sv' = [sv EXCEPT !.pipe[i] = "free"]
     /\ w' = [w EXCEPT ![t].st = "accept"] /\ UNCHANGED <<prog, cl, lq, sock>>

serv05 ==
  prog = "serv05" /\ sv.up
  /\ (Select05 \/ Accept05 \/ Find05 \/ \E i \in 1..NPool : child05(i))

-----------------------------------------------------------------------------
(* A thread per client: serv06.c, threads/tcpserv01.c and tcpserv02.c *)

AcceptCreate ==
  /\ sv.up /\ lq # <<>>
  /\ w' = [w EXCEPT ![Head(lq)].st = "serve", ![Head(lq)].fd = Head(lq)]
  /\ sock' = Accepted(Head(lq), Head(lq))
  /\ lq' = Tail(lq) /\ UNCHANGED <<prog, cl, sv>>

doit(lines) ==
  \E t \in DOMAIN w :
    \/ Serve(t, lines, Down)
    \/ w[t].st = "serve" /\ AtEof(w[t].fd) /\ CloseFd(t, "ended")

serv06 == prog = "serv06" /\ (AcceptCreate \/ doit(TRUE))
threads_tcpserv01 == prog = "threads_tcpserv01" /\ (AcceptCreate \/ doit(FALSE))

\* the descriptor in memory of its own, read and freed by the thread
threads_tcpserv02 == prog = "threads_tcpserv02" /\ (AcceptCreate \/ doit(FALSE))

-----------------------------------------------------------------------------
(* serv08.c and pthread08.c: main accepts, the threads take from clifd[] *)

After(i) == (i + 1) % MAXNCLI

\* main's accept and its critical section: clifd[iput++], and the signal to
\* one of the waiting threads
serv08 ==
  /\ prog = "serv08" /\ sv.up
  /\ \/ /\ sv.pc = "accept" /\ lq # <<>>
        /\ sv' = Move("put", Head(lq)) /\ sock' = Accepted(Head(lq), Main)
        /\ lq' = Tail(lq) /\ UNCHANGED <<prog, cl, w>>
     \/ /\ sv.pc = "put" /\ sv.lock = None /\ After(sv.iput) # sv.iget
        /\ sv' = [sv EXCEPT !.pc = "accept", !.clifd[sv.iput] = sv.fd, !.iput = After(@)]
        /\ LET asleep == {t \in Pool : w[t].st = "wait"} IN
           IF asleep = {} THEN UNCHANGED w
             ELSE \E t \in asleep : w' = [w EXCEPT ![t].st = "woken"]
        /\ UNCHANGED <<prog, cl, lq, sock>>
     \/ sv.pc = "put" /\ sv.lock = None /\ After(sv.iput) = sv.iget /\ Down

pthread08(t) ==
  \/ At(t, "accept") /\ LockWait(t)
  \/ At(t, "woken") /\ LockWait(t)
  \/ /\ At(t, "locked") /\ sv.iget = sv.iput
     /\ sv' = [sv EXCEPT !.lock = None]
     /\ w' = [w EXCEPT ![t].st = "wait"] /\ UNCHANGED <<prog, cl, lq, sock>>
  \/ /\ At(t, "locked") /\ sv.iget # sv.iput
     /\ sv' = [sv EXCEPT !.lock = None, !.iget = After(@)]
     /\ w' = [w EXCEPT ![t].st = "serve", ![t].fd = sv.clifd[sv.iget]]
     /\ sock' = [sock EXCEPT ![sv.clifd[sv.iget]].by = {t}] /\ UNCHANGED <<prog, cl, lq>>
  \/ web_child(t, Down)

Threads08 == prog = "serv08" /\ \E t \in Pool : pthread08(t)

-----------------------------------------------------------------------------
(* One process: tcpservselect01.c, tcpservpoll01.c, nonblock/tcpservselect03.c *)

Ready(k) == sock[k].in # <<>> \/ sock[k].fin \/ sock[k].rst

SelectAll ==
  LET ready == {k \in sv.allset : Ready(k)} \cup IF lq # <<>> THEN {Listen} ELSE {} IN
  /\ sv.pc = "select" /\ ready # {}
  /\ sv' = [sv EXCEPT !.pc = IF Listen \in ready THEN "accept" ELSE "loop", !.rset = ready, !.i = 1,
                      !.nready = Cardinality(ready)]
  /\ UNCHANGED <<prog, cl, lq, sock, w>>

\* the first free entry of client[]; err_quit("too many clients") without one.
\* poll has set no revents in an entry beyond maxi, which tcpservpoll01 tests
\* all the same: it may read from a connection that has nothing, and waits.
AcceptSlot ==
  LET free == {j \in 1..NSlots : sv.client[j] = None}
      i == CHOOSE j \in free : \A k \in free : j <= k IN
  /\ sv.pc = "accept" /\ lq # <<>>
  /\ IF free = {} THEN Down
     ELSE /\ \E revents \in SUBSET {Head(lq)} :
               /\ revents # {} => prog = "tcpservpoll01" /\ i > sv.maxi
               /\ sv' = [sv EXCEPT !.client[i] = Head(lq), !.allset = @ \cup {Head(lq)},
                                   !.maxi = IF i > @ THEN i ELSE @, !.nready = @ - 1,
                                   !.rset = @ \cup revents,
                                   !.pc = IF sv.nready = 1 THEN "select" ELSE "loop"]
          /\ sock' = Accepted(Head(lq), Main)
          /\ lq' = Tail(lq) /\ UNCHANGED <<prog, cl, w>>

\* the end of the loop's body
Step(s) == [s EXCEPT !.i = @ + 1, !.nready = @ - 1, !.pc = IF s.nready = 1 THEN "select" ELSE "loop"]

Here == sv.client[sv.i]

SkipSlot ==
  /\ sv.pc = "loop" /\ (sv.i > sv.maxi \/ Here \notin sv.rset)
  /\ sv' = IF sv.i > sv.maxi THEN [sv EXCEPT !.pc = "select"] ELSE [sv EXCEPT !.i = @ + 1]
  /\ UNCHANGED <<prog, cl, lq, sock, w>>

\* mutation: the entry of client[] is not freed
CloseSlotKeeps ==
  /\ sv' = Step([sv EXCEPT !.allset = @ \ {Here}])
  /\ sock' = Drop(Here, Main)
  /\ UNCHANGED <<prog, cl, lq, w>>

CloseSlot ==
  /\ sv' = Step([sv EXCEPT !.client[sv.i] = None, !.allset = @ \ {Here}])
  /\ sock' = Drop(Here, Main)
  /\ UNCHANGED <<prog, cl, lq, w>>

\* mutation: the reply goes to the first entry
WriteFirstSlot ==
  /\ sv.pc = "write"
  /\ IF sock[Here].rst THEN Down
     ELSE /\ Reply(IF sv.client[1] = None THEN Here ELSE sv.client[1], w[Main].req)
          /\ sv' = Step(sv) /\ UNCHANGED <<prog, lq, w>>

WriteSlot ==
  /\ sv.pc = "write"
  /\ IF sock[Here].rst THEN Down
     ELSE Reply(Here, w[Main].req) /\ sv' = Step(sv) /\ UNCHANGED <<prog, lq, w>>

\* Read of what there is, one request of it at a time
ReadSlot(Error) ==
  /\ sv.pc = "loop" /\ sv.i <= sv.maxi /\ Here \in sv.rset
  /\ \/ /\ sock[Here].in # <<>> /\ ~sock[Here].rst
        /\ w' = [w EXCEPT ![Main].req = Head(sock[Here].in)]
        /\ sock' = [sock EXCEPT ![Here].in = Tail(@)]
        /\ sv' = [sv EXCEPT !.pc = "write"] /\ UNCHANGED <<prog, cl, lq>>
     \/ AtEof(Here) /\ CloseSlot
     \/ sock[Here].rst /\ Error

tcpservselect01 ==
  prog = "tcpservselect01" /\ sv.up
  /\ (SelectAll \/ AcceptSlot \/ SkipSlot \/ ReadSlot(Down) \/ WriteSlot)

\* a reset only closes the connection it belongs to
tcpservpoll01 ==
  prog = "tcpservpoll01" /\ sv.up
  /\ (SelectAll \/ AcceptSlot \/ SkipSlot \/ ReadSlot(CloseSlot) \/ WriteSlot)

NoLine == sv.rbuf # <<>> => Head(sv.rbuf)[2] = 0

\* Readline: from the buffer that my_read keeps between calls, whichever
\* connection filled it, else from this connection until it has a line, which
\* begins with the part of one that the buffer held
ReadlineSlot ==
  /\ sv.pc = "loop" /\ sv.i <= sv.maxi /\ Here \in sv.rset
  /\ \/ /\ sv.rbuf # <<>> /\ Head(sv.rbuf)[2] # 0
        /\ w' = [w EXCEPT ![Main].req = Head(sv.rbuf)]
        /\ sv' = [sv EXCEPT !.pc = "write", !.rbuf = Tail(@)]
        /\ UNCHANGED <<prog, cl, lq, sock>>
     \/ /\ NoLine /\ sock[Here].in # <<>> /\ ~sock[Here].rst
        /\ sv' = [sv EXCEPT !.rbuf = sock[Here].in]
        /\ sock' = [sock EXCEPT ![Here].in = <<>>]
        /\ UNCHANGED <<prog, cl, lq, w>>
     \/ sv.rbuf = <<>> /\ AtEof(Here) /\ CloseSlot
     \/ /\ sv.rbuf # <<>> /\ Head(sv.rbuf)[2] = 0 /\ AtEof(Here)
        /\ w' = [w EXCEPT ![Main].req = Head(sv.rbuf)]
        /\ sv' = [sv EXCEPT !.pc = "write", !.rbuf = <<>>]
        /\ UNCHANGED <<prog, cl, lq, sock>>
     \/ NoLine /\ sock[Here].rst /\ Down

\* listenfd is readable, then five seconds pass before accept
tcpservselect03 ==
  prog = "tcpservselect03" /\ sv.up
  /\ (SelectAll \/ AcceptSlot \/ SkipSlot \/ ReadlineSlot \/ WriteSlot)

-----------------------------------------------------------------------------
Server ==
  \/ AcceptAborts \/ serv00 \/ serv01 \/ serv02 \/ serv02l \/ serv02m \/ serv03 \/ serv03m \/ serv04
  \/ serv05 \/ serv06 \/ serv07 \/ serv08 \/ Threads08 \/ serv09
  \/ tcpserv01 \/ tcpserv02 \/ tcpserv03 \/ tcpserv04 \/ tcpserv08 \/ tcpserv09
  \/ unixstrserv01 \/ unixstrserv02 \/ threads_tcpserv01 \/ threads_tcpserv02
  \/ tcpservselect01 \/ tcpservpoll01 \/ tcpservselect03

PreAccept == {"serv02", "serv02l", "serv02m", "serv03", "serv03m", "serv04", "serv07", "serv09"}
SelectLoop == {"serv05", "tcpservselect01", "tcpservpoll01", "tcpservselect03"}

Init ==
  \E x \in Mixes :
    LET cs == DOMAIN x.kinds
        ks == UNION {Conns(c) : c \in cs} IN
    /\ prog = x.prog
    /\ cl = [c \in cs |-> [kind |-> x.kinds[c], pc |-> "start", n |-> 0, got |-> <<>>]]
    /\ lq = <<>>
    /\ sock = [k \in ks |-> [in |-> <<>>, fin |-> FALSE, rst |-> FALSE, gone |-> FALSE,
                             accepted |-> FALSE, by |-> {}]]
    /\ w = [t \in ks \cup Pool \cup {Main} |->
             [st |-> IF t \in Pool \/ (t = Main /\ x.prog = "serv00") THEN "accept" ELSE "none",
              fd |-> None, req |-> <<None, 0>>]]
    /\ sv = [up |-> TRUE, fd |-> None, lock |-> None, sigchld |-> FALSE,
             pc |-> IF x.prog \in PreAccept THEN "pause"
                    ELSE IF x.prog \in SelectLoop THEN "select" ELSE "accept",
             navail |-> NPool, status |-> [i \in 1..NPool |-> 0], pipe |-> [i \in 1..NPool |-> "empty"],
             rset |-> {}, nready |-> 0, i |-> 1, allset |-> {}, maxi |-> 0,
             client |-> [i \in 1..NSlots |-> None], rbuf |-> <<>>,
             clifd |-> [i \in 0..MAXNCLI - 1 |-> None], iget |-> 0, iput |-> 0]

Next == Server \/ sig_int \/ \E c \in DOMAIN cl : Client(c)

\* every process and thread runs on; nothing sends SIGINT
Fairness ==
  /\ WF_vars(Server)
  /\ \A c \in UNION {DOMAIN x.kinds : x \in Mixes} : WF_vars(c \in DOMAIN cl /\ Client(c))

Spec == Init /\ [][Next]_vars /\ Fairness

-----------------------------------------------------------------------------
\* Every reply goes to the client whose request it answers, once and in
\* order.  tcpservselect03 cannot promise it: its Readline hands out what the
\* shared buffer of my_read holds of another connection.
RepliesOwn ==
  prog # "tcpservselect03" =>
    \A c \in DOMAIN cl : \A i \in 1..Len(cl[c].got) :
      cl[c].got[i] = <<<<c, cl[c].n>>, IF cl[c].kind = "tcpcli06" THEN 0 ELSE i>>

\* the connections in clifd[], from iget to iput
Queued08 == {sv.clifd[i] : i \in {j \in 0..MAXNCLI - 1 :
              IF sv.iget <= sv.iput THEN sv.iget <= j /\ j < sv.iput ELSE j >= sv.iget \/ j < sv.iput}}

\* What a server notes about its connections agrees with who holds them:
\* serv05's count of free children and their status with the pipes, serv08's
\* array with the accepted connections no thread has, and client[], maxi and
\* allset of the select servers with the descriptors that are open.
Bookkeeping ==
  sv.up =>
    /\ prog = "serv05" =>
         /\ sv.navail = Cardinality(Free05)
         /\ sv.pc = "accept" => Free05 # {}
         /\ \A i \in Free05 : w[Nth(i)].st = "accept" /\ sv.pipe[i] = "empty"
    /\ prog = "serv08" =>
         Queued08 \cup (IF sv.pc = "put" THEN {sv.fd} ELSE {}) = {k \in DOMAIN sock : Main \in sock[k].by}
    /\ prog \in SelectLoop \ {"serv05"} =>
         /\ {sv.client[i] : i \in 1..NSlots} \ {None} = sv.allset
         /\ sv.allset = {k \in DOMAIN sock : sock[k].by # {}}
         /\ \A i \in 1..NSlots : sv.client[i] # None => i <= sv.maxi

\* a server whose accept waits for a connection that was reset after select
\* found it
Stuck == prog \in SelectLoop /\ sv.pc = "accept" /\ lq = <<>>

\* A client gets its replies and closes, and then the server closes too,
\* unless the server ended or is stuck.  tcpservselect03 is left out: a client
\* may wait for a reply that went to another.
EveryClientServed ==
  prog # "tcpservselect03" =>
    \A c \in UNION {DOMAIN x.kinds : x \in Mixes} :
      []<>(~sv.up \/ Stuck \/ c \notin DOMAIN cl
           \/ (cl[c].pc = "done" /\ \A k \in Conns(c) : sock[k].by = {}))

\* No zombie stays: the parents whose handler calls waitpid until no child is
\* left reap them all, however the signals fall together, unless they have ended.
ZombiesReaped ==
  prog \in {"serv01", "tcpserv04", "tcpserv08", "tcpserv09", "unixstrserv01", "unixstrserv02"}
    => []<>(~sv.up \/ Zombies = {})

=============================================================================
