------------------------------ MODULE OpenServ ------------------------------
(***************************************************************************)
(* The open servers of apue.3e/ipc2: a client sends the name of a file,    *)
(* the server opens it and passes the descriptor back over a Unix domain   *)
(* socket.  opend serves every client from one process, with select        *)
(* (loop.select.c) or with poll (loop.poll.c); opend.fe is started by each *)
(* client; mycat (unpv13e/unixdomain) starts a program for each file.      *)
(*                                                                         *)
(* A request is a sequence of words, the last one its null byte; a read    *)
(* takes at most MAXLINE of them.  A reply is the text of an error message *)
(* and two bytes, null and status, with a descriptor when it succeeds.     *)
(***************************************************************************)
EXTENDS Integers, Sequences, FiniteSets, SequencesExt, FiniteSetsExt

CONSTANTS Clients, NULL,
          MAXLINE,    \* what one read takes
          NALLOC,     \* entries client_alloc and grow_pollfd add
          Files,      \* the names that can be opened
          Configs     \* the program, the names each client asks for (each a sequence of
                      \* words), the clients that may be killed, and whether the server may
                      \* be so slow that a client's pathname is stale when it is accepted

VARIABLES config,
          c,          \* the clients: place, names done, results, connection and its queues
          s           \* the server: descriptors, client[], the poll or select set, the
                      \* connections waiting

vars == <<config, c, s>>

Nul == "nul"
Bytes(name) == <<"open">> \o name \o <<"oflag", Nul>>
Fds == 1 .. Cardinality(Clients)
Names(k) == config.names[k]

Gone(p) == p \in {"exited", "killed", "aborted"}

-----------------------------------------------------------------------------
(* Descriptor passing: lib/sendfd.c, senderr.c, recvfd.c *)

send_fd(file) == <<[text |-> FALSE, fd |-> file]>>
\* the message, then the two bytes with a status that is not zero
send_err == <<[text |-> TRUE, fd |-> NULL]>> \o send_fd(NULL)

\* recvmsg returns a part of what has arrived and stops at a descriptor
Taken(q) == {n \in 1 .. Len(q) : \A i \in 1 .. n - 1 : q[i].fd = NULL}

\* recv_fd: keeps reading until the two last bytes of what it read are null and status
recv_fd(k) ==
  /\ c[k].pc = "reply"
  /\ \/ \E n \in Taken(c[k].down) :
          LET ends == {i \in 1 .. n : ~c[k].down[i].text}
              rest == [c[k] EXCEPT !.down = SubSeq(@, n + 1, Len(@))] IN
          c' = [c EXCEPT ![k] =
                  IF ends = {} THEN rest
                  ELSE IF ends # {n} THEN [rest EXCEPT !.pc = "aborted"]   \* message format error
                  ELSE [rest EXCEPT !.pc = "next", !.got = Append(@, c[k].down[n].fd)]]
     \/ /\ c[k].down = <<>> /\ c[k].conn = "closed"
        /\ c' = [c EXCEPT ![k].pc = "next", ![k].got = Append(@, NULL)]
  /\ UNCHANGED <<config, s>>

-----------------------------------------------------------------------------
(* The clients: ipc2/open, ipc2/open.fe *)

\* cli_conn: a connection is made as soon as it is queued; without a server there is none
cli_conn(k) ==
  IF s.pc \in {"start", "gone"} THEN [c[k] EXCEPT !.got = Append(@, NULL), !.i = @ + 1]
  ELSE [c[k] EXCEPT !.conn = "open", !.pc = "write"]

\* csopen of open.c: connect the first time
csopen_open(k) ==
  /\ config.prog \in {"opend_select", "opend_poll"}
  /\ c[k].pc = "open"
  /\ IF c[k].conn # "none" THEN c' = [c EXCEPT ![k].pc = "write"] /\ UNCHANGED s
     ELSE /\ c' = [c EXCEPT ![k] = cli_conn(k)]
          /\ s' = IF c'[k].conn = "open" THEN [s EXCEPT !.lq = Append(@, k)] ELSE s
  /\ UNCHANGED config

\* csopen of open.fe: start the server the first time
csopen_fe(k) ==
  /\ config.prog = "opend_fe"
  /\ c[k].pc = "open"
  /\ c' = [c EXCEPT ![k].pc = "write",
                    ![k].conn = IF @ = "none" THEN "open" ELSE @,
                    ![k].serv = IF c[k].conn = "none" THEN "read" ELSE @]
  /\ UNCHANGED <<config, s>>

\* writev sends the whole request; into a closed connection it ends the process (SIGPIPE)
Writev(k) ==
  /\ c[k].pc = "write"
  /\ c' = [c EXCEPT ![k] = IF c[k].conn = "closed" THEN [@ EXCEPT !.pc = "killed"]
                           ELSE [@ EXCEPT !.pc = "reply", !.up = @ \o Bytes(Names(k)[c[k].i]),
                                          !.i = @ + 1]]
  /\ UNCHANGED <<config, s>>

\* main: the next name; at the end exit closes the connection
open_main(k) ==
  /\ ~Gone(c[k].pc)
  /\ \/ c[k].pc = "next" /\ c' = [c EXCEPT ![k].pc = "open"]
     \/ c[k].pc = "open" /\ c[k].i > Len(Names(k)) /\ c' = [c EXCEPT ![k].pc = "exited"]
  /\ UNCHANGED <<config, s>>

Kill(k) ==
  /\ k \in config.dies /\ ~Gone(c[k].pc)
  /\ c' = [c EXCEPT ![k].pc = "killed"]
  /\ UNCHANGED <<config, s>>

More(k) == c[k].i <= Len(Names(k))
Client(k) ==
  \/ More(k) /\ (csopen_open(k) \/ csopen_fe(k))
  \/ Writev(k) \/ recv_fd(k) \/ open_main(k)

-----------------------------------------------------------------------------
(* mycat and openfile (unpv13e/unixdomain) *)

\* openfile: the descriptor with one byte, or errno as the exit status
openfile_main(k) ==
  /\ c[k].serv = "read"
  /\ LET file == Names(k)[c[k].i][1] IN
     c' = [c EXCEPT ![k].serv = IF file \in Files THEN "exit0" ELSE "errno",
                    ![k].down = IF file \in Files THEN send_fd(file) ELSE <<>>]
  /\ UNCHANGED <<config, s>>

\* my_open: wait for the program to end before reading what it sent; mycat stops when it fails
mycat_main(k) ==
  /\ \/ /\ c[k].pc = "open" /\ More(k)
        /\ c' = [c EXCEPT ![k].pc = "waitpid", ![k].serv = "read"]
     \/ /\ c[k].pc = "waitpid" /\ c[k].serv = "exit0"
        /\ c' = [c EXCEPT ![k].pc = "exited", ![k].down = <<>>, ![k].i = @ + 1,
                          ![k].got = Append(@, Head(c[k].down).fd)]
     \/ /\ c[k].pc = "waitpid" /\ c[k].serv = "errno"
        /\ c' = [c EXCEPT ![k].pc = "exited", ![k].i = @ + 1, ![k].got = Append(@, NULL)]
  /\ UNCHANGED <<config, s>>

-----------------------------------------------------------------------------
(* The request: opend/request.c, opend.fe/request.c, cliargs.c, lib/bufargs.c *)

\* buf_args and cli_args: "open", a pathname and the flags
cli_args(words) == Len(words) = 3 /\ words[1] = "open"
buf_args(buf) == cli_args(Front(buf))

\* what is sent back
handle_request(buf) ==
  IF Last(buf) # Nul THEN send_err
  ELSE IF ~buf_args(buf) THEN send_err
  ELSE IF buf[2] \notin Files THEN send_err
  ELSE send_fd(buf[2])

Buf(k) == SubSeq(c[k].up, 1, Min({MAXLINE, Len(c[k].up)}))
Reply(k) == [c EXCEPT ![k].up = SubSeq(@, Len(Buf(k)) + 1, Len(@)),
                      ![k].down = @ \o handle_request(Buf(k))]

\* a server of one client: main of opend.fe
opend_fe_main(k) ==
  /\ c[k].serv = "read"
  /\ \/ /\ c[k].up # <<>> /\ ~Gone(c[k].pc) /\ c' = Reply(k)
     \/ /\ Gone(c[k].pc)      \* end of file, a reset connection, or SIGPIPE while answering
        /\ c' = [c EXCEPT ![k].serv = "gone", ![k].conn = "closed", ![k].up = <<>>, ![k].down = <<>>]
  /\ UNCHANGED <<config, s>>

-----------------------------------------------------------------------------
(* opend: client.c, loop.select.c, loop.poll.c, lib/servlisten.c, servaccept.c *)

Conn(fd) == s.conn[fd]
Free == {fd \in Fds : Conn(fd) = NULL}
None == [fd |-> 0, uid |-> NULL]

\* log_sys and SIGPIPE end the server and with it every connection
Quit ==
  /\ s' = [s EXCEPT !.pc = "gone", !.lq = <<>>, !.conn = [fd \in Fds |-> NULL], !.client = <<>>,
                    !.pollfd = <<>>, !.allset = {}, !.rset = {}, !.i = 0]
  /\ c' = [k \in Clients |-> IF c[k].conn = "open" THEN [c[k] EXCEPT !.conn = "closed", !.up = <<>>]
                             ELSE c[k]]

client_alloc(client) == client \o [i \in 1 .. NALLOC |-> None]

\* client_add: the first entry free, after an allocation when there is none
client_add(client, fd, uid) ==
  LET more == IF \E i \in DOMAIN client : client[i].fd = 0 THEN client ELSE client_alloc(client)
      i == Min({j \in DOMAIN more : more[j].fd = 0}) IN
  [more EXCEPT ![i] = [fd |-> fd, uid |-> uid]]

client_del(client, fd) ==
  LET i == Min({j \in DOMAIN client : client[j].fd = fd}) IN [client EXCEPT ![i].fd = 0]

\* serv_listen; with poll the listening descriptor has the first entry of client[]
Listen == 99
serv_listen ==
  /\ s.pc = "start"
  /\ s' = [s EXCEPT !.pc = "wait", !.client = IF config.prog = "opend_poll"
                                                THEN client_add(<<>>, Listen, NULL) ELSE <<>>]
  /\ UNCHANGED <<config, c>>

\* serv_accept: the client's pathname tells its user; a stale one is an error
NewFd == Min(Free)
Accepted(t) ==
  LET k == Head(s.lq) IN
  [t EXCEPT !.lq = Tail(@), !.conn[NewFd] = k, !.client = client_add(@, NewFd, k)]
serv_accept(next) ==
  \/ s' = Accepted(next) /\ UNCHANGED c
  \/ config.slow /\ Quit

\* a descriptor select or poll reports, and a read that finds its client gone
Hup(fd) == Gone(c[Conn(fd)].pc)
Ready(fd) == c[Conn(fd)].up # <<>> \/ Hup(fd)

\* a request, and its answer
Request(fd, next) ==
  LET k == Conn(fd) IN
  IF Hup(fd) THEN Quit
  ELSE /\ c' = Reply(k)
       /\ s' = next

\* the client closed its connection; one that left a reply unread is a read error
Closed(fd, next) ==
  IF c[Conn(fd)].down # <<>> THEN Quit
  ELSE s' = [next EXCEPT !.conn[fd] = NULL, !.client = client_del(@, fd)] /\ UNCHANGED c

loop_select ==
  /\ config.prog = "opend_select"
  /\ \/ s.pc = "wait" /\ s.lq # <<>>
        /\ serv_accept([s EXCEPT !.allset = @ \cup {NewFd}])
     \/ /\ s.pc = "wait" /\ s.lq = <<>>
        /\ \E fd \in s.allset : Ready(fd)
        /\ s' = [s EXCEPT !.pc = "scan", !.rset = {fd \in s.allset : Ready(fd)}]
        /\ UNCHANGED c
     \/ /\ s.pc = "scan" /\ s.rset # {}
        /\ LET i == Min({j \in DOMAIN s.client : s.client[j].fd \in s.rset})
               fd == s.client[i].fd
               next == [s EXCEPT !.rset = @ \ {fd}] IN
           IF c[Conn(fd)].up # <<>> THEN Request(fd, next)
           ELSE Closed(fd, [next EXCEPT !.allset = @ \ {fd}])
     \/ /\ s.pc = "scan" /\ s.rset = {}
        /\ s' = [s EXCEPT !.pc = "wait"]
        /\ UNCHANGED c
  /\ UNCHANGED config

\* mutation: the last entry is dropped, whoever hung up
PackLast(pollfd, i) == Front(pollfd)

\* the entry of a client that hung up is filled by the last one
Pack(pollfd, i) ==
  IF i < Len(pollfd) THEN Front([pollfd EXCEPT ![i] = Last(pollfd)]) ELSE Front(pollfd)

\* what poll reports of a descriptor
Events(fd) == IF Hup(fd) THEN "hup" ELSE IF Ready(fd) THEN "in" ELSE "none"
Polled(fd) == [fd |-> fd, revents |-> Events(fd)]
NewEntry(fd) == [fd |-> fd, revents |-> "none"]

loop_poll ==
  /\ config.prog = "opend_poll"
  /\ \/ /\ s.pc = "wait"
        /\ s.lq # <<>> \/ \E i \in DOMAIN s.pollfd : Ready(s.pollfd[i].fd)
        /\ LET polled == [s EXCEPT !.pc = "scan", !.i = 1,
                            !.pollfd = [i \in DOMAIN @ |-> Polled(@[i].fd)]] IN
           IF s.lq = <<>> THEN s' = polled /\ UNCHANGED c
           ELSE serv_accept([polled EXCEPT !.pollfd = Append(@, NewEntry(NewFd))])
     \/ /\ s.pc = "scan" /\ s.i <= Len(s.pollfd)
        /\ LET p == s.pollfd[s.i]
               next == [s EXCEPT !.i = @ + 1]
               hungup == [s EXCEPT !.pollfd = Pack(@, s.i), !.conn[p.fd] = NULL,
                                   !.client = client_del(@, p.fd)] IN
           \/ p.revents = "hup" /\ s' = hungup /\ UNCHANGED c
           \/ p.revents = "in" /\ Request(p.fd, next)
           \/ p.revents = "none" /\ s' = next /\ UNCHANGED c
     \/ /\ s.pc = "scan" /\ s.i > Len(s.pollfd)
        /\ s' = [s EXCEPT !.pc = "wait", !.i = 0,
                          !.pollfd = [i \in DOMAIN @ |-> NewEntry(@[i].fd)]]
        /\ UNCHANGED c
  /\ UNCHANGED config

Opend == serv_listen \/ loop_select \/ loop_poll

-----------------------------------------------------------------------------
Init ==
  /\ config \in Configs
  /\ c = [k \in Clients |-> [pc |-> "open", i |-> 1, got |-> <<>>, conn |-> "none", serv |-> "none",
                             up |-> <<>>, down |-> <<>>]]
  /\ s = [pc |-> IF config.prog \in {"opend_select", "opend_poll"} THEN "start" ELSE "none",
          lq |-> <<>>, conn |-> [fd \in Fds |-> NULL], client |-> <<>>, allset |-> {}, rset |-> {},
          pollfd |-> <<>>, i |-> 0]

OneClient(k) ==
  \/ config.prog # "mycat" /\ Client(k)
  \/ config.prog = "mycat" /\ (mycat_main(k) \/ openfile_main(k))
  \/ config.prog = "opend_fe" /\ opend_fe_main(k)

Next == Opend \/ \E k \in Clients : OneClient(k) \/ Kill(k)

Spec == Init /\ [][Next]_vars
\* every process that can take a step takes one
FairSpec == Spec /\ WF_vars(Opend) /\ \A k \in Clients : WF_vars(OneClient(k))

-----------------------------------------------------------------------------
\* The descriptor csopen or my_open returns is of the file the caller named, and none is
\* returned for a name that cannot be opened, whatever the other clients do.  This is so as
\* long as no request is longer than the read of the server: the two parts of a longer one
\* are answered separately, and the client takes the second answer for the reply to its
\* next request.
Fits(name) == Len(Bytes(name)) <= MAXLINE
OpensOwn ==
  \A k \in Clients : \A i \in DOMAIN c[k].got :
    (\A j \in 1 .. i : Fits(Names(k)[j])) =>
      c[k].got[i] \in {NULL} \cup (IF Len(Names(k)[i]) = 1 THEN Range(Names(k)[i]) \cap Files ELSE {})

\* opend loses no connection: one that was accepted is watched (allset, pollfd[]) and in
\* client[], each under its own descriptor, until it is closed, however the arrays grow
\* and are packed.
Watched == IF config.prog = "opend_poll" THEN {s.pollfd[i].fd : i \in DOMAIN s.pollfd} ELSE s.allset
ConnectionsKept ==
  s.pc \in {"wait", "scan"} =>
    LET open == Fds \ Free IN
    /\ Watched = open /\ Len(s.pollfd) <= Cardinality(open)
    /\ {s.client[i].fd : i \in DOMAIN s.client} \ {0, Listen} = open
    /\ \A i \in DOMAIN s.client :
         s.client[i].fd \in Fds => s.client[i].uid = Conn(s.client[i].fd)

\* Every client that is not killed comes to an end, also when the server does: no csopen
\* waits for ever.
AllGone == \A k \in Clients : Gone(c[k].pc)
AllReturn == <>[]AllGone

=============================================================================
