----------------------------- MODULE DgExchange -----------------------------
(* The datagram programs of unpv13e: the dg_cli functions of udpcliserv,
   advio, bcast, mcast, rtt and sigio with the mains that call them, the
   datagram daytime clients, and the servers that answer them, over a network
   that loses, duplicates and reorders datagrams and delivers some that come
   from another host.  Time is not modelled: an armed alarm may go off at any
   moment, and a wait with a timeout may end at any moment.               *)
EXTENDS Naturals, Sequences, FiniteSets
CONSTANTS NLines,     \* lines on the client's standard input
          NDG,        \* datagrams of one dgcliloop, NDG in dgcliloop1.c
          QSIZE,      \* slots of the ring of dgecho01.c
          Hosts,      \* servers a broadcast or a multicast reaches
          MaxFaults,  \* bound on losses, duplicates and strays together
          Samples,    \* round trip times, in sixty-fourths of a second
          Pairs       \* the <<client, server>> couples that are run
VARIABLES prog,       \* <<client, server>>
          c,          \* the client process
          rttinfo,    \* struct rtt_info of dg_send_recv.c
          net,        \* datagrams: to the server's socket, to the client's
          srv         \* the server process
vars == <<prog, c, rttinfo, net, srv>>

Stray == 0            \* a datagram that another host sent to the client
N == IF prog[1] \in {"udpcli06", "udpcli08"} THEN NDG ELSE NLines
Dgs == 1..(IF NDG > NLines THEN NDG ELSE NLines)
RTT_RXTMIN == 2 * 64
RTT_RXTMAX == 60 * 64
RTT_MAXNREXMT == 3
Connected == {"udpcli04", "daytimeudpcli2", "daytimeudpcli4"}
Rtt == {"rtt_udpcli01"}
Sigio == "sigio_udpserv01"

At(p) == c.pc = p
Goto(p) == c' = [c EXCEPT !.pc = p]

-----------------------------------------------------------------------------
(* The pieces the dg_cli functions are made of. *)

\* Fgets: the next line of standard input, or the end of it.
Fgets ==
    /\ At("gets")
    /\ c' = IF c.line < N THEN [c EXCEPT !.line = @ + 1, !.pc = "send"]
                          ELSE [c EXCEPT !.pc = "done"]
    /\ UNCHANGED <<rttinfo, net, srv>>

\* A datagram reaches n servers' sockets; an asynchronous socket signals SIGIO.
Arrive(i, n) ==
    /\ net' = [net EXCEPT !.c2s[i] = @ + n]
    /\ srv' = [srv EXCEPT !.sigio = prog[2] = Sigio]

Sendto(n, next) == At("send") /\ Arrive(c.line, n) /\ Goto(next) /\ UNCHANGED rttinfo

\* recvfrom: a connected socket is never given another host's datagram.
Delivered(i, next) ==
    /\ At("recv") /\ net.s2c[i] > 0
    /\ i = Stray => prog[1] \notin Connected
    /\ net' = [net EXCEPT !.s2c[i] = @ - 1]
    /\ c' = [c EXCEPT !.rx = i, !.pc = next]
    /\ UNCHANGED <<rttinfo, srv>>

Recvfrom(next) == \E i \in {Stray} \cup Dgs : Delivered(i, next)

Fputs(next) ==
    /\ At("print")
    /\ c' = [c EXCEPT !.out = Append(@, <<c.line, c.rx>>), !.pc = next]
    /\ UNCHANGED <<rttinfo, net, srv>>

Moves(p, next) == At(p) /\ Goto(next) /\ UNCHANGED <<rttinfo, net, srv>>

\* alarm(seconds)
Alarm(next) ==
    /\ At("alarm")
    /\ c' = [c EXCEPT !.alarm = TRUE, !.pc = next]
    /\ UNCHANGED <<rttinfo, net, srv>>

\* A wait that gives up: select or recvfrom with a timeout.
TimesOut(next) ==
    /\ At("recv")
    /\ c' = [c EXCEPT !.late = TRUE, !.pc = next]
    /\ UNCHANGED <<rttinfo, net, srv>>

\* SIGALRM while the handler only returns: it ends a system call that is
\* blocked, and is lost anywhere else; a blocked signal stays pending.
Interruptible == At("pselect") \/ (At("recv") /\ ~c.mask)
ReturningHandler ==
    /\ c.alarm
    /\ c' = [c EXCEPT !.alarm = FALSE, !.late = TRUE,
                      !.pending = c.mask /\ ~Interruptible,
                      !.pc = IF Interruptible THEN "intr" ELSE @]
    /\ UNCHANGED <<rttinfo, net, srv>>

\* SIGALRM while the handler calls siglongjmp(jmpbuf): a jump through a buffer
\* that was never set, or whose function has returned, has no defined outcome.
JumpingHandler ==
    /\ c.alarm
    /\ c' = [c EXCEPT !.alarm = FALSE, !.late = TRUE,
                      !.pc = IF c.jmpbuf THEN "intr" ELSE "crash"]
    /\ UNCHANGED <<rttinfo, net, srv>>

Setjmp(next) ==
    /\ At("setjmp")
    /\ c' = [c EXCEPT !.jmpbuf = TRUE, !.pc = next]
    /\ UNCHANGED <<rttinfo, net, srv>>

-----------------------------------------------------------------------------
(* The dg_cli functions. *)

\* lib/dg_cli.c; sigio/dgcli01.c and dgcliinetaddr.c differ in what they print.
dg_cli == Fgets \/ Sendto(1, "recv") \/ Recvfrom("print") \/ Fputs("gets")
dgcli01 == dg_cli
dgcliinetaddr == dg_cli

\* udpcliserv/dgcliaddr.c: a reply that is not from the server is dropped, and
\* the next line is read.
dgcliaddr ==
    \/ Fgets \/ Sendto(1, "recv")
    \/ (\E i \in {Stray} \cup Dgs : Delivered(i, IF i = Stray THEN "gets" ELSE "print"))
    \/ Fputs("gets")

\* udpcliserv/dgcliconnect.c: if no process has the server's port open, the
\* ICMP error makes Write or Read fail; the servers here are running.
dgcliconnect == dg_cli

\* udpcliserv/dgclibig.c: one datagram of the largest size.
dgclibig ==
    \/ c.line = 0 /\ Fgets
    \/ Sendto(1, "recv") \/ Recvfrom("print") \/ Fputs("done")

\* udpcliserv/dgcliloop1.c and dgcliloop3.c: NDG datagrams, no reply read.
dgcliloop1 == Fgets \/ Sendto(1, "gets")
dgcliloop3 == dgcliloop1

\* advio/dgclitimeo.c, dgclitimeo1.c (select with a timeout before the
\* recvfrom) and dgclitimeo2.c (SO_RCVTIMEO).
dgclitimeo == dg_cli \/ TimesOut("gets")
dgclitimeo1 == dgclitimeo
dgclitimeo2 == dgclitimeo

\* advio/dgclitimeo3.c
dgclitimeo3 ==
    \/ Fgets \/ Sendto(1, "alarm") \/ Alarm("call")
    \/ Moves("call", "recv") \/ Recvfrom("stop")
    \/ At("stop") /\ c' = [c EXCEPT !.alarm = FALSE, !.pc = "print"]
                  /\ UNCHANGED <<rttinfo, net, srv>>
    \/ Fputs("gets") \/ Moves("intr", "gets")
    \/ ReturningHandler

\* bcast/dgclibcast1.c: read the replies of all hosts until SIGALRM.
dgclibcast1 ==
    \/ Fgets \/ Sendto(Hosts, "alarm") \/ Alarm("call")
    \/ Moves("call", "recv") \/ Recvfrom("print")
    \/ Fputs("call") \/ Moves("intr", "gets")
    \/ ReturningHandler

\* bcast/dgclibcast2.c sleeps before it prints, which SIGALRM cuts short.
dgclibcast2 == dgclibcast1

\* bcast/dgclibcast3.c: SIGALRM is blocked but for the recvfrom and the calls
\* on both sides of it; unblocking runs the handler of a pending one.
dgclibcast3 ==
    \/ Fgets \/ Sendto(Hosts, "alarm") \/ Alarm("unblock")
    \/ /\ At("unblock")
       /\ c' = [c EXCEPT !.mask = FALSE, !.pending = FALSE, !.pc = "call"]
       /\ UNCHANGED <<rttinfo, net, srv>>
    \/ Moves("call", "recv") \/ Recvfrom("block")
    \/ /\ At("block")
       /\ c' = [c EXCEPT !.mask = TRUE, !.pc = "print"]
       /\ UNCHANGED <<rttinfo, net, srv>>
    \/ Fputs("unblock")
    \/ /\ At("intr")
       /\ c' = [c EXCEPT !.mask = TRUE, !.pc = "gets"]
       /\ UNCHANGED <<rttinfo, net, srv>>
    \/ ReturningHandler

\* bcast/dgclibcast4.c: SIGALRM is delivered only inside pselect.
dgclibcast4 ==
    \/ Fgets \/ Sendto(Hosts, "alarm")
    \/ /\ At("alarm")
       /\ c' = [c EXCEPT !.mask = TRUE, !.alarm = TRUE, !.pc = "pselect"]
       /\ UNCHANGED <<rttinfo, net, srv>>
    \/ /\ At("pselect")
       /\ c' = IF c.pending THEN [c EXCEPT !.pending = FALSE, !.pc = "gets"]
                            ELSE [c EXCEPT !.pc = "recv"]
       /\ c.pending \/ \E i \in {Stray} \cup Dgs : net.s2c[i] > 0
       /\ UNCHANGED <<rttinfo, net, srv>>
    \/ Recvfrom("print") \/ Fputs("pselect") \/ Moves("intr", "gets")
    \/ ReturningHandler

\* bcast/dgclibcast5.c: the handler jumps out of the loop.
dgclibcast5 ==
    \/ Fgets \/ Sendto(Hosts, "alarm") \/ Alarm("setjmp") \/ Setjmp("recv")
    \/ Recvfrom("print") \/ Fputs("setjmp") \/ Moves("intr", "gets")
    \/ JumpingHandler

\* mcast/dgclibcast1.c, dgclimcast5.c and dgclimcast6.c: the loops of the
\* broadcast clients without SO_BROADCAST.
mcast_dgclibcast1 == dgclibcast1
dgclimcast5 == dgclibcast5
dgclimcast6 == dgclibcast5

\* bcast/dgclibcast6.c: the handler writes to a pipe that select watches.
\* Datagrams that select reported are read first.
dgclibcast6 ==
    \/ Fgets \/ Sendto(Hosts, "alarm") \/ Alarm("select")
    \/ /\ At("select")
       /\ \/ /\ \E i \in {Stray} \cup Dgs : net.s2c[i] > 0
             /\ c' = [c EXCEPT !.rpipe = c.pipe, !.pc = "recv"]
          \/ /\ \A i \in {Stray} \cup Dgs : net.s2c[i] = 0
             /\ c.pipe > 0
             /\ c' = [c EXCEPT !.rpipe = c.pipe, !.pc = "check"]
       /\ UNCHANGED <<rttinfo, net, srv>>
    \/ Recvfrom("print") \/ Fputs("check")
    \/ /\ At("check")
       /\ c' = IF c.rpipe > 0
               THEN [c EXCEPT !.pipe = @ - 1, !.rpipe = 0, !.pc = "gets"]
               ELSE [c EXCEPT !.pc = "select"]
       /\ UNCHANGED <<rttinfo, net, srv>>
    \/ /\ c.alarm
       /\ c' = [c EXCEPT !.alarm = FALSE, !.late = TRUE, !.pipe = @ + 1]
       /\ UNCHANGED <<rttinfo, net, srv>>

-----------------------------------------------------------------------------
(* lib/rtt.c and rtt/dg_send_recv.c: a sequence number in every request, and
   retransmission with Jacobson's estimator and exponential backoff.  Times
   are in sixty-fourths of a second.                                        *)

rtt_minmax(rto) ==
    CASE rto < RTT_RXTMIN -> RTT_RXTMIN
      [] rto > RTT_RXTMAX -> RTT_RXTMAX
      [] OTHER -> rto

RTT_RTOCALC(srtt, rttvar) == srtt + 4 * rttvar

\* srtt = 0, rttvar = 0.75: the first timeout is three seconds.
rtt_init == [srtt |-> 0, rttvar |-> 48, rto |-> rtt_minmax(RTT_RTOCALC(0, 48)), nrexmt |-> 0]

rtt_newpack(r) == [r EXCEPT !.nrexmt = 0]

\* The gains are 1/8 and 1/4; the differences are kept non-negative so that
\* the integer division rounds down on both sides of zero.
rtt_stop(r, rtt) ==
    LET up == rtt >= r.srtt
        delta == IF up THEN rtt - r.srtt ELSE r.srtt - rtt
        srtt == IF up THEN r.srtt + delta \div 8 ELSE r.srtt - delta \div 8
        rttvar == (3 * r.rttvar + delta) \div 4
    IN  [r EXCEPT !.srtt = srtt, !.rttvar = rttvar,
                  !.rto = rtt_minmax(RTT_RTOCALC(srtt, rttvar))]

\* The next timeout is twice as long; more than RTT_MAXNREXMT of them give up.
rtt_timeout(r) == [r EXCEPT !.rto = 2 * @, !.nrexmt = @ + 1]
GiveUp(r) == r.nrexmt > RTT_MAXNREXMT

\* mutation: any reply of the server will do
AnyReply(i) == i # Stray

\* the sequence number of the reply is that of the request
Matches(i) == i = c.line

\* One call: send, start the timer, set the jump buffer, read until the reply
\* to this request, stop the timer.  A timeout resends or gives up, wherever
\* it interrupts.  The buffer of an earlier call is not usable.
dg_send_recv ==
    \/ /\ At("newpack")
       /\ rttinfo' = rtt_newpack(rttinfo)
       /\ c' = [c EXCEPT !.jmpbuf = FALSE, !.pc = "send"]
       /\ UNCHANGED <<net, srv>>
    \/ Sendto(1, "alarm") \/ Alarm("setjmp") \/ Setjmp("recv")
    \/ (\E i \in {Stray} \cup Dgs : Delivered(i, IF Matches(i) THEN "stop" ELSE "recv"))
    \/ /\ At("stop")
       /\ c' = [c EXCEPT !.alarm = FALSE, !.pc = "print"]
       /\ \E s \in Samples : rttinfo' = rtt_stop(rttinfo, s)
       /\ UNCHANGED <<net, srv>>
    \/ /\ At("intr")
       /\ rttinfo' = rtt_timeout(rttinfo)
       /\ Goto(IF GiveUp(rttinfo') THEN "gaveup" ELSE "send")
       /\ UNCHANGED <<net, srv>>
    \/ JumpingHandler

\* rtt/dg_cli.c and Dg_send_recv, which quits when dg_send_recv gives up.
rtt_dg_cli ==
    \/ /\ At("gets")
       /\ c' = IF c.line < N THEN [c EXCEPT !.line = @ + 1, !.pc = "newpack"]
                             ELSE [c EXCEPT !.pc = "done"]
       /\ UNCHANGED <<rttinfo, net, srv>>
    \/ dg_send_recv
    \/ Fputs("gets") \/ Moves("gaveup", "quit")

-----------------------------------------------------------------------------
(* The mains: a socket, the server's address, and one dg_cli. *)

Runs(name) == prog[1] = name

udpcli01 == Runs("udpcli01") /\ dg_cli
udpcli02 == Runs("udpcli02") /\ dgcliaddr
udpcli03 == Runs("udpcli03") /\ dgcliinetaddr
udpcli04 == Runs("udpcli04") /\ dgcliconnect
udpcli06 == Runs("udpcli06") /\ dgcliloop1
udpcli08 == Runs("udpcli08") /\ dgcliloop3
udpcli10 == Runs("udpcli10") /\ dgclibig
unixdgcli01 == Runs("unixdgcli01") /\ dg_cli
advio_udpcli01 == Runs("advio_udpcli01") /\ dgclitimeo1
advio_udpcli02 == Runs("advio_udpcli02") /\ dgclitimeo2
advio_udpcli03 == Runs("advio_udpcli03") /\ dgclitimeo3
bcast_udpcli01 == Runs("bcast_udpcli01") /\ dgclibcast1
bcast_udpcli02 == Runs("bcast_udpcli02") /\ dgclibcast2
bcast_udpcli03 == Runs("bcast_udpcli03") /\ dgclibcast3
bcast_udpcli04 == Runs("bcast_udpcli04") /\ dgclibcast4
bcast_udpcli05 == Runs("bcast_udpcli05") /\ dgclibcast5
bcast_udpcli06 == Runs("bcast_udpcli06") /\ dgclibcast6
mcast_udpcli01 == Runs("mcast_udpcli01") /\ mcast_dgclibcast1
mcast_udpcli05 == Runs("mcast_udpcli05") /\ dgclimcast5
mcast_udpcli06 == Runs("mcast_udpcli06") /\ dgclimcast6
rtt_udpcli01 == Runs("rtt_udpcli01") /\ rtt_dg_cli
sigio_udpcli01 == Runs("sigio_udpcli01") /\ dgcli01

\* names/daytimeudpcli1.c: one empty request, one reply.
daytimeudpcli1 == Runs("daytimeudpcli1") /\ dgclibig
\* names/daytimeudpcli2.c, over a connected socket.
daytimeudpcli2 == Runs("daytimeudpcli2") /\ dgclibig

\* advio/daytimeudpcli3.c and 4: the reply is looked at with MSG_PEEK first.
PeekThenRead ==
    \/ c.line = 0 /\ Fgets
    \/ Sendto(1, "peek")
    \/ /\ \E i \in {Stray} \cup Dgs : net.s2c[i] > 0 /\ (i = Stray => prog[1] \notin Connected)
       /\ Moves("peek", "recv")
    \/ Recvfrom("print") \/ Fputs("done")
daytimeudpcli3 == Runs("daytimeudpcli3") /\ PeekThenRead
daytimeudpcli4 == Runs("daytimeudpcli4") /\ PeekThenRead

-----------------------------------------------------------------------------
(* The servers. *)

Serves(name) == prog[2] = name
Pending == {i \in Dgs : net.c2s[i] > 0}

\* Recvfrom and Sendto back to the address that recvfrom stored.
Echo ==
    \E i \in Pending :
      /\ net' = [net EXCEPT !.c2s[i] = @ - 1, !.s2c[i] = @ + 1]
      /\ UNCHANGED <<c, rttinfo, srv>>

\* lib/dg_echo.c
dg_echo == Echo
\* advio/dgechoaddr.c: Recvfrom_flags, and the reply to the same address.
dgechoaddr == Echo

udpserv01 == Serves("udpserv01") /\ dg_echo
unixdgserv01 == Serves("unixdgserv01") /\ dg_echo
mcast_udpserv01 == Serves("mcast_udpserv01") /\ dg_echo
advio_udpserv01 == Serves("advio_udpserv01") /\ dgechoaddr

\* names/daytimeudpsrv2.c and 3: the reply is the time of day.
daytimeudpsrv2 == Serves("daytimeudpsrv2") /\ Echo
daytimeudpsrv3 == Serves("daytimeudpsrv3") /\ Echo

\* advio/udpserv03.c and 04: one child for every address of the host, and one
\* for the wildcard; the datagram reaches the child of its destination.
mydg_echo == Echo
udpserv03 == Serves("udpserv03") /\ mydg_echo
mydg_echo04 == Echo
udpserv04 == Serves("udpserv04") /\ mydg_echo04

\* udpcliserv/dgecholoop1.c and 2: datagrams are counted, not answered.
Count ==
    \E i \in Pending :
      /\ net' = [net EXCEPT !.c2s[i] = @ - 1]
      /\ srv' = [srv EXCEPT !.count = @ + 1]
      /\ UNCHANGED <<c, rttinfo>>
dgecholoop1 == Count
dgecholoop2 == Count
udpserv06 == Serves("udpserv06") /\ dgecholoop1
udpserv07 == Serves("udpserv07") /\ dgecholoop2

\* udpcliserv/udpservselect01.c: one select for the listening TCP socket and
\* the UDP socket; a TCP client is given to a child (see TcpServ), and a
\* datagram is echoed in the same pass.
udpservselect01 ==
    /\ Serves("udpservselect01")
    /\ srv.conns > 0 \/ Pending # {}
    /\ srv' = [srv EXCEPT !.conns = 0]
    /\ IF Pending = {} THEN UNCHANGED net
       ELSE \E i \in Pending : net' = [net EXCEPT !.c2s[i] = @ - 1, !.s2c[i] = @ + 1]
    /\ UNCHANGED <<c, rttinfo>>

TcpConnect ==
    /\ Serves("udpservselect01") /\ srv.conns = 0 /\ At("send")
    /\ srv' = [srv EXCEPT !.conns = 1]
    /\ UNCHANGED <<c, rttinfo, net>>

-----------------------------------------------------------------------------
(* sigio/dgecho01.c: the SIGIO handler reads datagrams into the ring dg, the
   main loop sends them back.  SIGIO is blocked while nqueue is tested and
   decremented; signals that arrive while it is blocked become one.        *)

InHandler == srv.hpc # "out"
Runs01(p) == srv.pc = p /\ ~InHandler /\ UNCHANGED <<c, rttinfo>>

\* SIGIO interrupts the unblocked part of the loop and the sigsuspend.
Deliver01 ==
    /\ srv.sigio /\ ~InHandler
    /\ srv.pc \in {"send", "next", "block"} \/ (srv.pc = "wait" /\ srv.nqueue = 0)
    /\ srv' = [srv EXCEPT !.sigio = FALSE, !.hpc = "read"]
    /\ UNCHANGED <<c, rttinfo, net>>

\* One turn of the handler's loop.
sig_io ==
    /\ srv.hpc = "read"
    /\ \/ /\ srv.nqueue >= QSIZE
          /\ srv' = [srv EXCEPT !.pc = "overflow", !.hpc = "out"]
          /\ UNCHANGED net
       \/ /\ srv.nqueue < QSIZE /\ Pending = {}
          /\ srv' = [srv EXCEPT !.hpc = "out"]
          /\ UNCHANGED net
       \/ \E i \in Pending :
          /\ srv.nqueue < QSIZE
          /\ net' = [net EXCEPT !.c2s[i] = @ - 1]
          /\ srv' = [srv EXCEPT !.dg[srv.iput] = i, !.nqueue = @ + 1,
                                !.iput = (@ + 1) % QSIZE, !.read = Append(@, i)]
    /\ UNCHANGED <<c, rttinfo>>

\* The main loop of dg_echo.
dgecho01 ==
    \/ /\ Runs01("wait") /\ srv.nqueue > 0
       /\ srv' = [srv EXCEPT !.pc = "send"]
       /\ UNCHANGED net
    \/ /\ Runs01("send")
       /\ net' = [net EXCEPT !.s2c[srv.dg[srv.iget]] = @ + 1]
       /\ srv' = [srv EXCEPT !.pc = "next", !.sent = Append(@, srv.dg[srv.iget])]
    \/ /\ Runs01("next")
       /\ srv' = [srv EXCEPT !.iget = (@ + 1) % QSIZE, !.pc = "block"]
       /\ UNCHANGED net
    \/ /\ Runs01("block")
       /\ srv' = [srv EXCEPT !.pc = "dec"]
       /\ UNCHANGED net
    \/ /\ Runs01("dec")
       /\ srv' = [srv EXCEPT !.nqueue = @ - 1, !.pc = "wait"]
       /\ UNCHANGED net
    \/ Deliver01
    \/ sig_io

sigio_udpserv01 == Serves(Sigio) /\ dgecho01

-----------------------------------------------------------------------------
(* The network, which is external. *)

FaultAllowed ==
    /\ Len(net.faults) < MaxFaults
    /\ prog[1] \notin {"unixdgcli01"}

\* A lost request; to the client a lost reply is the same.
Lose ==
    /\ FaultAllowed
    /\ \E i \in Dgs : net.c2s[i] > 0 /\ net' = [net EXCEPT !.c2s[i] = @ - 1, !.faults = Append(@, "lost")]
    /\ UNCHANGED <<c, rttinfo, srv>>

Duplicate ==
    /\ FaultAllowed
    /\ \E i \in Dgs : net.s2c[i] > 0 /\ net' = [net EXCEPT !.s2c[i] = @ + 1, !.faults = Append(@, "dup")]
    /\ UNCHANGED <<c, rttinfo, srv>>

StrayArrives ==
    /\ FaultAllowed
    /\ net' = [net EXCEPT !.s2c[Stray] = @ + 1, !.faults = Append(@, "stray")]
    /\ UNCHANGED <<c, rttinfo, srv>>

Init ==
    /\ prog \in Pairs
    /\ c = [pc |-> "gets", line |-> 0, rx |-> 0, out |-> <<>>, alarm |-> FALSE, mask |-> FALSE,
            pending |-> FALSE, jmpbuf |-> FALSE, pipe |-> 0, rpipe |-> 0, late |-> FALSE]
    /\ rttinfo = rtt_init
    /\ net = [c2s |-> [i \in Dgs |-> 0], s2c |-> [i \in {Stray} \cup Dgs |-> 0], faults |-> <<>>]
    /\ srv = [conns |-> 0, count |-> 0, sigio |-> FALSE, dg |-> [i \in 0..QSIZE-1 |-> 0], iget |-> 0,
              iput |-> 0, nqueue |-> 0, pc |-> "wait", hpc |-> "out", read |-> <<>>, sent |-> <<>>]

Client ==
    /\ \/ udpcli01 \/ udpcli02 \/ udpcli03 \/ udpcli04 \/ udpcli06 \/ udpcli08 \/ udpcli10
       \/ unixdgcli01 \/ advio_udpcli01 \/ advio_udpcli02 \/ advio_udpcli03
       \/ bcast_udpcli01 \/ bcast_udpcli02 \/ bcast_udpcli03 \/ bcast_udpcli04
       \/ bcast_udpcli05 \/ bcast_udpcli06 \/ mcast_udpcli01 \/ mcast_udpcli05
       \/ mcast_udpcli06 \/ rtt_udpcli01 \/ sigio_udpcli01 \/ daytimeudpcli1
       \/ daytimeudpcli2 \/ daytimeudpcli3 \/ daytimeudpcli4
    /\ UNCHANGED prog

Server ==
    /\ \/ udpserv01 \/ unixdgserv01 \/ mcast_udpserv01 \/ advio_udpserv01 \/ daytimeudpsrv2
       \/ daytimeudpsrv3 \/ udpserv03 \/ udpserv04 \/ udpserv06 \/ udpserv07
       \/ udpservselect01 \/ sigio_udpserv01
    /\ UNCHANGED prog

Network == (Lose \/ Duplicate \/ StrayArrives \/ TcpConnect) /\ UNCHANGED prog
Next == Client \/ Server \/ Network
Spec == Init /\ [][Next]_vars /\ WF_vars(Client) /\ WF_vars(Server)
-----------------------------------------------------------------------------
Faulty(f) == \E k \in 1..Len(net.faults) : net.faults[k] = f

\* A client shows a reply beside the line it answers.  dg_send_recv does so
\* whatever the network does, because it compares sequence numbers; dg_cli
\* does so until a datagram is duplicated, another host answers or an earlier
\* wait gave up.  The connected clients and dgcliaddr, which compares
\* addresses, never show what another host sent.
RepliesMatch ==
    \A k \in 1..Len(c.out) :
      LET line == c.out[k][1]
          shown == c.out[k][2]
      IN  /\ shown # line => /\ prog[1] \notin Rtt
                             /\ c.late \/ Faulty("dup") \/ Faulty("stray")
          /\ shown = Stray => prog[1] \notin Connected \cup {"udpcli02"}
          /\ shown <= line

\* dgecho01 echoes what its handler read, in the order it was read and once
\* each, while the handler refills the ring: nqueue is the number of slots
\* between iput and iget, and counts the datagram being sent.
RingSound ==
    /\ srv.sent = SubSeq(srv.read, 1, Len(srv.sent))
    /\ ~InHandler /\ srv.pc # "overflow" =>
         Len(srv.read) - Len(srv.sent) + (IF srv.pc \in {"next", "block", "dec"} THEN 1 ELSE 0) = srv.nqueue

\* What dg_send_recv says when it gives up: the request was sent
\* RTT_MAXNREXMT + 1 times.  Nothing else makes it give up.
GivesUpAfterRetries == c.pc \in {"gaveup", "quit"} => rttinfo.nrexmt = RTT_MAXNREXMT + 1

Idle == c.pc \in {"gets", "done", "quit", "crash"}
\* SIGALRM came between two calls of recvfrom, and nothing will end the next.
AlarmMissed ==
    /\ prog[1] \in {"advio_udpcli03", "bcast_udpcli01", "bcast_udpcli02", "bcast_udpcli03", "mcast_udpcli01"}
    /\ At("recv") /\ ~c.alarm
\* A client that waits without a timeout for a reply that was lost.
LostReply ==
    /\ Faulty("lost") \/ Faulty("stray") \/ Faulty("dup") \/ srv.pc = "overflow"
    /\ prog[1] \in {"udpcli01", "udpcli02", "udpcli03", "udpcli04", "udpcli10", "sigio_udpcli01",
                    "daytimeudpcli1", "daytimeudpcli2", "daytimeudpcli3", "daytimeudpcli4"}
    /\ c.pc \in {"recv", "peek"}
\* Every wait for replies ends, but for the clients whose handler only
\* interrupts recvfrom, when SIGALRM comes between two calls, and for those
\* without a timeout, when the reply is lost.  dgclibcast4, 5 and 6 and
\* dg_send_recv are free of that race.
WaitsEnd == []<>Idle \/ <>[]AlarmMissed \/ <>[]LostReply

\* SIGIO is never lost: what reaches the socket of dgecho01 is read, unless
\* the ring was full, even when many datagrams raise one signal.
RingDrained == Pending = {} \/ srv.pc = "overflow"
DatagramsRead == []<>RingDrained
=============================================================================
