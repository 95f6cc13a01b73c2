------------------------------ MODULE SockTool ------------------------------
(***************************************************************************)
(* The sock program of unpv13e: a client and a server, both running it,    *)
(* that copy standard input to the connection and the connection to        *)
(* standard output (loop_tcp, loop_udp), or send and discard buffers       *)
(* (source and sink); and its concurrent server, whose parent waits with   *)
(* a signal for each child before it accepts again (servopen, tellwait).   *)
(*                                                                         *)
(* A byte is "x" (any), "n" (newline) or "r" (carriage return).            *)
(***************************************************************************)
EXTENDS Integers, FiniteSets, Sequences, SequencesExt

CONSTANTS Configs,    \* the command lines to run, a record of options, with what the
                      \* standard inputs of the two ends may hold
          readlen,
          nbuf,       \* buffers the source writes
          SockBuf,    \* bytes (tcp) or datagrams (udp) a socket buffer holds
          UIO_MAXIOV,
          NConn       \* connections made to the concurrent server

VARIABLES cfg,        \* the command line
          p,          \* the two processes
          sk,         \* their sockets: queue of what arrived, end of file, reset, closed
          fk          \* the concurrent server's parent and its children

vars == <<cfg, p, sk, fk>>

End == {"client", "server"}
Peer(e) == CHOOSE f \in End : f # e
Upto(s, n) == SubSeq(s, 1, IF Len(s) < n THEN Len(s) ELSE n)
From(s, n) == SubSeq(s, n + 1, Len(s))
Gone(e) == p[e].pc \in {"done", "error", "killed", "quit", "usage"}
At(e, l) == p[e].pc = l
Go(e, l) == p' = [p EXCEPT ![e].pc = l]

-----------------------------------------------------------------------------
(* The command line *)

\* the options that make no sense together
usage(c) == \/ c.udp /\ (c.halfclose # {} \/ c.opts \cap {"debug", "linger", "nodelay"} # {})
            \/ ~c.udp /\ c.foreign

\* sockopts(sockfd, doall): the options it sets on a socket, in its order; the
\* IP options are set by the first of its two calls only, those of a
\* connection by the second
FirstOpts(c, doall) ==
  {o \in c.opts : \/ o \in {"debug", "dontroute", "sroute", "broadcast"}
                  \/ o \in {"iptos", "ipttl"} /\ ~doall
                  \/ o = "maxseg" /\ ~c.udp
                  \/ o = "onesbcast" /\ "broadcast" \in c.opts}
LaterOpts(c, doall) ==
  {o \in c.opts : \/ o \in {"joinip", "mcastttl"}
                  \/ o \in {"keepalive", "nodelay", "linger"} /\ doall /\ ~c.udp
                  \/ o \in {"rcvtimeo", "sndtimeo"} /\ doall}
sockopts(c, doall) ==
  FirstOpts(c, doall) \union LaterOpts(c, doall)
    \union {o \in c.opts : o = "sigio" \/ (o = "recvdstaddr" /\ c.udp)}

\* the options that can have an effect on this kind of socket
Meaningful(c) == c.opts \ ((IF c.udp THEN {"maxseg", "keepalive", "nodelay", "linger"}
                                     ELSE {"recvdstaddr"})
                           \union (IF "broadcast" \in c.opts THEN {} ELSE {"onesbcast"}))

\* cliopen: a socket, its buffers and first options, connect, the rest of the
\* options; connect fails when there is no listener (TCP)
cliopen ==
  /\ At("client", "init")
  /\ \/ /\ cfg.udp \/ At("server", "accept")
        /\ p' = [p EXCEPT !["client"].pc = "run",
                          !["client"].set = sockopts(cfg, FALSE) \union sockopts(cfg, TRUE)]
     \/ ~cfg.udp /\ Gone("server") /\ Go("client", "error")
     \/ cfg.opts # {} /\ Go("client", "error")
  /\ UNCHANGED <<cfg, sk, fk>>

\* servopen for UDP: bind, perhaps connect to the foreign address, and only
\* the second call of sockopts; for TCP: listen, and accept one connection
servopen ==
  /\ \/ /\ At("server", "init")
        /\ \/ /\ cfg.udp
              /\ p' = [p EXCEPT !["server"].pc = "run", !["server"].set = sockopts(cfg, TRUE)]
           \/ /\ ~cfg.udp
              /\ p' = [p EXCEPT !["server"].pc = "accept", !["server"].set = sockopts(cfg, FALSE)]
           \/ cfg.opts # {} /\ Go("server", "error")
     \/ /\ At("server", "accept") /\ p["client"].pc \notin {"init", "error"}
        /\ p' = [p EXCEPT !["server"].pc = "run", !["server"].set = @ \union sockopts(cfg, TRUE)]
  /\ UNCHANGED <<cfg, sk, fk>>

-----------------------------------------------------------------------------
(* The socket *)

\* mutation: the newline is replaced, not preceded, by a carriage return
CrlfReplaces(s) == [i \in DOMAIN s |-> IF s[i] = "n" THEN "r" ELSE s[i]]

\* -c: a carriage return before every newline sent, none in what is received;
\* the buffer for the result has writelen bytes (-w), and err_quit ends the
\* program when a converted byte would take the last of them
crlf_add(s) == FlattenSeq([i \in DOMAIN s |-> IF s[i] = "n" THEN <<"r", "n">> ELSE <<s[i]>>])
AddQuits(s) == \/ Len(s) > cfg.wlen
               \/ Len(crlf_add(s)) > Len(s) /\ Len(crlf_add(s)) >= cfg.wlen
crlf_strip(s) == SelectSeq(s, LAMBDA b : b # "r")
StripQuits(s) == crlf_strip(s) # <<>> /\ Len(crlf_strip(s)) >= cfg.wlen

\* dowrite: the lengths of the pieces a buffer of n bytes is written in
dowrite(n) ==
  LET chunksize == IF n \div UIO_MAXIOV <= 0 THEN 1
                   ELSE n \div UIO_MAXIOV + (IF n % UIO_MAXIOV # 0 THEN 1 ELSE 0)
      count == IF n = 0 THEN 1 ELSE (n + chunksize - 1) \div chunksize IN
  IF cfg.chunk THEN [i \in 1..count |-> IF i < count THEN chunksize ELSE n - (count - 1) * chunksize]
               ELSE <<n>>

\* the datagram's or the stream's reception; a socket that is closed answers
\* with a reset, or with port unreachable
Arrive(e, data) ==
  LET f == Peer(e) IN
  IF sk[f].closed THEN sk' = [sk EXCEPT ![e].rst = TRUE]
  ELSE sk' = [sk EXCEPT ![f].q = IF cfg.udp THEN Append(@, data) ELSE @ \o data]

Closed(e) ==
  [sk EXCEPT ![e].closed = TRUE, ![e].q = <<>>,
             ![Peer(e)].fin = @ \/ (~cfg.udp /\ sk[e].q = <<>>),
             ![Peer(e)].rst = @ \/ (~cfg.udp /\ sk[e].q # <<>> /\ ~sk[Peer(e)].closed)]

\* writing p[e].buf: a stream takes what it has room for, a datagram goes at
\* once; a full udp buffer drops it.  After a reset, SIGPIPE; after port
\* unreachable, an error
Write(e, next) ==
  LET b == p[e].buf
      room == SockBuf - Len(sk[Peer(e)].q)
      k == IF cfg.udp THEN Len(b) ELSE IF room < Head(p[e].iov) THEN room ELSE Head(p[e].iov)
      left == From(b, k)
      iov == IF k = Head(p[e].iov) THEN Tail(p[e].iov)
                                   ELSE <<Head(p[e].iov) - k>> \o Tail(p[e].iov) IN
  \/ sk[e].rst /\ Go(e, IF cfg.udp THEN "error" ELSE "killed") /\ UNCHANGED sk
  \/ /\ ~sk[e].rst
     /\ cfg.udp \/ sk[Peer(e)].closed \/ k > 0 \/ b = <<>>
     /\ IF cfg.udp /\ room = 0 /\ ~sk[Peer(e)].closed THEN UNCHANGED sk
                                                      ELSE Arrive(e, Upto(b, k))
     /\ IF cfg.udp \/ sk[Peer(e)].closed \/ left = <<>>
        THEN p' = [p EXCEPT ![e].buf = <<>>, ![e].iov = <<>>, ![e].pc = next, ![e].i = IF cfg.sourcesink THEN @ + 1 ELSE @]
        ELSE p' = [p EXCEPT ![e].buf = left, ![e].iov = iov]

\* recv(readlen, flags): what it returns, a datagram longer than readlen cut;
\* MSG_PEEK leaves it in the queue.  Then the program does next with it
Received(e) == IF cfg.udp THEN Upto(Head(sk[e].q), readlen) ELSE Upto(sk[e].q, readlen)

Take(e, peek, next) ==
  /\ sk[e].q # <<>> /\ next
  /\ IF peek THEN UNCHANGED sk
     ELSE sk' = [sk EXCEPT ![e].q = IF cfg.udp THEN Tail(@) ELSE From(@, readlen)]

\* ... or end of file, or the reset or port unreachable that came back (after
\* both, systems differ in which one recv reports)
Recv(e, peek, next) ==
  \/ Take(e, peek, next)
  \/ sk[e].q = <<>> /\ sk[e].fin /\ Go(e, "close") /\ UNCHANGED sk
  \/ sk[e].q = <<>> /\ sk[e].rst /\ Go(e, "error") /\ UNCHANGED sk

\* writen(STDOUT_FILENO) of what was received, stripped with -c
Output(e, peek, data, next) ==
  IF cfg.crlf /\ StripQuits(data) THEN Go(e, "quit")
  ELSE p' = [p EXCEPT ![e].pc = next,
                      ![e].heard = cfg.udp,
                      ![e].out = Append(@, [peek |-> peek,
                                            data |-> IF cfg.crlf THEN crlf_strip(data) ELSE data])]

-----------------------------------------------------------------------------
(* Copying standard input and output *)

\* select: the socket if it is readable; standard input, which has its bytes
\* when they are typed and so may be late while the socket is readable
Select(e) ==
  LET sock == IF sk[e].q # <<>> \/ sk[e].fin \/ sk[e].rst THEN {"sock"} ELSE {} IN
  /\ At(e, "run")
  /\ \E in \in SUBSET (IF p[e].stdineof THEN {} ELSE {"in"}) :
       /\ in \union sock # {}
       /\ p' = [p EXCEPT ![e].rset = in \union sock, ![e].pc = "in"]
  /\ UNCHANGED sk

\* read of standard input; at its end -h shuts down the sending side and goes
\* back to select without looking at the socket, otherwise the loop ends
ReadStdin(e) ==
  LET data == Upto(p[e].in, readlen)
      towrite == IF cfg.crlf THEN crlf_add(data) ELSE data IN
  /\ At(e, "in")
  /\ \/ "in" \notin p[e].rset /\ Go(e, "sock") /\ UNCHANGED sk
     \/ /\ "in" \in p[e].rset /\ p[e].in = <<>>
        /\ IF e \in cfg.halfclose
           THEN /\ p' = [p EXCEPT ![e].stdineof = TRUE, ![e].pc = IF sk[e].rst THEN "error" ELSE "run"]
                /\ sk' = [sk EXCEPT ![Peer(e)].fin = @ \/ ~sk[e].rst]
           ELSE Go(e, "close") /\ UNCHANGED sk
     \/ /\ "in" \in p[e].rset /\ p[e].in # <<>>
        /\ IF cfg.crlf /\ AddQuits(data)
           THEN Go(e, "quit")
           ELSE p' = [p EXCEPT ![e].in = From(@, readlen), ![e].pc = "write", ![e].buf = towrite,
                               ![e].iov = IF cfg.udp THEN <<>> ELSE dowrite(Len(towrite))]
        /\ UNCHANGED sk

\* the descriptor the loop writes to, which takes no datagram when a UDP
\* server has no foreign address, and which an unconnected client sends to
\* the local servaddr, unset until a datagram has arrived
CanSend(e) == cfg.udp => \/ e = "client" /\ (cfg.connectudp \/ p[e].heard)
                         \/ e = "server" /\ cfg.foreign

WriteSock(e) ==
  /\ At(e, "write")
  /\ \/ CanSend(e) /\ Write(e, "sock")
     \/ ~CanSend(e) /\ Go(e, "error") /\ UNCHANGED sk

\* the socket: recv, perhaps with MSG_PEEK and then once more; a UDP server and
\* an unconnected client do not peek.  (The empty datagram that would end a
\* connected client is one no sock server sends.)
ReadSock(e) ==
  LET peek == e \in cfg.peek /\ ~(cfg.udp /\ (e = "server" \/ ~cfg.connectudp)) IN
  \/ /\ At(e, "sock")
     /\ \/ "sock" \notin p[e].rset /\ Go(e, "run") /\ UNCHANGED sk
        \/ /\ "sock" \in p[e].rset
           /\ Recv(e, peek, Output(e, peek, Received(e), IF peek THEN "again" ELSE "run"))
  \/ /\ At(e, "again")
     /\ Take(e, FALSE, Output(e, FALSE, Received(e), "run"))

\* pauseclose and close
Close(e) == At(e, "close") /\ sk' = Closed(e) /\ Go(e, "done")

\* exit, by err_sys, err_quit or a signal, closes the socket too
Exit(e) == Gone(e) /\ ~sk[e].closed /\ sk' = Closed(e) /\ UNCHANGED p

loop_tcp(e) == ~cfg.udp /\ (Select(e) \/ ReadStdin(e) \/ WriteSock(e) \/ ReadSock(e) \/ Close(e))

loop_udp(e) == cfg.udp /\ (Select(e) \/ ReadStdin(e) \/ WriteSock(e) \/ ReadSock(e) \/ Close(e))

-----------------------------------------------------------------------------
(* Source and sink *)

\* pattern: the buffer a source writes, of the length -w gives
pattern == [i \in 1..cfg.wlen |-> "x"]

\* nbuf writes; with ignorewerr the error of a write is cleared and the next
\* buffer is written, but SIGPIPE still ends a source_tcp
SourceLoop(e) ==
  /\ \/ /\ At(e, "run")
        /\ p' = [p EXCEPT ![e].pc = IF p[e].i = nbuf THEN "close" ELSE "write",
                          ![e].buf = pattern, ![e].iov = <<cfg.wlen>>]
        /\ UNCHANGED sk
     \/ /\ At(e, "write")
        /\ \/ Write(e, "run") /\ ~(cfg.ignorewerr /\ cfg.udp /\ sk[e].rst)
           \/ /\ cfg.ignorewerr /\ cfg.udp /\ sk[e].rst
              /\ sk' = [sk EXCEPT ![e].rst = FALSE]
              /\ p' = [p EXCEPT ![e].pc = "run", ![e].i = @ + 1]
     \/ Close(e)

source_tcp == ~cfg.udp /\ SourceLoop("client")
source_udp == cfg.udp /\ SourceLoop("client")

\* recv until it returns 0 (an empty datagram, for UDP), each time perhaps with
\* MSG_PEEK and then once more
SinkLoop(e) ==
  LET Seen(peek, d) ==
        p' = IF d = <<>> THEN [p EXCEPT ![e].pc = "close"]
             ELSE [p EXCEPT ![e].pc = IF peek THEN "again" ELSE "run",
                            ![e].out = Append(@, [peek |-> peek, data |-> d])]
      peek == e \in cfg.peek IN
  \/ At(e, "run") /\ Recv(e, peek, Seen(peek, Received(e)))
  \/ At(e, "again") /\ Take(e, FALSE, Seen(FALSE, Received(e)))
  \/ Close(e)

sink_tcp == ~cfg.udp /\ SinkLoop("server")
sink_udp == cfg.udp /\ SinkLoop("server")

-----------------------------------------------------------------------------
(* The concurrent server *)

\* TELL_WAIT: SIGUSR2 sets sigflag, and is blocked from here
TELL_WAIT ==
  /\ fk.pc = "init"
  /\ fk' = [fk EXCEPT !.pc = "accept", !.masked = TRUE]

\* servopen with -F: accept, fork; the parent closes its copy and waits
Accept ==
  /\ fk.pc = "accept" /\ fk.conns < NConn
  /\ fk' = [fk EXCEPT !.pc = "wait", !.conns = @ + 1, !.busy = @ + 1]

\* TELL_PARENT, by a child that is done with the terminal
TELL_PARENT ==
  /\ fk.busy > 0
  /\ IF fk.masked /\ fk.pc # "suspended"
     THEN fk' = [fk EXCEPT !.busy = @ - 1, !.pending = TRUE]
     ELSE fk' = [fk EXCEPT !.busy = @ - 1, !.sigflag = 1,
                           !.pc = IF @ = "suspended" THEN "wait" ELSE @]

\* WAIT_CHILD: while sigflag is 0, sigsuspend with nothing blocked; then the
\* mask of before TELL_WAIT comes back
WAIT_CHILD ==
  \/ /\ fk.pc = "wait"
     /\ fk' = IF fk.sigflag = 0 THEN [fk EXCEPT !.pc = "suspend"]
              ELSE [fk EXCEPT !.pc = "accept", !.sigflag = 0, !.masked = FALSE]
  \/ /\ fk.pc = "suspend"
     /\ fk' = IF fk.pending THEN [fk EXCEPT !.pc = "wait", !.pending = FALSE, !.sigflag = 1]
              ELSE [fk EXCEPT !.pc = "suspended"]

Parent == cfg.dofork /\ (TELL_WAIT \/ Accept \/ WAIT_CHILD) /\ UNCHANGED <<cfg, p, sk>>
Child == cfg.dofork /\ TELL_PARENT /\ UNCHANGED <<cfg, p, sk>>

-----------------------------------------------------------------------------
NewSock == [q |-> <<>>, fin |-> FALSE, rst |-> FALSE, closed |-> FALSE]

Init ==
  /\ cfg \in Configs
  /\ \E in \in cfg.inputs :
       /\ cfg.sourcesink \/ cfg.dofork => in["server"] = <<>>
       /\ p = [e \in End |-> [pc |-> IF usage(cfg) THEN "usage" ELSE IF cfg.dofork THEN "done" ELSE "init",
                              set |-> {}, in |-> in[e], typed |-> in[e], stdineof |-> FALSE,
                              rset |-> {}, buf |-> <<>>, iov |-> <<>>, i |-> 0,
                              out |-> <<>>, heard |-> FALSE]]
  /\ sk = [e \in End |-> [NewSock EXCEPT !.closed = cfg.dofork]]
  /\ fk = [pc |-> "init", masked |-> FALSE, pending |-> FALSE, sigflag |-> 0, conns |-> 0, busy |-> 0]

main(e) ==
  /\ ~cfg.dofork
  /\ \/ e = "client" /\ cliopen
     \/ e = "server" /\ servopen
     \/ /\ IF cfg.sourcesink
           THEN IF e = "client" THEN source_tcp \/ source_udp ELSE sink_tcp \/ sink_udp
           ELSE loop_tcp(e) \/ loop_udp(e)
        /\ UNCHANGED <<cfg, fk>>
     \/ Exit(e) /\ UNCHANGED <<cfg, fk>>

Next == (\E e \in End : main(e)) \/ Parent \/ Child

Spec == Init /\ [][Next]_vars
FairSpec == Spec /\ (\A e \in End : WF_vars(main(e))) /\ WF_vars(Parent) /\ WF_vars(Child)

-----------------------------------------------------------------------------
(* Properties *)

Consumed(e) ==
  LET got == SelectSeq(p[e].out, LAMBDA o : ~o.peek) IN
  FlattenSeq([i \in DOMAIN got |-> got[i].data])
Typed(e) == IF cfg.crlf THEN crlf_strip(p[e].typed) ELSE p[e].typed

\* What loop_tcp and the sink take from the connection (the recv after the
\* MSG_PEEK, not the peek) is, in order and once, what the other end typed or
\* sent, with the -c conversions of the two ends undoing each other and never
\* longer than the buffer of writelen bytes they are made in; what a
\* peek showed is the beginning of what the recv that repeats it returns; and
\* when an end that half-closed (-h) and its peer have ended normally, or the
\* source and the sink have, nothing that end sent is missing.
SockCopies ==
  \A e \in End :
    /\ ~cfg.udp /\ ~cfg.sourcesink =>
         /\ IsPrefix(Consumed(e), Typed(Peer(e)))
         /\ p[Peer(e)].stdineof /\ (\A f \in End : At(f, "done")) => Consumed(e) = Typed(Peer(e))
    /\ ~cfg.udp /\ cfg.sourcesink /\ (\A f \in End : At(f, "done")) =>
         Len(Consumed("server")) = nbuf * cfg.wlen
    /\ cfg.crlf => Len(p[e].buf) <= cfg.wlen /\ \A i \in DOMAIN p[e].out : Len(p[e].out[i].data) <= cfg.wlen
    /\ \A i \in 1..(Len(p[e].out) - 1) :
         p[e].out[i].peek => ~p[e].out[i+1].peek /\ IsPrefix(p[e].out[i].data, p[e].out[i+1].data)

\* The two calls of sockopts, each of which skips some options, leave no
\* option of the command line unset on the socket of a client or of an
\* accepted connection when data begins to flow; and the parent of a
\* concurrent server goes back to accept only when every child has told it
\* that it is done with the terminal.
SetUp ==
  /\ \A e \in End : p[e].pc \in {"in", "write", "sock", "close"} /\ ~(cfg.udp /\ e = "server")
                     => Meaningful(cfg) \subseteq p[e].set
  /\ fk.pc = "accept" => fk.busy = 0

\* A TCP exchange ends, unless the two ends block each other: both in write
\* with both socket buffers full, neither reading.
SockEnds ==
  (~cfg.udp /\ p["server"].pc = "run")
     ~> ((\A e \in End : Gone(e)) \/ [](\A e \in End : At(e, "write") /\ Len(sk[e].q) = SockBuf))
=============================================================================
