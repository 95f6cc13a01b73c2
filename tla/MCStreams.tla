----------------------------- MODULE MCStreams -----------------------------
(***************************************************************************)
(* Clients of stream sockets, checked together: the line-echo clients with *)
(* their servers (StrCli), the Web clients (WebGet) and the sock program   *)
(* (SockTool).  which says the one that runs; the others stay in an        *)
(* initial state.                                                          *)
(***************************************************************************)
EXTENDS Integers, Sequences

\* Every client with a server it is written for; a server that keeps what it read in stdio's
\* buffer with one client of each kind; every daytime client and server once.
LinePairs ==
  ({"tcpcli01", "tcpcli04", "tcpcli05", "tcpcli07", "tcpcli10", "tcpcli11", "select_tcpcli01",
    "select_tcpcli02", "advio_tcpcli01", "advio_tcpcli02", "advio_tcpcli03", "advio_tcpcli04",
    "nonblock_tcpcli01", "nonblock_tcpcli02", "nonblock_tcpcli04", "threads_tcpcli01",
    "threads_tcpcli02"} \X {"str_echo"})
  \cup ({"tcpcli01", "select_tcpcli01", "select_tcpcli02", "nonblock_tcpcli01",
         "nonblock_tcpcli02", "threads_tcpcli01"} \X {"str_echo_stdio02"})
  \cup {<<"tcpcli08", "str_echo08">>, <<"tcpcli09", "str_echo09">>, <<"unixstrcli01", "strecho">>,
        <<"daytimetcpcli", "daytimetcpsrv">>, <<"daytimetcpcli1", "daytimetcpsrv1">>,
        <<"daytimetcpcli2", "daytimetcpsrv2">>, <<"daytimetcpcli3", "daytimetcpsrv3">>,
        <<"daytimetcpcliv6", "daytimetcpsrvv6">>,
        <<"names_daytimetcpcli", "inetd_daytimetcpsrv2">>,
        <<"names_daytimetcpcli1", "inetd_daytimetcpsrv3">>,
        <<"names_daytimetcpcli2", "names_daytimetcpsrv1">>,
        <<"names_daytimetcpcli3", "names_daytimetcpsrv2">>,
        <<"nonblock_daytimetcpcli", "names_daytimetcpsrv3">>,
        <<"unix_daytimetcpcli", "names_daytimetcpsrv4">>,
        <<"advio_daytimetcpcli", "unix_daytimetcpsrv2">>}

WebProgs == {"web", "web01", "web02", "web03"}

SockInputs ==
  {[client |-> <<"x", "x", "n", "x">>, server |-> s] : s \in {<<>>, <<"x", "n", "x">>}}
ShortInputs == {[client |-> <<"x", b>>, server |-> <<>>] : b \in {"x", "n"}}

\* The stream loop with every conversion, half-close and peek, and conversions at the limits of
\* their buffer; datagrams; source and sink with each kind of option, and with writes of no bytes;
\* the concurrent server.
SockBase ==
  [udp |-> FALSE, crlf |-> FALSE, halfclose |-> {}, peek |-> {}, chunk |-> FALSE, opts |-> {},
   wlen |-> 5, connectudp |-> TRUE, foreign |-> FALSE, sourcesink |-> FALSE, ignorewerr |-> FALSE,
   dofork |-> FALSE, inputs |-> SockInputs]
SockConfigs ==
  {[SockBase EXCEPT !.chunk = ~c, !.crlf = c, !.halfclose = h, !.peek = k] :
      c \in BOOLEAN, h \in {{}, {"client"}, {"client", "server"}}, k \in {{}, {"server"}}}
  \cup {[SockBase EXCEPT !.udp = TRUE, !.connectudp = c, !.foreign = f, !.peek = {"client"}] :
          c, f \in BOOLEAN}
  \cup {[SockBase EXCEPT !.sourcesink = TRUE, !.udp = d, !.peek = k, !.ignorewerr = i] :
          d, i \in BOOLEAN, k \in {{}, {"server"}}}
  \cup {[SockBase EXCEPT !.sourcesink = TRUE, !.udp = d, !.opts = {o}] : d \in BOOLEAN,
          o \in {"debug", "onesbcast", "joinip", "iptos", "maxseg", "keepalive", "rcvtimeo",
                 "recvdstaddr"}}
  \cup {[SockBase EXCEPT !.sourcesink = TRUE, !.udp = d, !.wlen = 0, !.ignorewerr = i] :
          d, i \in BOOLEAN}
  \cup {[SockBase EXCEPT !.crlf = TRUE, !.halfclose = {"client"}, !.wlen = w, !.inputs = ShortInputs] :
          w \in {2, 3, 4}}
  \cup {[SockBase EXCEPT !.dofork = TRUE]}

VARIABLES which,
          st_main, st_serv, st_u, st_net, st_sbuf, st_cli, st_pc,
          we_prog, we_flags, we_conn, we_left, we_thr, we_m, we_mutex, we_ndone,
          so_cfg, so_p, so_sk, so_fk

st_vars == <<st_main, st_serv, st_u, st_net, st_sbuf, st_cli, st_pc>>
we_vars == <<we_prog, we_flags, we_conn, we_left, we_thr, we_m, we_mutex, we_ndone>>
so_vars == <<so_cfg, so_p, so_sk, so_fk>>
vars == <<which, st_vars, we_vars, so_vars>>

Lines == INSTANCE StrCli WITH
  NLines <- 3, NTyped <- 2, MAXLINE <- 3, SockBuf <- 2, NAddrs <- 2, Pairs <- LinePairs, BadLines <- {1},
  main <- st_main, serv <- st_serv, u <- st_u, net <- st_net, sbuf <- st_sbuf, cli <- st_cli,
  pc <- st_pc
Web == INSTANCE WebGet WITH
  Progs <- WebProgs, nfiles <- 3, maxnconn <- 2, MaxData <- 1, prog <- we_prog, flags <- we_flags,
  conn <- we_conn, left <- we_left, thr <- we_thr, m <- we_m, mutex <- we_mutex, ndone <- we_ndone
Sock == INSTANCE SockTool WITH
  Configs <- SockConfigs, readlen <- 3, nbuf <- 3,
  SockBuf <- 2, UIO_MAXIOV <- 2, NConn <- 3, cfg <- so_cfg, p <- so_p, sk <- so_sk, fk <- so_fk

Init ==
  /\ which \in {"lines", "web", "sock"}
  /\ which # "lines" =>
       /\ st_main = "tcpcli01" /\ st_serv = "str_echo"
       /\ st_u = [stdin |-> <<>>, typed |-> 0, eof |-> FALSE, isfile |-> FALSE]
  /\ which # "web" => we_prog = "web" /\ we_left = [i \in 1..3 |-> 0]
  /\ which # "sock" => so_cfg = [SockBase EXCEPT !.dofork = TRUE]
  /\ Lines!Init /\ Web!Init /\ Sock!Init

Next ==
  /\ UNCHANGED which
  /\ \/ which = "lines" /\ Lines!Next /\ UNCHANGED <<we_vars, so_vars>>
     \/ which = "web" /\ Web!Next /\ UNCHANGED <<st_vars, so_vars>>
     \/ which = "sock" /\ Sock!Next /\ UNCHANGED <<st_vars, we_vars>>

\* Each module's own fairness, for the program that runs.
Fairness ==
  /\ WF_st_vars(which = "lines" /\ Lines!Client)
  /\ WF_st_vars(which = "lines" /\ Lines!Server)
  /\ WF_we_vars(which = "web" /\ (Web!web \/ Web!web01 \/ Web!web02 \/ Web!web03))
  /\ \A i \in Web!File : /\ WF_we_vars(which = "web" /\ Web!Answer(i))
                         /\ SF_we_vars(which = "web" /\ Web!Thread(i))
  /\ \A e \in Sock!End : WF_so_vars(which = "sock" /\ Sock!main(e))
  /\ WF_so_vars(which = "sock" /\ Sock!Parent)
  /\ WF_so_vars(which = "sock" /\ Sock!Child)

Spec == Init /\ [][Next]_vars /\ Fairness

-----------------------------------------------------------------------------
\* The str_cli family: standard output shows the bytes in order, without a gap or a repetition,
\* and a client that ends normally has shown everything (but strcliselect01 and strclinonb).
EchoComplete == Lines!EchoComplete /\ Lines!OutIsPrefix

\* The str_cli family: after the end of its input a client ends, and with it the server's
\* process; before it every line is echoed without waiting for the next one.
BothEnd ==
  /\ which = "lines" => Lines!BothEnd
  /\ which = "lines" => Lines!Responsive

\* web, web01, web02, web03: never more than maxnconn connections, the counters agree with the
\* files, and the program exits only when all files have been read.
CountersExact == Web!CountersExact

\* sock: what is taken from a connection is what the other end typed or sent, and every socket
\* option of the command line is set when data begins to flow.
SockCopies == Sock!SockCopies /\ Sock!SetUp

\* The Web clients end unless web02 or web03 lost its race, and a sock exchange ends unless both
\* ends block in write.
ExchangesEnd ==
  /\ which = "web" => Web!WebEnds
  /\ which = "sock" => Sock!SockEnds
=============================================================================
