------------------------------ MODULE MCDgram ------------------------------
(***************************************************************************)
(* Datagrams, urgent data and ICMP, checked together: the UDP clients and  *)
(* servers (DgExchange), the heartbeat functions (Heartbeat), the urgent   *)
(* data programs (Oob), ping and traceroute (Icmp) and the ICMP daemon     *)
(* (Icmpd).  which says the one that runs; the others stay in an initial   *)
(* state.                                                                  *)
(***************************************************************************)
EXTENDS Integers, Sequences

\* Every client with the server it is written for, and every server once.
DgPairs ==
  ({"udpcli01", "udpcli02", "udpcli03", "udpcli04", "udpcli10", "advio_udpcli01",
    "advio_udpcli02", "advio_udpcli03", "bcast_udpcli01", "bcast_udpcli02", "bcast_udpcli03",
    "bcast_udpcli04", "bcast_udpcli05", "bcast_udpcli06", "rtt_udpcli01"} \X {"udpserv01"})
  \cup ({"mcast_udpcli01", "mcast_udpcli05", "mcast_udpcli06"} \X {"mcast_udpserv01"})
  \cup ({"sigio_udpcli01", "udpcli06"} \X {"sigio_udpserv01"})
  \cup ({"udpcli01"} \X {"advio_udpserv01", "udpserv03", "udpservselect01"})
  \cup {<<"unixdgcli01", "unixdgserv01">>, <<"udpcli06", "udpserv06">>,
        <<"udpcli08", "udpserv07">>, <<"udpcli04", "udpserv04">>,
        <<"daytimeudpcli1", "daytimeudpsrv2">>, <<"daytimeudpcli2", "daytimeudpsrv3">>,
        <<"daytimeudpcli3", "daytimeudpsrv2">>, <<"daytimeudpcli4", "daytimeudpsrv3">>}
OobPairs ==
  {"tcpsend01", "tcpsend02", "tcpsend03", "tcpsend04", "tcpsend05", "tcpsend06"}
    \X {"tcprecv01", "tcprecv02", "tcprecv03", "tcprecv03p", "tcprecv04", "tcprecv05", "tcprecv06"}
ProbeProgs == {"ping_v4", "ping_v6", "bsdping", "bsdping_f", "traceroute_v4", "traceroute_v6"}

\* The daemon's clients: two of one family, one of which may be killed; two with the same port in
\* different families; three that only register, more than the daemon has room for.
Peers == {"a", "b", "c", "e", "f", "g"}
PeerGroups == {{"a", "b"}, {"a", "c"}, {"e", "f", "g"}}

VARIABLES which,
          dg_prog, dg_c, dg_rttinfo, dg_net, dg_srv,
          hb_cli, hb_serv, hb_oob, hb_conn,
          ur_prog, ur_snd, ur_tcp, ur_rcv,
          ic_prog, ic_p, ic_icmp,
          id_cl, id_client, id_d, id_net

dg_vars == <<dg_prog, dg_c, dg_rttinfo, dg_net, dg_srv>>
hb_vars == <<hb_cli, hb_serv, hb_oob, hb_conn>>
ur_vars == <<ur_prog, ur_snd, ur_tcp, ur_rcv>>
ic_vars == <<ic_prog, ic_p, ic_icmp>>
id_vars == <<id_cl, id_client, id_d, id_net>>
vars == <<which, dg_vars, hb_vars, ur_vars, ic_vars, id_vars>>

Dg == INSTANCE DgExchange WITH
  NLines <- 2, NDG <- 3, QSIZE <- 2, Hosts <- 2, MaxFaults <- 1, Samples <- {960},
  Pairs <- DgPairs, prog <- dg_prog, c <- dg_c, rttinfo <- dg_rttinfo, net <- dg_net,
  srv <- dg_srv
Beat == INSTANCE Heartbeat WITH
  NLines <- 1, maxnprobes <- 3, Delay <- 1, cli <- hb_cli, serv <- hb_serv, oob <- hb_oob, conn <- hb_conn
Urgent == INSTANCE Oob WITH
  Pairs <- OobPairs, RcvBuf <- 2, BUFF <- 2, prog <- ur_prog, snd <- ur_snd, tcp <- ur_tcp,
  rcv <- ur_rcv
Probe == INSTANCE Icmp WITH
  Progs <- ProbeProgs, MaxSent <- 3, npackets <- 2, preloads <- {0, 1}, mx_dup_ck <- 2,
  max_ttl <- 2, nprobes <- 2, Dist <- 2, prog <- ic_prog, p <- ic_p, icmp <- ic_icmp
Daemon == INSTANCE Icmpd WITH
  Clients <- Peers, Groups <- PeerGroups, FD_SETSIZE <- 2,
  NLines <- [x \in Peers |-> IF x \in {"a", "b", "c"} THEN 1 ELSE 0],
  Mortal <- {"b"}, Unbound <- {"f"}, Port <- [x \in Peers |-> IF x = "c" THEN "a" ELSE x],
  Family <- [x \in Peers |-> IF x = "c" THEN "v6" ELSE "v4"],
  cl <- id_cl, client <- id_client, d <- id_d, net <- id_net

Init ==
  /\ which \in {"dg", "beat", "urgent", "probe", "daemon"}
  /\ which # "dg" => dg_prog = <<"udpcli01", "udpserv01">>
  /\ which # "urgent" => ur_prog = <<"tcpsend01", "tcprecv01">>
  /\ which # "probe" => ic_prog = "ping_v4"
  /\ Dg!Init /\ Beat!Init /\ Urgent!Init /\ Probe!Init /\ Daemon!Init
  /\ which # "daemon" => id_cl["b"].st = "start"

Next ==
  /\ UNCHANGED which
  /\ \/ which = "dg" /\ Dg!Next /\ UNCHANGED <<hb_vars, ur_vars, ic_vars, id_vars>>
     \/ which = "beat" /\ Beat!Next /\ UNCHANGED <<dg_vars, ur_vars, ic_vars, id_vars>>
     \/ which = "urgent" /\ Urgent!Next /\ UNCHANGED <<dg_vars, hb_vars, ic_vars, id_vars>>
     \/ which = "probe" /\ Probe!Next /\ UNCHANGED <<dg_vars, hb_vars, ur_vars, id_vars>>
     \/ which = "daemon" /\ Daemon!Next /\ UNCHANGED <<dg_vars, hb_vars, ur_vars, ic_vars>>

\* Each module's own fairness, for the program that runs.
Fairness ==
  /\ WF_dg_vars(which = "dg" /\ Dg!Client) /\ WF_dg_vars(which = "dg" /\ Dg!Server)
  /\ WF_hb_vars(which = "beat" /\ Beat!Tick) /\ WF_hb_vars(which = "beat" /\ Beat!tcpserv02)
  /\ WF_hb_vars(which = "beat" /\ Beat!cli_sig_urg) /\ WF_hb_vars(which = "beat" /\ Beat!Announce)
  /\ WF_hb_vars(which = "beat" /\ Beat!ReadSocket) /\ WF_hb_vars(which = "beat" /\ Beat!Fin)
  /\ WF_ur_vars(which = "urgent" /\ Urgent!Sender)
  /\ WF_ur_vars(which = "urgent" /\ Urgent!Arrive)
  /\ WF_ur_vars(which = "urgent" /\ Urgent!Receiver)
  /\ WF_ic_vars(which = "probe" /\ Probe!Alarms) /\ WF_ic_vars(which = "probe" /\ Probe!Step)
  /\ WF_id_vars(which = "daemon" /\ Daemon!icmpd)
  /\ \A x \in Peers : WF_id_vars(which = "daemon" /\ Daemon!UdpCli(x))

Spec == Init /\ [][Next]_vars /\ Fairness

-----------------------------------------------------------------------------
\* dg_cli and its variants: a reply is shown beside the line it answers, whatever the network
\* does for dg_send_recv and until a fault or a late reply for the others; dg_send_recv gives up
\* only after its retransmissions; and the ring of the SIGIO server keeps every datagram in order.
RepliesMatch == Dg!RepliesMatch /\ Dg!RingSound /\ Dg!GivesUpAfterRetries

\* heartbeat_cli, heartbeat_serv: where the delays of the network fit into maxnprobes a side is
\* reported dead only when it is; a handler ends its process only when two urgent bytes came close
\* together; and a client that ends normally has every line unless the server ended so or gave up.
NoFalseDeath == Beat!NoFalseDeath /\ []Beat!EchoComplete

\* The urgent-data receivers lose no normal byte, and those that watch for the exceptional
\* condition never ask for an urgent byte twice.
RecvOobReady == Urgent!RecvOobReady /\ Urgent!StreamKept

\* ping shows only its own replies and traceroute only its own probes' answers, and bsdping's
\* counters agree although a signal handler shares their table; icmpd tells a client of errors
\* for its own datagrams only.
AnswersOwn == Probe!AnswersOwn /\ Probe!CountsSane /\ Daemon!RegisteredSound

\* Every wait ends: for a reply, for a probe, for the SIGIO server to read what arrived, for a
\* failure to be detected, for the end of the urgent stream and for the answer of the daemon, but
\* for the races that the modules name.
WaitsEnd ==
  /\ which = "dg" => Dg!WaitsEnd
  /\ which = "probe" => Probe!ProbesEnd
  /\ []<>(/\ which = "dg" => Dg!RingDrained
          /\ which = "beat" => Beat!Detected
          /\ which = "urgent" => Urgent!Over
          /\ which = "daemon" => Daemon!Answered)
=============================================================================
