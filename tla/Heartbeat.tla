----------------------------- MODULE Heartbeat ------------------------------
(* The client-server heartbeat of unpv13e/oob: heartbeatcli.c and
   heartbeatserv.c under the str_cli and str_echo that start them.  Probes are
   out-of-band bytes: the announcement of one raises SIGURG, the byte may come
   after it, and a new one replaces a byte that has not been read.  A Tick is
   one second.  While the network is up it holds a probe or an echo for at most
   Delay ticks, so that probes may bunch, and a process takes its signals
   within the second. *)
EXTENDS Naturals, Sequences
CONSTANTS NLines,        \* lines the user types
          maxnprobes,    \* 5 in strcliselect02.c and strecho02.c
          Delay          \* seconds the network may hold an urgent byte
VARIABLES cli, serv,     \* the two processes
          oob,           \* to each side: the ages of what is under way, SIGURG pending, the
                         \* urgent byte, and whether the last handler read it with another
                         \* SIGURG pending (bunched)
          conn           \* lines in the connection, FINs, and the network
vars == <<cli, serv, oob, conn>>

Side == {"cli", "serv"}
Running(p) == p.pc \in {"run", "eof"}
Proc(side) == IF side = "cli" THEN cli ELSE serv

-----------------------------------------------------------------------------
\* Send(fd, c, 1, MSG_OOB) to a side: it is lost when the network is down.
Probe(o, side) == [o EXCEPT ![side].way = IF conn.up THEN Append(@, 0) ELSE @]

\* An urgent byte is announced, and is there or is still to come; one is of no
\* use to a side that has exited.
Announce ==
    /\ \E side \in Side, byte \in {"valid", "coming"} :
         /\ oob[side].way # <<>>
         /\ oob' = [oob EXCEPT ![side] =
              IF Running(Proc(side))
              THEN [@ EXCEPT !.way = Tail(@), !.sigurg = TRUE, !.byte = byte]
              ELSE [@ EXCEPT !.way = Tail(@)]]
    /\ UNCHANGED <<cli, serv, conn>>
\* (When no handler is to read the byte it makes no difference that it comes.)
ByteComes ==
    /\ \E side \in Side :
         /\ oob[side].byte = "coming" /\ (oob[side].sigurg \/ Proc(side).handler)
         /\ oob' = [oob EXCEPT ![side].byte = "valid"]
    /\ UNCHANGED <<cli, serv, conn>>

\* SIGURG: the handler is entered, and reads the byte in a second step; another
\* probe may come between the two.
EnterUrg(p, side) ==
    /\ Running(p) /\ ~p.handler /\ oob[side].sigurg
    /\ oob' = [oob EXCEPT ![side].sigurg = FALSE]

\* recv(fd, &c, 1, MSG_OOB) fails with EINVAL when the byte has been read for
\* an earlier SIGURG, and with EWOULDBLOCK, which the handlers ignore, when it
\* is still to come.
RecvFails(side) == oob[side].byte = "read"
Recv(side) == [oob EXCEPT ![side].byte = IF @ = "valid" THEN "read" ELSE @, ![side].bunched = oob[side].sigurg]

\* mutation: the count of missed probes goes on
HeardNotCounted(p) == [p EXCEPT !.handler = FALSE]

\* sig_urg's end: the other side is alive, the count of missed probes starts again
Heard(p) == [p EXCEPT !.handler = FALSE, !.nprobes = 0]

\* sig_urg of heartbeatcli.c: err_sys after EINVAL
cli_sig_urg ==
    \/ /\ EnterUrg(cli, "cli")
       /\ cli' = [cli EXCEPT !.handler = TRUE]
       /\ UNCHANGED <<serv, conn>>
    \/ /\ Running(cli) /\ cli.handler
       /\ IF RecvFails("cli") THEN cli' = [cli EXCEPT !.pc = "recv error"] /\ UNCHANGED oob
          ELSE cli' = Heard(cli) /\ oob' = Recv("cli")
       /\ UNCHANGED <<serv, conn>>

\* sig_alrm of heartbeatcli.c
cli_sig_alrm ==
    IF ~cli.alarm \/ ~Running(cli) THEN UNCHANGED cli
    ELSE cli' = IF cli.nprobes + 1 > maxnprobes
                THEN [cli EXCEPT !.nprobes = @ + 1, !.pc = "server is unreachable"]
                ELSE [cli EXCEPT !.nprobes = @ + 1]

heartbeat_cli(p) == [p EXCEPT !.nprobes = 0, !.alarm = TRUE]

\* sig_urg of heartbeatserv.c echoes the byte, or what it has in place of it.
serv_sig_urg ==
    \/ /\ EnterUrg(serv, "serv")
       /\ serv' = [serv EXCEPT !.handler = TRUE]
       /\ UNCHANGED <<cli, conn>>
    \/ /\ Running(serv) /\ serv.handler
       /\ IF RecvFails("serv") THEN serv' = [serv EXCEPT !.pc = "recv error"] /\ UNCHANGED oob
          ELSE serv' = Heard(serv) /\ oob' = Probe(Recv("serv"), "cli")
       /\ UNCHANGED <<cli, conn>>

serv_sig_alrm ==
    IF ~Running(serv) THEN UNCHANGED serv
    ELSE serv' = IF serv.nprobes + 1 > maxnprobes
                 THEN [serv EXCEPT !.nprobes = @ + 1, !.pc = "no probes from client"]
                 ELSE [serv EXCEPT !.nprobes = @ + 1]

heartbeat_serv(p) == [p EXCEPT !.alarm = TRUE]

\* One second: both alarms go off.  The client's handler sends a probe.
Tick ==
    /\ Running(cli) \/ Running(serv)
    /\ \A side \in Side :
         /\ Running(Proc(side)) => ~oob[side].sigurg /\ ~Proc(side).handler
         /\ \A k \in DOMAIN oob[side].way : oob[side].way[k] < Delay
    /\ cli_sig_alrm /\ serv_sig_alrm
    /\ LET old == [s \in Side |-> [oob[s] EXCEPT !.way = [k \in DOMAIN @ |-> @[k] + 1]]]
       IN  oob' = IF cli.alarm /\ Running(cli) /\ cli'.pc # "server is unreachable"
                  THEN Probe(old, "serv") ELSE old
    /\ UNCHANGED conn

-----------------------------------------------------------------------------
\* str_cli of strcliselect02.c.  EOF on standard input turns the heartbeat off.
ReadStdin ==
    /\ cli.pc = "run" /\ ~cli.handler
    /\ IF cli.typed < NLines
       THEN /\ cli' = [cli EXCEPT !.typed = @ + 1]
            /\ conn' = [conn EXCEPT !.req = IF conn.up THEN @ + 1 ELSE @]
       ELSE /\ cli' = [cli EXCEPT !.pc = "eof", !.alarm = FALSE]
            /\ conn' = [conn EXCEPT !.cfin = conn.up]
    /\ UNCHANGED <<serv, oob>>

ReadSocket ==
    /\ Running(cli) /\ ~cli.handler
    /\ \/ /\ conn.rep > 0
          /\ conn' = [conn EXCEPT !.rep = @ - 1]
          /\ cli' = [cli EXCEPT !.out = @ + 1]
       \/ /\ conn.rep = 0 /\ conn.sfin
          /\ cli' = [cli EXCEPT !.pc = IF @ = "eof" THEN "done" ELSE "server terminated prematurely"]
          /\ UNCHANGED conn
    /\ UNCHANGED <<serv, oob>>

strcliselect02 == ReadStdin \/ ReadSocket
tcpcli02 == strcliselect02 \/ cli_sig_urg

\* str_echo of strecho02.c, in the child of tcpserv02.c
strecho02 ==
    /\ serv.pc = "run" /\ ~serv.handler
    /\ \/ /\ conn.req > 0
          /\ conn' = [conn EXCEPT !.req = @ - 1, !.rep = IF conn.up THEN @ + 1 ELSE @]
          /\ UNCHANGED serv
       \/ /\ conn.req = 0 /\ conn.cfin
          /\ serv' = [serv EXCEPT !.pc = "done"]
          /\ UNCHANGED conn
    /\ UNCHANGED <<cli, oob>>

tcpserv02 == strecho02 \/ serv_sig_urg

\* The FIN of a side that has exited, and the loss of the network or of a host.
Fin ==
    /\ conn.up
    /\ \/ ~Running(cli) /\ ~conn.cfin /\ conn' = [conn EXCEPT !.cfin = TRUE]
       \/ ~Running(serv) /\ ~conn.sfin /\ conn' = [conn EXCEPT !.sfin = TRUE]
    /\ UNCHANGED <<cli, serv, oob>>
Partition ==
    /\ conn.up
    /\ conn' = [conn EXCEPT !.up = FALSE]
    /\ oob' = [s \in Side |-> [oob[s] EXCEPT !.way = <<>>]]
    /\ UNCHANGED <<cli, serv>>

Init ==
    LET p == [pc |-> "run", handler |-> FALSE, nprobes |-> 0, alarm |-> FALSE, typed |-> 0, out |-> 0]
    IN  /\ cli = heartbeat_cli(p)
        /\ serv = heartbeat_serv(p)
        /\ oob = [s \in Side |-> [way |-> <<>>, sigurg |-> FALSE, byte |-> "none", bunched |-> FALSE]]
        /\ conn = [req |-> 0, rep |-> 0, cfin |-> FALSE, sfin |-> FALSE, up |-> TRUE]
Next == Tick \/ Announce \/ ByteComes \/ tcpcli02 \/ tcpserv02 \/ Fin \/ Partition
Spec ==
    /\ Init /\ [][Next]_vars
    /\ WF_vars(Tick) /\ WF_vars(Announce) /\ WF_vars(tcpserv02) /\ WF_vars(cli_sig_urg) /\ WF_vars(ReadSocket) /\ WF_vars(Fin)
-----------------------------------------------------------------------------
\* Where the network's delays both ways and the second between alarms fit into
\* maxnprobes (2 * Delay + 1 <= maxnprobes), however probes are held up, bunched
\* or merged, a side reports the other dead only when it is: the network has
\* failed, or the other side has exited, or the client has turned its half of
\* the heartbeat off at end of file while the server's alarms go on.  A handler
\* finds the byte of its SIGURG already read, and ends the process, only if two
\* came so close that the second was announced before the first was read.
NoFalseDeath ==
    /\ [][Running(cli) /\ cli'.pc = "server is unreachable" => ~conn.up \/ ~Running(serv)]_vars
    /\ [][Running(serv) /\ serv'.pc = "no probes from client" => ~conn.up \/ cli.pc # "run"]_vars
    /\ [](\A side \in Side : Proc(side).pc = "recv error" => oob[side].bunched)

\* When the network fails both sides find out: the server always, the client
\* unless it has reached end of file, where strcliselect02.c turns the
\* heartbeat off and select has no timeout.
Detected == ~conn.up => ~Running(serv) /\ cli.pc # "run"
FailureDetected == []<>Detected

\* A client that terminates normally has every line, unless the server ended
\* in its handler or gave up on it: at end of file the client's probes stop and the server's alarm
\* goes on counting, so the server has maxnprobes seconds to finish.
EchoComplete == cli.pc = "done" => cli.out = NLines \/ serv.pc \in {"no probes from client", "recv error"}
=============================================================================
