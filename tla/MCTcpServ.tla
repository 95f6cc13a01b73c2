----------------------------- MODULE MCTcpServ -----------------------------
(***************************************************************************)
(* The servers of TcpServ with two or three clients each.                  *)
(***************************************************************************)
EXTENDS TcpServ, TLC

\* the servers that answer with lines, one for each
EchoServers ==
  {"tcpserv01", "tcpserv02", "tcpserv03", "tcpserv04", "tcpserv08", "tcpserv09", "unixstrserv01",
   "unixstrserv02", "threads_tcpserv01", "threads_tcpserv02", "tcpservselect01", "tcpservpoll01",
   "tcpservselect03"}
Servers == EchoServers \cup PreAccept \cup {"serv00", "serv01", "serv05", "serv06", "serv08"}

\* Every server with a client that asks twice and one that sends lines, and every TCP server with
\* one that resets its first connection; the servers with tables also with three clients, one of which resets;
\* the echo servers with a client that never ends its line.
MCMixes ==
  {[prog |-> s, kinds |-> ("a" :> "client" @@ "b" :> "strcli")] : s \in Servers}
  \cup {[prog |-> s, kinds |-> ("a" :> "strcli" @@ "b" :> "clientrst")] :
          s \in Servers \ {"unixstrserv01", "unixstrserv02"}}
  \cup {[prog |-> s, kinds |-> ("a" :> "strcli" @@ "b" :> "tcpcli03" @@ "c" :> "strcli")] :
          s \in {"serv05", "serv08", "tcpservselect01", "tcpservpoll01", "tcpservselect03"}}
  \cup {[prog |-> s, kinds |-> ("a" :> "strcli" @@ "b" :> "tcpcli06")] : s \in EchoServers}
=============================================================================
