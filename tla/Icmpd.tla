-------------------------------- MODULE Icmpd -------------------------------
(* unpv13e/icmpd: the daemon that passes ICMP errors on to the UDP clients
   that have registered a socket with it, and its client dgcli01.c.          *)
EXTENDS Naturals, Sequences, FiniteSets
CONSTANTS Clients,      \* client processes
          Groups,       \* the clients that run together
          Port, Family, \* of each client's UDP socket; no two clients agree in both
          Unbound,      \* the clients whose socket the daemon cannot bind
          FD_SETSIZE,   \* entries of client[]
          NLines,       \* datagrams each client sends
          Mortal        \* the clients that a signal may kill
VARIABLES cl,           \* the clients
          client,       \* client[] of icmpd.h: connfd, family and lport
          d,            \* the daemon: pc, and what select reported
          net           \* listen queue, and on each raw socket the ICMP errors, each
                        \* named by the client whose datagram caused it
vars == <<cl, client, d, net>>

Free == "free"
Slots == 1..FD_SETSIZE
Families == {"v4", "v6"}
Alive == d.pc # "dead"
\* A client that has exited has closed its end of the Unix domain stream.
Open(x) == cl[x].st \notin {"exit", "error", "terminated"}

-----------------------------------------------------------------------------
(* dgcli01.c, called from udpcli01.c *)

\* Connect to the daemon and pass it the socket.
Register(x) ==
    \/ /\ cl[x].st = "start" /\ Alive
       /\ cl' = [cl EXCEPT ![x].st = "connected"]
       /\ net' = [net EXCEPT !.listen = Append(@, x)]
       /\ UNCHANGED <<client, d>>
    \/ /\ cl[x].st = "connected"
       /\ cl' = [cl EXCEPT ![x].st = "passed", ![x].out = Append(@, "fd")]
       /\ UNCHANGED <<client, d, net>>
    \/ /\ cl[x].st = "passed" /\ (cl[x].in # <<>> \/ cl[x].eof)
       /\ cl' = [cl EXCEPT ![x].st = IF cl[x].in # <<>> /\ Head(cl[x].in) = "1" THEN "ready" ELSE "error",
                           ![x].in = IF @ = <<>> THEN @ ELSE Tail(@)]
       /\ UNCHANGED <<client, d, net>>

\* A line: send it, then select on the socket and the daemon's stream, for
\* five seconds.
dg_cli(x) ==
    \/ /\ cl[x].st = "ready"
       /\ IF cl[x].lines < NLines[x]
          THEN /\ cl' = [cl EXCEPT ![x].st = "select", ![x].lines = @ + 1]
               /\ \/ UNCHANGED net
                  \/ net' = [net EXCEPT !.icmp[Family[x]] = Append(@, x)]
          ELSE cl' = [cl EXCEPT ![x].st = "exit"] /\ UNCHANGED net
       /\ UNCHANGED <<client, d>>
    \/ /\ cl[x].st = "select"
       /\ \/ cl' = [cl EXCEPT ![x].st = "ready"]
          \/ /\ cl[x].in # <<>>
             /\ cl' = [cl EXCEPT ![x].st = "ready", ![x].in = Tail(@), ![x].errors = Append(@, Head(cl[x].in))]
          \/ /\ cl[x].in = <<>> /\ cl[x].eof
             /\ cl' = [cl EXCEPT ![x].st = "terminated"]
       /\ UNCHANGED <<client, d, net>>

\* The client may also be killed.
Kill(x) ==
    /\ x \in Mortal /\ Open(x) /\ cl[x].st # "start"
    /\ cl' = [cl EXCEPT ![x].st = "exit"]
    /\ UNCHANGED <<client, d, net>>

-----------------------------------------------------------------------------
(* icmpd.c *)

Readable == {i \in Slots : client[i].connfd # Free
                           /\ (cl[client[i].connfd].out # <<>> \/ ~Open(client[i].connfd))}

\* select: the ready descriptors, and their number.
Select ==
    /\ d.pc = "select"
    /\ LET fds == {v \in Families : net.icmp[v] # <<>>} \union (IF net.listen # <<>> THEN {"listen"} ELSE {})
       IN  /\ fds # {} \/ Readable # {}
           /\ d' = [pc |-> "listen", fds |-> fds, conns |-> Readable,
                    nready |-> Cardinality(fds) + Cardinality(Readable)]
    /\ UNCHANGED <<cl, client, net>>

After(next) == [d EXCEPT !.nready = @ - 1, !.pc = IF d.nready - 1 <= 0 THEN "select" ELSE next]

\* readable_listen.c: the first free entry; its lport is not reset.
readable_listen ==
    /\ d.pc = "listen"
    /\ IF "listen" \notin d.fds THEN d' = [d EXCEPT !.pc = "v4"] /\ UNCHANGED <<cl, client, net>>
       ELSE LET x == Head(net.listen)
                free == {i \in Slots : client[i].connfd = Free}
            IN  /\ net' = [net EXCEPT !.listen = Tail(@)]
                /\ d' = After("v4")
                /\ IF free = {} THEN cl' = [cl EXCEPT ![x].eof = TRUE] /\ UNCHANGED client
                   ELSE LET i == CHOOSE j \in free : \A k \in free : j <= k
                        IN  /\ client' = [client EXCEPT ![i].connfd = x]
                            /\ cl' = [cl EXCEPT ![x].used = client[i].lport # Free]

\* mutation: whatever the port
AnyPort(i, x) == client[i].connfd # Free /\ client[i].family = Family[x]

\* the entry that the ports in the header of an ICMP message select
Selected(i, x) == AnyPort(i, x) /\ client[i].lport = Port[x]

\* readable_v4.c and readable_v6.c: an error is written to every client that
\* has the port, in the order of client[]; writing to a stream that its client
\* has closed raises SIGPIPE.
ReadableIcmp(v, next) ==
    /\ d.pc = v
    /\ IF v \notin d.fds THEN d' = [d EXCEPT !.pc = next] /\ UNCHANGED <<cl, net>>
       ELSE LET e == Head(net.icmp[v])
                to == {i \in Slots : Selected(i, e)}
                shut == {i \in to : ~Open(client[i].connfd)}
                told == {client[i].connfd : i \in {j \in to : \A k \in shut : j < k}}
            IN  /\ net' = [net EXCEPT !.icmp[v] = Tail(@)]
                /\ d' = IF shut = {} THEN After(next) ELSE [d EXCEPT !.pc = "dead"]
                /\ cl' = [x \in Clients |-> IF x \in told THEN [cl[x] EXCEPT !.in = Append(@, e)] ELSE cl[x]]
    /\ UNCHANGED client
readable_v4 == ReadableIcmp("v4", "v6")
readable_v6 == ReadableIcmp("v6", "conns")

\* readable_conn.c: the descriptor, whose port may not be had, or end of file.
readable_conn ==
    /\ d.pc = "conns"
    /\ LET i == CHOOSE j \in d.conns : \A k \in d.conns : j <= k
           x == client[i].connfd
           rest == [After("conns") EXCEPT !.conns = @ \ {i}]
           done == cl[x].out = <<>>
           failed == x \in Unbound
       IN  /\ UNCHANGED net
           /\ client' = IF done THEN [client EXCEPT ![i].connfd = Free]
                        ELSE [client EXCEPT ![i] = [connfd |-> IF failed THEN Free ELSE x, family |-> Family[x],
                                                    lport |-> IF failed THEN Free ELSE Port[x]]]
           /\ d' = IF done \/ Open(x) THEN rest ELSE [d EXCEPT !.pc = "dead"]
           /\ cl' = IF done \/ ~Open(x) THEN cl
                    ELSE [cl EXCEPT ![x].out = <<>>, ![x].eof = failed,
                                    ![x].in = Append(@, IF failed THEN "0" ELSE "1")]

\* The streams of a dead daemon read end of file.
DaemonGone ==
    /\ d.pc = "dead"
    /\ \E x \in Clients : ~cl[x].eof
    /\ cl' = [x \in Clients |-> [cl[x] EXCEPT !.eof = TRUE]]
    /\ UNCHANGED <<client, d, net>>

icmpd == Select \/ readable_listen \/ readable_v4 \/ readable_v6 \/ readable_conn \/ DaemonGone

Init ==
    /\ \E run \in Groups :
         cl = [x \in Clients |-> [st |-> IF x \in run THEN "start" ELSE "exit", out |-> <<>>, in |-> <<>>,
                                  eof |-> FALSE, lines |-> 0, errors |-> <<>>, used |-> FALSE]]
    /\ client = [i \in Slots |-> [connfd |-> Free, family |-> Free, lport |-> Free]]
    /\ d = [pc |-> "select", fds |-> {}, conns |-> {}, nready |-> 0]
    /\ net = [listen |-> <<>>, icmp |-> [v \in Families |-> <<>>]]
UdpCli(x) == Register(x) \/ dg_cli(x)
Next == icmpd \/ \E x \in Clients : UdpCli(x) \/ Kill(x)
Spec == Init /\ [][Next]_vars /\ WF_vars(icmpd) /\ \A x \in Clients : WF_vars(UdpCli(x))
-----------------------------------------------------------------------------
\* A client that the daemon has accepted is told of errors for its own
\* datagrams only, however late they come and whoever had its entry of client[]
\* or its port in the other family before; no two entries hold one connection.
\* A client is refused only when it must be (no entry is free, the daemon has
\* gone, its socket cannot be bound), or when its entry was another's before:
\* lport is not reset, and a late error for the other comes in place of the "1".
RegisteredSound ==
    /\ \A x \in Clients : \A k \in 1..Len(cl[x].errors) : cl[x].errors[k] = x
    /\ \A i, j \in Slots : i # j /\ client[i].connfd # Free => client[i].connfd # client[j].connfd
    /\ \A x \in Clients : cl[x].st = "error" => cl[x].eof \/ cl[x].used

\* The loop of icmpd.c never waits on a descriptor that select did not report,
\* and serves everything: each client's registration is answered, unless a
\* client that exits takes the daemon with it (SIGPIPE).
Answered == \A x \in Clients : cl[x].st # "passed"
RegistrationAnswered == []<>Answered
=============================================================================
