------------------------------- MODULE StrCli -------------------------------
(***************************************************************************)
(* The stream clients of unpv13e: every version of str_cli, which copies   *)
(* standard input to a connection and what the connection returns to       *)
(* standard output, the programs it is linked into, and the daytime        *)
(* clients, against the servers' str_echo and the daytime servers.  The    *)
(* versions of str_cli differ in how they wait for two inputs at once: not *)
(* at all, select, /dev/poll, kqueue, nonblocking I/O, a child, a thread.  *)
(*                                                                         *)
(* A byte is a number; a line is the bytes 2k-1 and 2k, the second one its *)
(* newline.  A connection is a pair of bounded byte queues.                *)
(***************************************************************************)
EXTENDS Integers, Sequences, SequencesExt

CONSTANTS NLines,     \* lines of a file that is standard input, or of the daytime server
          NTyped,     \* lines the user types at most
          MAXLINE,    \* size of the programs' buffers, in bytes
          SockBuf,    \* bytes a connection holds in each direction
          NAddrs,     \* addresses of the server's host
          Pairs,      \* the client programs to run, each with a server
          BadLines    \* lines that are not the two numbers str_cli09 wants

VARIABLES main, serv,  \* the two programs
          u,           \* the user: what is typed and not read, how many lines, end of file
          net,         \* the connection
          sbuf,        \* the server's buffer
          cli, pc      \* the client's data, and where its two processes or threads are

vars == <<main, serv, u, net, sbuf, cli, pc>>

Input == [i \in 1..(2 * NLines) |-> i]
HasLine(s) == \E i \in DOMAIN s : s[i] % 2 = 0
LineEnd(s) == CHOOSE i \in DOMAIN s : s[i] % 2 = 0 /\ \A j \in 1..(i-1) : s[j] % 2 # 0
Upto(s, n) == SubSeq(s, 1, IF Len(s) < n THEN Len(s) ELSE n)
From(s, n) == SubSeq(s, n + 1, Len(s))

Final == {"ok", "premature", "error", "killed", "alarm"}
Ended == pc["main"] \in Final
At(p, l) == ~Ended /\ pc[p] = l
Go(p, l) == pc' = [pc EXCEPT ![p] = l]

\* strclinonb's to and fr: an array and the pointers past the last byte put in
\* (toiptr, friptr) and the last byte taken out (tooptr, froptr)
EmptyBuf == [data |-> [i \in 0..(MAXLINE-1) |-> 0], in |-> 0, out |-> 0]
Held(b) == [k \in 1..(b.in - b.out) |-> b.data[b.out + k - 1]]
Fill(b, s) == [b EXCEPT !.data = [i \in DOMAIN @ |-> IF i >= b.in /\ i < b.in + Len(s)
                                                    THEN s[i - b.in + 1] ELSE @[i]],
                        !.in = @ + Len(s)]
Drain(b, n) == IF b.out + n = b.in THEN [b EXCEPT !.in = 0, !.out = 0]
                                   ELSE [b EXCEPT !.out = @ + n]

-----------------------------------------------------------------------------
(* The library under them *)

\* Connect: the server accepts, or the program ends with an error
Connect ==
  /\ At("main", "init")
  /\ Go("main", "start") \/ Go("main", "error")
  /\ UNCHANGED <<main, serv, u, net, sbuf, cli>>

\* tcp_connect: the addresses of getaddrinfo in turn, until one accepts
tcp_connect ==
  /\ At("main", "init")
  /\ \/ Go("main", "start") /\ UNCHANGED cli
     \/ /\ cli' = [cli EXCEPT !.tries = @ + 1]
        /\ Go("main", IF cli'.tries = NAddrs THEN "error" ELSE "init")
  /\ UNCHANGED <<main, serv, u, net, sbuf>>

\* exit closes the connection: a FIN, or a reset when SO_LINGER is set with a
\* linger time of zero.  A child that still has the descriptor keeps it open.
Exit(linger) ==
  /\ Ended /\ ~net.gone
  /\ pc["aux"] \in {"start", "exit", "end"} \/ main # "nonblock_tcpcli01"
  /\ net' = [net EXCEPT !.gone = TRUE, !.cfin = @ \/ ~linger, !.crst = linger]
  /\ UNCHANGED <<main, serv, u, sbuf, cli, pc>>

\* Fgets: the next line of stdio's buffer, refilled with one read when it
\* holds no whole line; onEof when there is nothing more
Fgets(p, onLine, onEof) ==
  LET src == IF HasLine(cli.fbuf) THEN cli.fbuf ELSE cli.fbuf \o u.stdin IN
  /\ u' = IF HasLine(cli.fbuf) THEN u ELSE [u EXCEPT !.stdin = <<>>]
  /\ \/ /\ HasLine(src)
        /\ cli' = [cli EXCEPT !.line = Upto(src, LineEnd(src)), !.fbuf = From(src, LineEnd(src))]
        /\ Go(p, onLine)
     \/ src = <<>> /\ u.eof /\ Go(p, onEof) /\ UNCHANGED cli
  /\ UNCHANGED <<main, serv, net, sbuf>>

\* write() of all but the last n - 1 bytes of line: it takes them as the
\* connection has room; to a peer that is gone it draws a reset, and after the
\* reset SIGPIPE
WriteUntil(p, n, next) ==
  /\ \/ net.rst /\ Go("main", "killed") /\ UNCHANGED <<cli, net>>
     \/ /\ ~net.rst /\ net.died
        /\ net' = [net EXCEPT !.rst = TRUE]
        /\ cli' = [cli EXCEPT !.line = From(@, Len(@) - n + 1)]
        /\ Go(p, next)
     \/ /\ ~net.rst /\ ~net.died /\ Len(net.c2s) < SockBuf
        /\ net' = [net EXCEPT !.c2s = Append(@, Head(cli.line))]
        /\ cli' = [cli EXCEPT !.line = Tail(@)]
        /\ Go(p, IF Len(cli.line) = n THEN next ELSE pc[p])
  /\ UNCHANGED <<main, serv, u, sbuf>>

writen(p, next) == WriteUntil(p, 1, next)

\* mutation: the part of a line that was read before is thrown away
MyReadForgets ==
  /\ ~HasLine(cli.rbuf) /\ ~net.rst /\ net.s2c # <<>>
  /\ cli' = [cli EXCEPT !.rbuf = Upto(net.s2c, MAXLINE)]
  /\ net' = [net EXCEPT !.s2c = From(@, MAXLINE)]
  /\ UNCHANGED <<main, serv, u, sbuf, pc>>

\* my_read fills readline's buffer while it holds no newline ...
my_read ==
  /\ ~HasLine(cli.rbuf) /\ ~net.rst /\ net.s2c # <<>>
  /\ cli' = [cli EXCEPT !.rbuf = @ \o Upto(net.s2c, MAXLINE)]
  /\ net' = [net EXCEPT !.s2c = From(@, MAXLINE)]
  /\ UNCHANGED <<main, serv, u, sbuf, pc>>

\* ... and readline returns a line, which the caller puts on standard output,
\* or the end of the file; after a reset Readline ends its process
readline(p, next, onEof) ==
  LET n == IF HasLine(cli.rbuf) THEN LineEnd(cli.rbuf) ELSE Len(cli.rbuf)
      end == net.s2c = <<>> /\ net.sfin /\ ~net.rst IN
  \/ my_read
  \/ /\ \/ /\ HasLine(cli.rbuf) \/ (cli.rbuf # <<>> /\ end)
           /\ cli' = [cli EXCEPT !.out = @ \o Upto(cli.rbuf, n), !.rbuf = From(@, n)]
           /\ Go(p, next)
        \/ cli.rbuf = <<>> /\ end /\ Go(p, onEof) /\ UNCHANGED cli
        \/ /\ ~HasLine(cli.rbuf) /\ net.rst
           /\ IF main = "nonblock_tcpcli01" THEN Go(p, "gone") ELSE Go("main", "error")
           /\ UNCHANGED cli
     /\ UNCHANGED <<main, serv, u, net, sbuf>>

\* mutation: shutdown of the reading half
ShutdownOther(p, next) ==
  /\ cli' = [cli EXCEPT !.stdineof = TRUE, !.rset = @ \ {"in"}]
  /\ IF net.rst THEN Go("main", "error") ELSE Go(p, next)
  /\ UNCHANGED <<main, serv, u, net, sbuf>>

\* Shutdown(SHUT_WR) at the end of standard input; after a reset there is no
\* connection to shut down
Shutdown(p, next) ==
  /\ net' = [net EXCEPT !.cfin = TRUE]
  /\ cli' = [cli EXCEPT !.stdineof = TRUE, !.rset = @ \ {"in"}]
  /\ IF net.rst THEN Go("main", "error") ELSE Go(p, next)
  /\ UNCHANGED <<main, serv, u, sbuf>>

\* readiness as select, poll and kevent report it: end of file is readable
InReady == u.stdin # <<>> \/ u.eof
SockReady == net.s2c # <<>> \/ net.sfin \/ net.rst

\* Select on the socket and, while wantIn, on standard input
Select(wantIn, next) ==
  LET ready == (IF wantIn /\ InReady THEN {"in"} ELSE {})
                 \cup (IF SockReady THEN {"sock"} ELSE {}) IN
  /\ ready # {}
  /\ cli' = [cli EXCEPT !.rset = ready]
  /\ Go("main", next)
  /\ UNCHANGED <<main, serv, u, net, sbuf>>

\* nothing to do here: on with what is left of the ready set
Skip(set, next) ==
  /\ cli' = [cli EXCEPT !.rset = set]
  /\ Go("main", next)
  /\ UNCHANGED <<main, serv, u, net, sbuf>>

\* Read(sockfd) and Write(stdout)
ReadSock(next, onEof) ==
  /\ SockReady
  /\ net' = IF net.rst THEN net ELSE [net EXCEPT !.s2c = From(@, MAXLINE)]
  /\ cli' = [cli EXCEPT !.out = IF net.rst THEN @ ELSE @ \o Upto(net.s2c, MAXLINE),
                        !.rset = @ \ {"sock"}]
  /\ Go("main", IF net.rst THEN "error" ELSE IF net.s2c = <<>> THEN onEof ELSE next)
  /\ UNCHANGED <<main, serv, u, sbuf>>

\* Read(fileno(fp))
ReadIn(next, onEof) ==
  /\ InReady
  /\ cli' = [cli EXCEPT !.line = Upto(u.stdin, MAXLINE)]
  /\ u' = [u EXCEPT !.stdin = From(@, MAXLINE)]
  /\ Go("main", IF u.stdin = <<>> THEN onEof ELSE next)
  /\ UNCHANGED <<main, serv, net, sbuf>>

-----------------------------------------------------------------------------
(* The versions of str_cli *)

\* lib/str_cli.c: one line out, one line back
str_cli ==
  \/ At("main", "start") /\ Fgets("main", "write", "ok")
  \/ At("main", "write") /\ writen("main", "rl")
  \/ At("main", "rl") /\ readline("main", "start", "premature")

\* tcpcliserv/str_cli08.c: the same, for a server that adds the numbers
str_cli08 == str_cli

\* tcpcliserv/str_cli09.c: the numbers in binary; a line that is not two
\* numbers is answered on the spot
str_cli09 ==
  \/ At("main", "start") /\ Fgets("main", "scan", "ok")
  \/ At("main", "scan") /\ cli.line[2] \div 2 \in BadLines
     /\ cli' = [cli EXCEPT !.out = @ \o cli.line, !.line = <<>>] /\ Go("main", "start")
     /\ UNCHANGED <<main, serv, u, net, sbuf>>
  \/ At("main", "scan") /\ cli.line[2] \div 2 \notin BadLines /\ Skip({}, "write")
  \/ At("main", "write") /\ writen("main", "rl")
  \/ At("main", "rl") /\ readline("main", "start", "premature")

\* tcpcliserv/str_cli11.c: the line in two writes
str_cli11 ==
  \/ At("main", "start") /\ Fgets("main", "first", "ok")
  \/ At("main", "first") /\ WriteUntil("main", 2, "rest")
  \/ At("main", "rest") /\ writen("main", "rl")
  \/ At("main", "rl") /\ readline("main", "start", "premature")

\* select/strcliselect01.c: select, with stdio and readline's buffer
strcliselect01 ==
  \/ At("main", "start") /\ Select(TRUE, "sock")
  \/ At("main", "sock") /\ "sock" \in cli.rset /\ readline("main", "in", "premature")
  \/ At("main", "sock") /\ "sock" \notin cli.rset /\ Skip(cli.rset, "in")
  \/ At("main", "in") /\ "in" \in cli.rset /\ Fgets("main", "write", "ok")
  \/ At("main", "in") /\ "in" \notin cli.rset /\ Skip({}, "start")
  \/ At("main", "write") /\ writen("main", "start")

AtEof == IF cli.stdineof THEN "ok" ELSE "premature"

\* advio/str_cli_select02.c: half close at the end of standard input
str_cli_select02 ==
  \/ At("main", "start") /\ Select(~cli.stdineof, "sock")
  \/ At("main", "sock") /\ "sock" \in cli.rset /\ readline("main", "in", AtEof)
  \/ At("main", "sock") /\ "sock" \notin cli.rset /\ Skip(cli.rset, "in")
  \/ At("main", "in") /\ "in" \in cli.rset /\ Fgets("main", "write", "shut")
  \/ At("main", "in") /\ "in" \notin cli.rset /\ Skip({}, "start")
  \/ At("main", "write") /\ writen("main", "start")
  \/ At("main", "shut") /\ Shutdown("main", "start")

\* select/strcliselect02.c: half close, with read and write
strcliselect02 ==
  \/ At("main", "start") /\ Select(~cli.stdineof, "sock")
  \/ At("main", "sock") /\ "sock" \in cli.rset /\ ReadSock("in", AtEof)
  \/ At("main", "sock") /\ "sock" \notin cli.rset /\ Skip(cli.rset, "in")
  \/ At("main", "in") /\ "in" \in cli.rset /\ ReadIn("write", "shut")
  \/ At("main", "in") /\ "in" \notin cli.rset /\ Skip({}, "start")
  \/ At("main", "write") /\ writen("main", "start")
  \/ At("main", "shut") /\ Shutdown("main", "start")

\* advio/str_cli_poll03.c: the descriptors /dev/poll reports, in any order.
\* Standard input stays in the set after its end, so that shutdown is called
\* again, and may fail once the connection is closed in both directions.
str_cli_poll03 ==
  \/ At("main", "start") /\ Select(TRUE, "next")
  \/ At("main", "next") /\ cli.rset = {} /\ Skip({}, "start")
  \/ At("main", "next") /\ "sock" \in cli.rset /\ ReadSock("next", AtEof)
  \/ At("main", "next") /\ "in" \in cli.rset /\ ReadIn("write", "shut")
  \/ At("main", "write") /\ writen("main", "wrote")
  \/ At("main", "wrote") /\ Skip(cli.rset \ {"in"}, "next")
  \/ At("main", "shut") /\ Shutdown("main", "next")
  \/ At("main", "shut") /\ net.cfin /\ net.sfin /\ Skip({}, "error")

\* advio/str_cli_kqueue04.c: kevent, which removes standard input at its end
\* and knows the end of a file from the count of bytes left
str_cli_kqueue04 ==
  \/ At("main", "start") /\ Select(~cli.stdineof, "next")
  \/ At("main", "next") /\ cli.rset = {} /\ Skip({}, "start")
  \/ At("main", "next") /\ "sock" \in cli.rset /\ ReadSock("next", AtEof)
  \/ At("main", "next") /\ "in" \in cli.rset
     /\ ReadIn(IF u.isfile /\ Len(u.stdin) <= MAXLINE THEN "last" ELSE "write", "shut")
  \/ At("main", "write") /\ writen("main", "wrote")
  \/ At("main", "wrote") /\ Skip(cli.rset \ {"in"}, "next")
  \/ At("main", "last") /\ writen("main", "shut")
  \/ At("main", "shut") /\ Shutdown("main", "next")

\* Fgets and Writen to the end of standard input, then the half close
copyto(p, next) ==
  \/ At(p, "start") /\ Fgets(p, "write", "shut")
  \/ At(p, "write") /\ writen(p, "start")
  \/ At(p, "shut") /\ Shutdown(p, next)

\* nonblock/strclifork.c: the parent sends and pauses; the child receives, and
\* ends the parent with SIGTERM
strclifork ==
  \/ copyto("main", "pause")
  \/ pc["main"] # "init" /\ At("aux", "start") /\ readline("aux", "start", "kill")
  \/ /\ At("aux", "kill")
     /\ pc' = [aux |-> "exit", main |-> IF pc["main"] = "pause" THEN "ok" ELSE "killed"]
     /\ UNCHANGED <<main, serv, u, net, sbuf, cli>>

\* threads/strclithread.c: a thread sends, and the main thread's return from
\* its receive loop ends the process
strclithread ==
  \/ pc["main"] # "init" /\ copyto("aux", "end")
  \/ At("main", "start") /\ readline("main", "start", "ok")

\* threads/strclithread2.c: the same, with a flag that says the sender is done
strclithread2 ==
  \/ pc["main"] # "init" /\ copyto("aux", "flag")
  \/ /\ At("aux", "flag")
     /\ cli' = [cli EXCEPT !.done = TRUE] /\ Go("aux", "end")
     /\ UNCHANGED <<main, serv, u, net, sbuf>>
  \/ At("main", "start") /\ readline("main", "start", "check")
  \/ At("main", "check") /\ Skip({}, IF cli.done THEN "ok" ELSE "premature")

-----------------------------------------------------------------------------
(* nonblock/strclinonb.c *)

\* nonb1: wait for data or for room on all three descriptors
NonbSelect ==
  LET ready == (IF ~cli.stdineof /\ cli.to.in < MAXLINE /\ InReady THEN {"in"} ELSE {})
          \cup (IF cli.fr.in < MAXLINE /\ SockReady THEN {"sock"} ELSE {})
          \cup (IF Held(cli.to) # <<>> /\ (Len(net.c2s) < SockBuf \/ net.rst) THEN {"wsock"} ELSE {})
          \cup (IF Held(cli.fr) # <<>> THEN {"wout"} ELSE {}) IN
  ready # {} /\ Skip(ready, "in")

\* nonb2: read standard input into to ...
NonbIn ==
  /\ "in" \in cli.rset
  /\ LET got == Upto(u.stdin, MAXLINE - cli.to.in)
         shut == u.stdin = <<>> /\ Held(cli.to) = <<>> IN
     /\ u' = [u EXCEPT !.stdin = From(@, Len(got))]
     /\ cli' = IF u.stdin = <<>> THEN [cli EXCEPT !.stdineof = TRUE]
               ELSE [cli EXCEPT !.to = Fill(@, got), !.rset = @ \cup {"wsock"}]
     /\ net' = IF shut THEN [net EXCEPT !.cfin = TRUE] ELSE net
     /\ Go("main", IF shut /\ net.rst THEN "error" ELSE "sock")
  /\ UNCHANGED <<main, serv, sbuf>>

\* ... and the socket into fr
NonbSock ==
  /\ "sock" \in cli.rset
  /\ IF net.rst \/ net.s2c = <<>>
     THEN Go("main", IF net.rst THEN "error" ELSE AtEof) /\ UNCHANGED <<net, cli>>
     ELSE LET got == Upto(net.s2c, MAXLINE - cli.fr.in) IN
          /\ cli' = [cli EXCEPT !.fr = Fill(@, got), !.rset = @ \cup {"try"}]
          /\ net' = [net EXCEPT !.s2c = From(@, Len(got))]
          /\ Go("main", "wout")
  /\ UNCHANGED <<main, serv, u, sbuf>>

\* nonb3: write fr to standard output, which may take a part of it and, when
\* select has not said that it is writable, nothing ...
NonbOut ==
  /\ cli.rset \cap {"wout", "try"} # {} /\ Held(cli.fr) # <<>>
  /\ \E n \in (IF "wout" \in cli.rset THEN 1 ELSE 0)..Len(Held(cli.fr)) :
        cli' = [cli EXCEPT !.out = @ \o Upto(Held(cli.fr), n), !.fr = Drain(@, n)]
  /\ Go("main", "wsock")
  /\ UNCHANGED <<main, serv, u, net, sbuf>>

\* ... and to to the socket
NonbWrite ==
  /\ "wsock" \in cli.rset /\ Held(cli.to) # <<>>
  /\ IF net.rst THEN Go("main", "killed") /\ UNCHANGED <<net, cli>>
     ELSE LET sent == IF net.died THEN Held(cli.to) ELSE Upto(Held(cli.to), SockBuf - Len(net.c2s)) IN
          /\ net' = [net EXCEPT !.rst = net.died,
                                !.c2s = IF net.died THEN @ ELSE @ \o sent,
                                !.cfin = cli.stdineof /\ sent = Held(cli.to)]
          /\ cli' = [cli EXCEPT !.to = Drain(@, Len(sent)), !.rset = {}]
          /\ Go("main", "start")
  /\ UNCHANGED <<main, serv, u, sbuf>>

strclinonb ==
  \/ At("main", "start") /\ NonbSelect
  \/ At("main", "in") /\ (NonbIn \/ ("in" \notin cli.rset /\ Skip(cli.rset, "sock")))
  \/ At("main", "sock") /\ (NonbSock \/ ("sock" \notin cli.rset /\ Skip(cli.rset, "wout")))
  \/ /\ At("main", "wout")
     /\ \/ NonbOut
        \/ /\ cli.rset \cap {"wout", "try"} = {} \/ Held(cli.fr) = <<>>
           /\ Skip(cli.rset, "wsock")
  \/ /\ At("main", "wsock")
     /\ \/ NonbWrite
        \/ /\ "wsock" \notin cli.rset \/ Held(cli.to) = <<>>
           /\ Skip({}, "start")

-----------------------------------------------------------------------------
(* The client programs: the connection, the function, and the exit *)

Program(name, connect, fn, linger) == main = name /\ (connect \/ fn \/ Exit(linger))

tcpcli01 == Program("tcpcli01", Connect, str_cli, FALSE)
tcpcli04 == Program("tcpcli04", Connect, str_cli, FALSE)
tcpcli05 == Program("tcpcli05", Connect, str_cli, FALSE)
tcpcli08 == Program("tcpcli08", Connect, str_cli08, FALSE)
tcpcli09 == Program("tcpcli09", Connect, str_cli09, FALSE)
tcpcli10 == Program("tcpcli10", Connect, str_cli, TRUE)
tcpcli11 == Program("tcpcli11", Connect, str_cli11, FALSE)
select_tcpcli01 == Program("select_tcpcli01", Connect, strcliselect01, FALSE)
select_tcpcli02 == Program("select_tcpcli02", Connect, strcliselect02, FALSE)
advio_tcpcli01 == Program("advio_tcpcli01", Connect, str_cli, FALSE)
advio_tcpcli02 == Program("advio_tcpcli02", Connect, str_cli_select02, FALSE)
advio_tcpcli03 == Program("advio_tcpcli03", Connect, str_cli_poll03, FALSE)
advio_tcpcli04 == Program("advio_tcpcli04", Connect, str_cli_kqueue04, FALSE)
nonblock_tcpcli01 == Program("nonblock_tcpcli01", Connect, strclifork, FALSE)
nonblock_tcpcli02 == Program("nonblock_tcpcli02", Connect, strclinonb, FALSE)
nonblock_tcpcli04 == Program("nonblock_tcpcli04", Connect, str_cli, TRUE)
threads_tcpcli01 == Program("threads_tcpcli01", tcp_connect, strclithread, FALSE)
threads_tcpcli02 == Program("threads_tcpcli02", tcp_connect, strclithread2, FALSE)
unixstrcli01 == Program("unixstrcli01", Connect, str_cli, FALSE)

\* tcpcliserv/tcpcli07.c: an interval timer whose handler exits, meant to go
\* off before the connection is established
tcpcli07 ==
  \/ Program("tcpcli07", Connect, str_cli, FALSE)
  \/ main = "tcpcli07" /\ ~Ended /\ Go("main", "alarm") /\ UNCHANGED <<main, serv, u, net, sbuf, cli>>

\* the daytime clients: read to the end of the file
ReadAll == At("main", "start") /\ ReadSock("start", "ok")

daytimetcpcli == Program("daytimetcpcli", Connect, ReadAll, FALSE)
daytimetcpcli1 == Program("daytimetcpcli1", Connect, ReadAll, FALSE)
daytimetcpcli2 == Program("daytimetcpcli2", Connect, ReadAll, FALSE)
daytimetcpcli3 == Program("daytimetcpcli3", Connect, ReadAll, FALSE)
daytimetcpcliv6 == Program("daytimetcpcliv6", Connect, ReadAll, FALSE)
names_daytimetcpcli == Program("names_daytimetcpcli", tcp_connect, ReadAll, FALSE)
names_daytimetcpcli1 == Program("names_daytimetcpcli1", tcp_connect, ReadAll, FALSE)
names_daytimetcpcli2 == Program("names_daytimetcpcli2", tcp_connect, ReadAll, FALSE)
names_daytimetcpcli3 == Program("names_daytimetcpcli3", tcp_connect, ReadAll, FALSE)
nonblock_daytimetcpcli == Program("nonblock_daytimetcpcli", Connect, ReadAll, FALSE)
unix_daytimetcpcli == Program("unix_daytimetcpcli", tcp_connect, ReadAll, FALSE)

\* advio/daytimetcpcli.c: look at what has come with MSG_PEEK, then read it
advio_daytimetcpcli ==
  LET peek == At("main", "start") /\ SockReady
              /\ Skip({}, IF net.rst THEN "error" ELSE IF net.s2c = <<>> THEN "ok" ELSE "read")
      read == At("main", "read") /\ ReadSock("start", "start") IN
  Program("advio_daytimetcpcli", tcp_connect, peek \/ read, FALSE)

Client ==
  \/ tcpcli01 \/ tcpcli04 \/ tcpcli05 \/ tcpcli08 \/ tcpcli09
  \/ tcpcli10 \/ tcpcli11 \/ select_tcpcli01 \/ select_tcpcli02 \/ advio_tcpcli01
  \/ advio_tcpcli02 \/ advio_tcpcli03 \/ advio_tcpcli04 \/ nonblock_tcpcli01 \/ nonblock_tcpcli02
  \/ nonblock_tcpcli04 \/ threads_tcpcli01 \/ threads_tcpcli02 \/ unixstrcli01
  \/ tcpcli07 \/ daytimetcpcli \/ daytimetcpcli1 \/ daytimetcpcli2
  \/ daytimetcpcli3 \/ daytimetcpcliv6 \/ names_daytimetcpcli \/ names_daytimetcpcli1
  \/ names_daytimetcpcli2 \/ names_daytimetcpcli3 \/ nonblock_daytimetcpcli \/ unix_daytimetcpcli
  \/ advio_daytimetcpcli

-----------------------------------------------------------------------------
(* The servers, as far as one connection goes *)

Serving(name) == serv = name /\ ~net.died /\ ~net.sfin /\ pc["main"] # "init"

\* write() of the next byte of the server's buffer; a client that is gone
\* answers it with a reset, which ends the server's process
Send ==
  /\ sbuf # <<>>
  /\ IF net.gone \/ net.crst THEN net' = [net EXCEPT !.sfin = TRUE] /\ UNCHANGED sbuf
     ELSE /\ Len(net.s2c) < SockBuf
          /\ net' = [net EXCEPT !.s2c = Append(@, Head(sbuf))]
          /\ sbuf' = Tail(sbuf)

\* read() of n bytes into the server's buffer
Recv(n) == sbuf' = sbuf \o Upto(net.c2s, n) /\ net' = [net EXCEPT !.c2s = From(@, n)]

\* end of file or a reset, and the exit that closes the connection
Close == net' = [net EXCEPT !.sfin = TRUE] /\ UNCHANGED sbuf

\* lib/str_echo.c: read a buffer, Writen it
str_echo ==
  /\ Serving("str_echo")
  /\ \/ sbuf = <<>> /\ net.c2s # <<>> /\ ~net.crst /\ Recv(MAXLINE)
     \/ Send
     \/ sbuf = <<>> /\ (net.crst \/ (net.c2s = <<>> /\ net.cfin)) /\ Close
  /\ UNCHANGED <<main, serv, u, cli, pc>>

\* unixdomain/strecho.c: the same, with the sender's credentials
strecho ==
  /\ Serving("strecho")
  /\ \/ sbuf = <<>> /\ net.c2s # <<>> /\ ~net.crst /\ Recv(MAXLINE)
     \/ Send
     \/ sbuf = <<>> /\ (net.crst \/ (net.c2s = <<>> /\ net.cfin)) /\ Close
  /\ UNCHANGED <<main, serv, u, cli, pc>>

\* a request of one line, and its answer
Answer ==
  /\ \/ HasLine(net.c2s) /\ sbuf = <<>> /\ ~net.crst /\ Recv(LineEnd(net.c2s))
     \/ Send
     \/ sbuf = <<>> /\ (net.crst \/ (~HasLine(net.c2s) /\ net.cfin)) /\ Close
  /\ UNCHANGED <<main, serv, u, cli, pc>>

\* tcpcliserv/str_echo08.c and str_echo09.c: the sum of two numbers
str_echo08 == Serving("str_echo08") /\ Answer
str_echo09 == Serving("str_echo09") /\ Answer

\* advio/str_echo_stdio02.c: Fputs leaves the lines in stdio's buffer, which
\* exit flushes (the few lines of an instance never fill it)
str_echo_stdio02 ==
  /\ Serving("str_echo_stdio02")
  /\ \/ net.c2s # <<>> /\ ~net.crst /\ Recv(SockBuf)
     \/ net.c2s = <<>> /\ net.cfin /\ Send
     \/ (net.crst \/ (net.c2s = <<>> /\ net.cfin /\ sbuf = <<>>)) /\ Close
  /\ UNCHANGED <<main, serv, u, cli, pc>>

\* the daytime servers: write the time of day and close
Daytime ==
  /\ Send \/ (sbuf = <<>> /\ Close)
  /\ UNCHANGED <<main, serv, u, cli, pc>>

daytimetcpsrv == Serving("daytimetcpsrv") /\ Daytime
daytimetcpsrv1 == Serving("daytimetcpsrv1") /\ Daytime
daytimetcpsrv2 == Serving("daytimetcpsrv2") /\ Daytime
daytimetcpsrv3 == Serving("daytimetcpsrv3") /\ Daytime
daytimetcpsrvv6 == Serving("daytimetcpsrvv6") /\ Daytime
inetd_daytimetcpsrv2 == Serving("inetd_daytimetcpsrv2") /\ Daytime
inetd_daytimetcpsrv3 == Serving("inetd_daytimetcpsrv3") /\ Daytime
names_daytimetcpsrv1 == Serving("names_daytimetcpsrv1") /\ Daytime
names_daytimetcpsrv2 == Serving("names_daytimetcpsrv2") /\ Daytime
names_daytimetcpsrv3 == Serving("names_daytimetcpsrv3") /\ Daytime
names_daytimetcpsrv4 == Serving("names_daytimetcpsrv4") /\ Daytime
unix_daytimetcpsrv2 == Serving("unix_daytimetcpsrv2") /\ Daytime

Server ==
  \/ str_echo \/ strecho \/ str_echo08 \/ str_echo09
  \/ str_echo_stdio02 \/ daytimetcpsrv \/ daytimetcpsrv1 \/ daytimetcpsrv2
  \/ daytimetcpsrv3 \/ daytimetcpsrvv6 \/ inetd_daytimetcpsrv2 \/ inetd_daytimetcpsrv3
  \/ names_daytimetcpsrv1 \/ names_daytimetcpsrv2 \/ names_daytimetcpsrv3 \/ names_daytimetcpsrv4
  \/ unix_daytimetcpsrv2

\* the server's process is killed: its kernel sends a FIN, or a reset when
\* there are bytes that the server has not read
ServerDies ==
  /\ ~net.died /\ ~net.sfin /\ pc["main"] # "init"
  /\ net' = [net EXCEPT !.died = TRUE, !.sfin = net.c2s = <<>>, !.rst = net.c2s # <<>>]
  /\ UNCHANGED <<main, serv, u, sbuf, cli, pc>>

-----------------------------------------------------------------------------
Type ==
  /\ ~u.eof /\ u.typed < NTyped
  /\ u' = [u EXCEPT !.typed = @ + 1, !.stdin = @ \o <<2 * u.typed + 1, 2 * u.typed + 2>>]
  /\ UNCHANGED <<main, serv, net, sbuf, cli, pc>>

TypeEof ==
  /\ ~u.eof
  /\ u' = [u EXCEPT !.eof = TRUE]
  /\ UNCHANGED <<main, serv, net, sbuf, cli, pc>>

EchoServers == {"str_echo", "strecho", "str_echo08", "str_echo09", "str_echo_stdio02"}

Init ==
  /\ \E p \in Pairs : main = p[1] /\ serv = p[2]
  /\ u \in {[stdin |-> <<>>, typed |-> 0, eof |-> serv \notin EchoServers, isfile |-> FALSE],
            [stdin |-> Input, typed |-> NLines, eof |-> TRUE, isfile |-> TRUE]}
  /\ net = [c2s |-> <<>>, s2c |-> <<>>, cfin |-> FALSE, sfin |-> FALSE, rst |-> FALSE,
            crst |-> FALSE, died |-> FALSE, gone |-> FALSE]
  /\ sbuf = IF serv \in EchoServers THEN <<>> ELSE Input
  /\ cli = [tries |-> 0, fbuf |-> <<>>, line |-> <<>>, rbuf |-> <<>>, rset |-> {},
            stdineof |-> FALSE, to |-> EmptyBuf, fr |-> EmptyBuf, done |-> FALSE, out |-> <<>>]
  /\ pc = [main |-> "init", aux |-> "start"]

Next == Client \/ Server \/ ServerDies \/ Type \/ TypeEof

\* every process runs on; nothing makes the user type or stop
Spec == Init /\ [][Next]_vars /\ WF_vars(Client) /\ WF_vars(Server)

-----------------------------------------------------------------------------
\* what standard output ought to show
Expected == IF serv \in EchoServers THEN Upto(Input, 2 * u.typed) ELSE Input

\* Standard output shows the bytes in order, without a gap or a repetition.
OutIsPrefix == IsPrefix(cli.out, Expected)

Returned == pc["main"] = "ok" /\ ~net.died

\* A client that ends normally has shown everything the server had for it.
\* Two do not wait for it: strcliselect01 returns at the end of its input, and
\* strclinonb with bytes that standard output has not taken.
EchoComplete ==
  Returned /\ main \notin {"select_tcpcli01", "nonblock_tcpcli02"} => cli.out = Expected

\* the clients that wait for either input and then block in write
OneThread == {"select_tcpcli01", "select_tcpcli02", "advio_tcpcli02", "advio_tcpcli03", "advio_tcpcli04"}

\* client and server both in write, neither with room for a byte, which only the
\* death of the server ends
Jammed == /\ serv = "str_echo" /\ main \in OneThread /\ pc["main"] \in {"write", "last"}
          /\ Len(net.c2s) = SockBuf /\ Len(net.s2c) = SockBuf /\ sbuf # <<>>

\* a client that waits for each answer hangs on a server that keeps them, and
\* strclifork's parent when a reset ends its child without the SIGTERM
Hangs ==
  \/ serv = "str_echo_stdio02" /\ pc["main"] = "rl"
  \/ pc["aux"] = "gone"
  \/ Jammed

\* After the end of its input a client ends, and with it the server's process,
\* or it hangs for good in one of three ways.  Of those only the two buffers
\* that fill up are left with a server that answers at once, and not for the
\* clients that never block in write, or leave reading to another process or
\* thread.
BothEnd == u.eof ~> (Hangs \/ (Ended /\ (net.sfin \/ net.died)))

\* the clients that wait in select for what stdio or readline already holds
Forgetful == {"select_tcpcli01", "advio_tcpcli02"}

\* Again and again every line typed so far has been echoed, without waiting for
\* the next one, unless both ends are stuck in write.
Responsive ==
  []<>(\/ main \in Forgetful \/ serv = "str_echo_stdio02"
       \/ Ended \/ net.died \/ Jammed \/ Len(cli.out) >= 2 * u.typed)

=============================================================================
