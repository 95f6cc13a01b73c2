---------------------------- MODULE PrintSession ----------------------------
(***************************************************************************)
(* A print command (apue.3e/printer/print.c) and the thread of printd.c    *)
(* that serves it: the connection, the timed reads of util.c, the list of  *)
(* worker threads and its clean-up, and the signal that ends the daemon.   *)
(* What becomes of an accepted job is the subject of Printd.               *)
(*                                                                         *)
(* The list is modelled as the memory it is in.  A node that is used after *)
(* free either ends the daemon or still has its old contents.              *)
(***************************************************************************)
EXTENDS Integers, Sequences, FiniteSets, SequencesExt, FiniteSetsExt

CONSTANTS Clients, NULL,
          Addr,       \* addresses malloc may return, 1..n
          HDR,        \* pieces a request header arrives in
          IOBUFSZ,    \* pieces of a file one read takes at most
          NAddrs,     \* addresses of the print server
          Configs     \* the configuration file (lines, each a sequence of words), the
                      \* pieces of a file (len), the clients, those that come later, when one
                      \* has been served, those whose request does not arrive in one piece
                      \* (slow), and how many calls may fail or commands be interrupted

VARIABLES config,
          cl,         \* the print commands
          conn,       \* their connections
          th,         \* the threads that serve them
          mem,        \* the worker list
          d           \* the daemon: its signal thread, its queue, workerlock; whether two
                      \* workers were ever listed at once; whom kill_workers missed

vars == <<config, cl, conn, th, mem, d>>

File == [i \in 1 .. config.len |-> i]
Request == [i \in 1 .. HDR |-> "hdr"] \o File
Running == d.pc \in {"up", "killed"}
MayLock == Running /\ ~d.hung      \* a walk that does not end keeps workerlock
ToClient(c, l) == cl' = [cl EXCEPT ![c].pc = l]
Fault == d.faults < config.faults /\ d' = [d EXCEPT !.faults = @ + 1]
ToThread(c, l) == th' = [th EXCEPT ![c].pc = l]

NewMem == [workers |-> NULL, node |-> [a \in Addr |-> [tid |-> NULL, prev |-> NULL, next |-> NULL, live |-> FALSE]]]

\* exit and death close every connection and end every thread
Close(c) == [conn[c] EXCEPT !.closed = TRUE, !.q = <<>>, !.rst = @ \/ conn[c].q # <<>>]
Stop(how) ==
  /\ d' = [d EXCEPT !.pc = how]
  /\ conn' = [c \in Clients |-> Close(c)]
  /\ th' = [c \in Clients |-> [th[c] EXCEPT !.pc = "gone", !.n = 0, !.cancelled = FALSE]]
  /\ mem' = NewMem

-----------------------------------------------------------------------------
(* The configuration file *)

\* the value of the first line of two words whose keyword matches
scan_configfile(keyword) ==
  LET match == SelectSeq(config.lines, LAMBDA line : Len(line) = 2 /\ line[1] = keyword) IN
  IF match = <<>> THEN NULL ELSE match[1][2]
get_printserver == scan_configfile("printserver")
get_printaddr == scan_configfile("printer")

\* init_printer: no printer, no daemon
init_printer ==
  /\ d.pc = "init"
  /\ d' = [d EXCEPT !.pc = IF get_printaddr = NULL THEN "exited" ELSE "up"]
  /\ UNCHANGED <<config, cl, conn, th, mem>>

-----------------------------------------------------------------------------
(* print *)

\* main: the addresses of the server one after the other, until one accepts
print_main(c) ==
  /\ cl[c].pc = "start" /\ (c \in config.later => \E e \in config.clients : th[e].pc = "gone")
  /\ \/ get_printserver = NULL /\ ToClient(c, "error") /\ UNCHANGED conn
     \/ /\ get_printserver # NULL /\ d.pc = "up"
        /\ cl' = [cl EXCEPT ![c].pc = "send"]
        /\ conn' = [conn EXCEPT ![c].closed = FALSE]
     \/ /\ get_printserver # NULL /\ (d.pc = "exited" \/ cl[c].aip < NAddrs)
        /\ cl' = [cl EXCEPT ![c].aip = @ + 1, ![c].pc = IF cl[c].aip = NAddrs THEN "error" ELSE @]
        /\ UNCHANGED conn
  /\ UNCHANGED <<config, th, mem, d>>

\* submit_file: the header, the file, and then, the connection still open, the
\* response; a write to a connection the server has closed ends the command
submit_file(c) ==
  /\ \/ /\ cl[c].pc = "send" /\ ~conn[c].closed
        /\ LET sent == IF c \in config.slow THEN cl[c].sent + 1 ELSE Len(Request) IN
           /\ conn' = [conn EXCEPT ![c].q = @ \o SubSeq(Request, cl[c].sent + 1, sent)]
           /\ cl' = [cl EXCEPT ![c].sent = sent, ![c].pc = IF sent = Len(Request) THEN "response" ELSE @]
     \/ cl[c].pc = "send" /\ conn[c].closed /\ ToClient(c, "error") /\ UNCHANGED conn
     \/ /\ cl[c].pc = "response" /\ conn[c].resp # "none"
        /\ ToClient(c, conn[c].resp) /\ UNCHANGED conn
     \/ cl[c].pc = "response" /\ conn[c].closed /\ (conn[c].resp = "none" \/ conn[c].rst) /\ ToClient(c, "error") /\ UNCHANGED conn
  /\ UNCHANGED <<config, th, mem, d>>

\* the user interrupts the command
Interrupt(c) ==
  /\ cl[c].pc \in {"send", "response"} /\ ToClient(c, "killed") /\ Fault
  /\ conn' = [conn EXCEPT ![c].fin = TRUE]
  /\ UNCHANGED <<config, th, mem>>

-----------------------------------------------------------------------------
(* The worker list *)

\* the nodes a walk from workers visits until Found, at most one more than
\* there are: a longer walk does not end
Nodes(Found(_)) ==
  LET at[n \in 0 .. Cardinality(Addr) + 1] ==
        IF n = 0 THEN mem.workers
        ELSE IF at[n-1] = NULL \/ Found(at[n-1]) THEN NULL ELSE mem.node[at[n-1]].next
  IN SelectSeq([n \in 1 .. Cardinality(Addr) + 2 |-> at[n-1]], LAMBDA a : a # NULL)
Endless(walk) == Len(walk) > Cardinality(Addr)
Freed(a) == a \in Addr /\ ~mem.node[a].live
Registered == {c \in Clients : th[c].node # NULL /\ th[c].pc # "gone"}

\* a step that uses the nodes in used; the others go on only if none of them
\* has been freed, or has but is as it was
Using(used, Step) ==
  \/ Step
  \/ (\E a \in used : Freed(a)) /\ Stop("crashed")

\* add_worker: malloc, and the new node before the head, which stays the head
\* unless there was none
add_worker(c) ==
  /\ MayLock /\ th[c].pc = "start"
  /\ \/ /\ \E a \in Addr :
             /\ Freed(a) /\ \A b \in 1 .. a - 1 : ~Freed(b)
             /\ LET new == [tid |-> c, prev |-> NULL, next |-> mem.workers, live |-> TRUE]
                    node == [mem.node EXCEPT ![a] = new] IN
                Using({mem.workers},
                      /\ mem' = IF mem.workers = NULL THEN [mem EXCEPT !.node = node, !.workers = a]
                                ELSE [mem EXCEPT !.node = [node EXCEPT ![mem.workers].prev = a]]
                      /\ th' = [th EXCEPT ![c].pc = "header", ![c].node = a]
                      /\ d' = [d EXCEPT !.overlap = @ \/ Registered # {}]
                      /\ UNCHANGED conn)
     \/ ToThread(c, "cleanup") /\ Fault /\ UNCHANGED <<conn, mem>>
  /\ UNCHANGED <<config, cl>>

\* kill_workers and exit, on a SIGTERM that comes when the later clients have
\* been accepted
kill_workers ==
  LET walk == Nodes(LAMBDA a : FALSE)
      hit == {mem.node[a].tid : a \in Range(walk)} IN
  /\ d.pc = "up" /\ MayLock /\ \A c \in config.later : th[c].node # NULL
  /\ IF Endless(walk) THEN d' = [d EXCEPT !.hung = TRUE] /\ UNCHANGED <<conn, th, mem>>
     ELSE Using(Range(walk),
                /\ d' = [d EXCEPT !.pc = "killed", !.missed = Registered \ hit]
                /\ th' = [c \in Clients |-> [th[c] EXCEPT !.cancelled = c \in hit]]
                /\ UNCHANGED <<conn, mem>>)
  /\ UNCHANGED <<config, cl>>

signal_thread ==
  \/ kill_workers
  \/ d.pc = "killed" /\ Stop("exited") /\ UNCHANGED <<config, cl>>

\* mutation: the head of the list is not moved past the node
UnlinkKeepsHead(a) ==
  LET n == mem.node[a].next
      p == mem.node[a].prev
      one == IF n = NULL THEN mem ELSE [mem EXCEPT !.node[n].prev = p] IN
  IF p = NULL THEN one ELSE [one EXCEPT !.node[p].next = n]

\* node a taken out of the list
Unlink(a) ==
  LET n == mem.node[a].next
      p == mem.node[a].prev
      one == IF n = NULL THEN mem ELSE [mem EXCEPT !.node[n].prev = p] IN
  IF p = NULL THEN [one EXCEPT !.workers = n] ELSE [one EXCEPT !.node[p].next = n]

\* client_cleanup: the thread's node is unlinked, its socket closed; a thread
\* that is not on the list keeps its socket
client_cleanup(c) ==
  LET walk == Nodes(LAMBDA a : mem.node[a].tid = c)
      a == Last(walk)
      n == mem.node[a].next
      p == mem.node[a].prev IN
  /\ MayLock /\ th[c].pc = "cleanup"
  /\ IF Endless(walk) THEN d' = [d EXCEPT !.hung = TRUE] /\ UNCHANGED <<conn, th, mem>>
     ELSE IF walk = <<>> \/ mem.node[a].tid # c
     THEN Using(Range(walk), ToThread(c, "gone") /\ UNCHANGED <<conn, mem, d>>)
     ELSE Using(Range(walk) \union ({n, p} \ {NULL}),
                /\ mem' = [Unlink(a) EXCEPT !.node[a].live = FALSE]
                /\ conn' = [conn EXCEPT ![c] = Close(c)]
                /\ ToThread(c, "gone") /\ UNCHANGED d)
  /\ UNCHANGED <<config, cl>>

-----------------------------------------------------------------------------
(* main and client_thread *)

\* accept and pthread_create, whose failure nobody notices
printd_main(c) ==
  /\ Running /\ ~conn[c].closed
  /\ \/ th[c].pc = "none" /\ ToThread(c, "start") /\ UNCHANGED d
     \/ th[c].pc = "none" /\ ToThread(c, "orphan") /\ Fault
  /\ UNCHANGED <<config, cl, conn, mem>>

\* tread: what select says within its time, and one read.  A connection with
\* nothing to read, whose client is alive, is a timeout
Readable(c) == conn[c].q # <<>>
NoMore(c) == conn[c].q = <<>>
\* mutation: a byte more than was asked for is taken
TreadTooMuch(c, n) == conn' = [conn EXCEPT ![c].q = SubSeq(@, n + 2, Len(@))]

tread(c, n) == conn' = [conn EXCEPT ![c].q = SubSeq(@, n + 1, Len(@))]

\* a thread whose wtp is cancelled leaves at its next system call,
\* which after the response is log_msg's
Cancelled(c) ==
  /\ Running
  /\ th[c].cancelled /\ th[c].pc \in {"header", "data", "respond", "add_job"}
  /\ ToThread(c, "cleanup") /\ UNCHANGED <<config, cl, conn, mem, d>>

Reject(c) ==
  /\ conn' = [conn EXCEPT ![c].resp = "rejected"]
  /\ ToThread(c, "cleanup")

\* treadn: HDR pieces, fewer when a read finds the end or nothing in time
treadn(c) ==
  /\ th[c].pc = "header" /\ UNCHANGED d
  /\ \/ /\ Readable(c)
        /\ LET n == Min({HDR - th[c].n, Len(conn[c].q)}) IN
           /\ tread(c, n)
           /\ th' = [th EXCEPT ![c].n = @ + n, ![c].pc = IF th[c].n + n = HDR THEN "data" ELSE @]
     \/ NoMore(c) /\ Reject(c)

\* the data file, until a read finds the end of the connection or nothing for
\* 20 seconds; then the control file
Taken(c) == Min({IOBUFSZ, Len(conn[c].q)})
Spool(c) ==
  /\ th[c].pc = "data" /\ UNCHANGED d
  /\ \/ /\ Readable(c) /\ tread(c, Taken(c))
        /\ th' = [th EXCEPT ![c].file = @ \o SubSeq(conn[c].q, 1, Taken(c))]
     \/ /\ NoMore(c) /\ UNCHANGED conn
        /\ th' = [th EXCEPT ![c].pc = "respond", ![c].control = TRUE,
                           ![c].early = ~conn[c].fin /\ cl[c].pc = "send"]

\* a file that cannot be made, or written after a read: the files are unlinked
SpoolFails(c) ==
  /\ th[c].pc = "data" /\ Fault
  /\ th' = [th EXCEPT ![c].pc = "cleanup", ![c].file = <<>>]
  /\ \E n \in {Taken(c)} \union {m \in {0} : th[c].file = <<>>} :
       conn' = [conn EXCEPT ![c].resp = "rejected", ![c].q = SubSeq(@, n + 1, Len(@))]

\* writen, whose failure, when the client has gone, nobody notices
Respond(c) ==
  /\ th[c].pc = "respond" /\ ToThread(c, "add_job") /\ UNCHANGED d
  /\ \/ conn' = [conn EXCEPT ![c].resp = "accepted"]
     \/ conn[c].fin /\ UNCHANGED conn

\* the job's place in the queue of the printer thread
add_job(c) ==
  /\ th[c].pc = "add_job" /\ ToThread(c, "cleanup") /\ UNCHANGED conn
  /\ d' = [d EXCEPT !.jobs = Append(@, c)]

client_thread(c) ==
  \/ add_worker(c) \/ client_cleanup(c) \/ Cancelled(c)
  \/ Running /\ (treadn(c) \/ Spool(c) \/ SpoolFails(c) \/ Respond(c) \/ add_job(c)) /\ UNCHANGED <<config, cl, mem>>

-----------------------------------------------------------------------------
Init ==
  /\ config \in Configs
  /\ cl = [c \in Clients |-> [pc |-> IF c \in config.clients \union config.later THEN "start" ELSE "absent", aip |-> 1, sent |-> 0]]
  /\ conn = [c \in Clients |-> [q |-> <<>>, fin |-> FALSE, rst |-> FALSE, resp |-> "none", closed |-> TRUE]]
  /\ th = [c \in Clients |-> [pc |-> "none", n |-> 0, node |-> NULL, file |-> <<>>, control |-> FALSE, early |-> FALSE, cancelled |-> FALSE]]
  /\ mem = NewMem
  /\ d = [pc |-> "init", jobs |-> <<>>, hung |-> FALSE, overlap |-> FALSE, missed |-> {}, faults |-> 0]

Command(c) == print_main(c) \/ submit_file(c)

Next ==
  \/ init_printer \/ signal_thread
  \/ \E c \in Clients : Command(c) \/ Interrupt(c) \/ printd_main(c) \/ client_thread(c)

Spec == Init /\ [][Next]_vars

-----------------------------------------------------------------------------
(* Properties *)

\* What is spooled of a file is its beginning, in order, however reads cut it;
\* a job that has its control file has all of it, unless the client was
\* interrupted or its pause was taken for the end.  A job that was reported or
\* queued has its control file, wherever its thread was cancelled or the daemon
\* ended, and until the daemon is told to end one with a control file whose
\* thread is gone is in the queue.
JobWhole ==
  \A c \in Clients :
    /\ IsPrefix(th[c].file, File)
    /\ th[c].control /\ ~th[c].early /\ ~conn[c].fin => th[c].file = File
    /\ conn[c].resp = "accepted" \/ c \in Range(d.jobs) => th[c].control
    /\ th[c].control /\ th[c].pc = "gone" /\ d.pc = "up" => c \in Range(d.jobs)

\* As long as no two clients were served at once, the list holds exactly the
\* threads that serve one, no node is used after free, and a thread that is
\* gone has closed its connection.
WorkersListed ==
  ~d.overlap =>
    /\ Running => Range(Nodes(LAMBDA a : FALSE)) = {th[c].node : c \in Registered}
    /\ d.pc # "crashed" /\ ~d.hung
    /\ \A c \in Clients : th[c].pc = "gone" /\ th[c].node # NULL => conn[c].closed

\* kill_workers: "Cancel (kill) all outstanding workers."
KillsAll == d.missed = {}
=============================================================================
