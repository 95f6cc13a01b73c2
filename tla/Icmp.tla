-------------------------------- MODULE Icmp --------------------------------
(* The ICMP programs of unpv13e: ping, bsdping and traceroute.  A raw socket
   is given a copy of every ICMP message the host receives, so each program
   picks out its own; messages come late, twice or not at all, and SIGALRM
   handlers run between any two steps.                                       *)
EXTENDS Integers, Sequences, FiniteSets, Bags, BagsExt
CONSTANTS Progs,
          MaxSent,      \* bound on the requests of one program
          npackets,     \* -c of bsdping
          preloads,     \* -l of bsdping
          mx_dup_ck,    \* sequence numbers the table of bsdping tells apart
          max_ttl, nprobes,   \* of traceroute
          Dist          \* routers on the way, counting the destination
VARIABLES prog, p, icmp
vars == <<prog, p, icmp>>

\* icmp: the messages the host has received or will receive, as a bag.
Kinds == {"reply", "timxceed", "port", "host"}
Take(m) == icmp' = BagRemove(icmp, m)
Waiting == BagToSet(icmp)
Reply(seq) == [kind |-> "reply", mine |-> TRUE, seq |-> seq]
\* the network loses a request, answers it, or answers it twice
Answers(seq) ==
    icmp' \in {icmp, BagAdd(icmp, Reply(seq)), BagAdd(BagAdd(icmp, Reply(seq)), Reply(seq))}

At(pc) == p.pc = pc
Is(names) == prog \in names

-----------------------------------------------------------------------------
(* ping: readloop.c, with send_v4/send_v6 called from the SIGALRM handler. *)
Ping == {"ping_v4", "ping_v6"}

\* ICMP echo request number nsent; the network answers it up to twice.
SendEcho ==
    /\ p.nsent < MaxSent
    /\ Answers(p.nsent)
    /\ p' = [p EXCEPT !.nsent = @ + 1]
send_v4 == Is({"ping_v4"}) /\ SendEcho
send_v6 == Is({"ping_v6"}) /\ SendEcho

\* The handler, which readloop also calls for the first request.
ping_sig_alrm == Is(Ping) /\ (send_v4 \/ send_v6) /\ UNCHANGED prog

\* Only echo replies that carry our identifier are shown; the last one is kept.
ShowsMine(m) ==
    p' = [p EXCEPT !.shown = IF m.kind = "reply" /\ m.mine THEN <<m>> ELSE @]
proc_v4(m) == Is({"ping_v4"}) /\ ShowsMine(m)
\* init_v6 installs a filter that passes echo replies only.
init_v6(m) == m.kind = "reply"
proc_v6(m) == Is({"ping_v6"}) /\ IF init_v6(m) THEN ShowsMine(m) ELSE UNCHANGED p

readloop ==
    /\ Is(Ping) /\ p.nsent > 0
    /\ \E m \in Waiting : Take(m) /\ (proc_v4(m) \/ proc_v6(m))
    /\ UNCHANGED prog

-----------------------------------------------------------------------------
(* bsdping.c *)
Bsd == {"bsdping", "bsdping_f"}

\* pinger: the request, and the bit of its number is cleared.
pinger ==
    /\ p.nsent < MaxSent
    /\ Answers(p.nsent)
    /\ p' = [p EXCEPT !.nsent = @ + 1, !.tbl = @ \ {p.nsent % mx_dup_ck}]

\* main before the loop: the preload, then the interval timer unless -f.
bsd_main ==
    /\ Is(Bsd) /\ At("preload")
    /\ IF p.preload > 0
       THEN /\ Answers(p.nsent)
            /\ p' = [p EXCEPT !.nsent = @ + 1, !.tbl = @ \ {p.nsent % mx_dup_ck}, !.preload = @ - 1]
       ELSE p' = [p EXCEPT !.pc = "loop", !.timer = prog = "bsdping"] /\ UNCHANGED icmp
    /\ UNCHANGED prog

\* summary: the two counts it prints.
summary(q, pc) == [q EXCEPT !.said = <<q.nsent, q.nreceived>>, !.from = q.pc, !.pc = pc]

\* onint, for SIGINT and for the last alarm
onint == p' = summary(p, "exit") /\ UNCHANGED <<prog, icmp>>
Interrupt == Is(Bsd) /\ p.pc \in {"loop", "dup", "check"} /\ onint

\* mutation: no last alarm
AlarmsForRequests ==
    /\ Is(Bsd) /\ p.timer /\ p.pc \in {"loop", "dup", "check"}
    /\ p.nsent < npackets /\ pinger
    /\ UNCHANGED prog

\* onalrm: another request, or the last wait.
onalrm ==
    /\ Is(Bsd) /\ p.timer /\ p.pc \in {"loop", "dup", "check"}
    /\ \/ ~p.last /\ p.nsent < npackets /\ pinger
       \/ ~p.last /\ p.nsent >= npackets /\ p' = [p EXCEPT !.last = TRUE] /\ UNCHANGED icmp
       \/ p.last /\ p' = summary(p, "exit") /\ UNCHANGED icmp
    /\ UNCHANGED prog

\* pr_pack counts a reply of ours first, and corrects the count when the table
\* says that it is a duplicate.
pr_pack ==
    \/ /\ At("loop")
       /\ \E m \in Waiting :
            /\ Take(m)
            /\ p' = IF m.kind = "reply" /\ m.mine
                    THEN [p EXCEPT !.nreceived = @ + 1, !.seen = @ + 1, !.cur = m.seq, !.pc = "dup"]
                    ELSE [p EXCEPT !.pc = "check"]
    \/ /\ At("dup")
       /\ p' = IF p.cur % mx_dup_ck \in p.tbl
               THEN [p EXCEPT !.nrepeats = @ + 1, !.nreceived = @ - 1, !.pc = "check"]
               ELSE [p EXCEPT !.tbl = @ \cup {p.cur % mx_dup_ck}, !.pc = "check"]
       /\ UNCHANGED icmp

\* The loop of main: with -f a request on every turn.
bsd_loop ==
    /\ Is(Bsd)
    /\ \/ prog = "bsdping_f" /\ At("loop") /\ pinger
       \/ pr_pack
       \/ /\ At("check")
          /\ p' = IF p.nreceived >= npackets THEN summary(p, "exit") ELSE [p EXCEPT !.pc = "loop"]
          /\ UNCHANGED icmp
    /\ UNCHANGED prog

-----------------------------------------------------------------------------
(* traceroute: traceloop.c with recv_v4.c or recv_v6.c *)
Trace == {"traceroute_v4", "traceroute_v6"}

\* A probe: a router answers time exceeded, the destination port unreachable;
\* a router on the way may answer host unreachable, and answers get lost.
traceloop ==
    /\ Is(Trace) /\ At("probe")
    /\ IF p.ttl > max_ttl \/ (p.probe = 0 /\ p.done > 0)
       THEN p' = [p EXCEPT !.pc = "exit"] /\ UNCHANGED icmp
       ELSE LET seq == p.nsent + 1
                kinds == IF p.ttl < Dist THEN {"timxceed", "host"} ELSE {"port"}
            IN  /\ p' = [p EXCEPT !.nsent = seq, !.gotalarm = FALSE, !.timer = TRUE, !.pc = "test"]
                /\ \/ UNCHANGED icmp
                   \/ \E k \in kinds : icmp' = BagAdd(icmp, [kind |-> k, mine |-> TRUE, seq |-> seq])
    /\ UNCHANGED prog

\* SIGALRM interrupts recvfrom, but does nothing to a call that is still to come.
sig_alrm ==
    /\ Is(Trace) /\ p.timer /\ p.pc \in {"test", "enter", "recv"}
    /\ p' = [p EXCEPT !.gotalarm = TRUE, !.timer = FALSE, !.pc = IF @ = "recv" THEN "test" ELSE @]
    /\ UNCHANGED <<prog, icmp>>

\* What the caller does with the code, and the next probe; the last line is kept.
Answered(code, m) ==
    LET q == [p EXCEPT !.shown = <<[seq |-> p.nsent, code |-> code, of |-> m.seq]>>,
                       !.done = IF code = "port" THEN @ + 1 ELSE @, !.timer = FALSE]
    IN  IF p.probe + 1 < nprobes THEN [q EXCEPT !.probe = @ + 1, !.pc = "probe"]
                                 ELSE [q EXCEPT !.probe = 0, !.ttl = @ + 1, !.pc = "probe"]
Silence == [seq |-> 0, kind |-> "none", mine |-> TRUE]

\* mutation: the port of the probe is not compared
RecvAnyProbe(m) ==
    /\ Is({"traceroute_v4"})
    /\ p' = IF m.mine /\ m.kind # "reply" THEN Answered(m.kind, m) ELSE [p EXCEPT !.pc = "test"]

\* recv_v4: the answer must quote our source port and the port of this probe.
recv_v4(m) ==
    /\ Is({"traceroute_v4"})
    /\ p' = IF m.mine /\ m.seq = p.nsent /\ m.kind # "reply" THEN Answered(m.kind, m)
                                                           ELSE [p EXCEPT !.pc = "test"]

\* recv_v6: any time exceeded ends the loop; ret is set only if it is ours, and
\* is otherwise whatever the variable held.
recv_v6(m) ==
    /\ Is({"traceroute_v6"})
    /\ \/ /\ m.kind = "timxceed"
          /\ IF m.mine /\ m.seq = p.nsent THEN p' = Answered("timxceed", m)
             ELSE \E code \in {"timeout", "timxceed", "port", "host"} : p' = Answered(code, m)
       \/ /\ m.kind # "timxceed"
          /\ p' = IF m.mine /\ m.seq = p.nsent /\ m.kind # "reply" THEN Answered(m.kind, m)
                                                                 ELSE [p EXCEPT !.pc = "test"]

\* The loop both share: gotalarm is tested before recvfrom, not with it.
RecvLoop ==
    /\ Is(Trace)
    /\ \/ /\ At("test")
          /\ p' = IF p.gotalarm THEN Answered("timeout", Silence) ELSE [p EXCEPT !.pc = "enter"]
          /\ UNCHANGED icmp
       \/ At("enter") /\ p' = [p EXCEPT !.pc = "recv"] /\ UNCHANGED icmp
       \/ At("recv") /\ \E m \in Waiting : Take(m) /\ (recv_v4(m) \/ recv_v6(m))
    /\ UNCHANGED prog

-----------------------------------------------------------------------------
\* An ICMP message for another process of the host, or for another program.
Other ==
    /\ p.others > 0
    /\ \E k \in Kinds : icmp' = BagAdd(icmp, [kind |-> k, mine |-> FALSE, seq |-> 0])
    /\ p' = [p EXCEPT !.others = @ - 1]
    /\ UNCHANGED prog

Init ==
    /\ prog \in Progs
    /\ icmp = EmptyBag
    /\ \E l \in preloads :
         /\ prog \notin Bsd => l = 0
         /\ p = [pc |-> IF prog \in Trace THEN "probe" ELSE "preload", nsent |-> 0, shown |-> <<>>,
                 preload |-> l, timer |-> FALSE, last |-> FALSE, tbl |-> {}, nreceived |-> 0, nrepeats |-> 0,
                 seen |-> 0, cur |-> 0, said |-> <<0, 0>>, from |-> "none", gotalarm |-> FALSE,
                 ttl |-> 1, probe |-> 0, done |-> 0, others |-> 1]
Alarms == ping_sig_alrm \/ onalrm \/ sig_alrm
Step == readloop \/ bsd_main \/ bsd_loop \/ traceloop \/ RecvLoop
Next == Alarms \/ Step \/ Interrupt \/ Other
Spec == Init /\ [][Next]_vars /\ WF_vars(Alarms) /\ WF_vars(Step)
-----------------------------------------------------------------------------
\* What is shown as the answer to a request is one: ping shows only replies
\* with its own identifier, and recv_v4 takes for a probe only the message
\* that quotes the port of that probe, however late the others come.  (recv_v6
\* takes any time exceeded message for the answer, and is left out.)
AnswersOwn ==
    /\ prog \in Ping => \A k \in 1..Len(p.shown) : p.shown[k].mine /\ p.shown[k].seq < p.nsent
    /\ prog = "traceroute_v4" =>
         \A k \in 1..Len(p.shown) : p.shown[k].code # "timeout" => p.shown[k].of = p.shown[k].seq

\* bsdping's statistics: received and repeated together are the replies seen,
\* and no more are received than were sent, although pinger clears table
\* entries from a signal handler while pr_pack uses them.  Only a summary
\* printed in the middle of pr_pack may say otherwise.
CountsSane ==
    prog \in Bsd =>
      /\ p.nreceived + p.nrepeats = p.seen
      /\ p.pc # "dup" /\ p.from # "dup" => p.nreceived <= p.nsent
      /\ At("exit") /\ p.from # "dup" => p.said[2] <= p.said[1]

\* The interval timer of bsdping ends it, lost replies or not; traceroute ends
\* unless SIGALRM comes between the test of gotalarm and recvfrom.
ProbesEnd ==
    \/ prog \in Ping \cup {"bsdping_f"}
    \/ <>At("exit")
    \/ <>[](prog \in Trace /\ At("recv") /\ ~p.timer)
=============================================================================
