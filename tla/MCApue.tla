------------------------------- MODULE MCApue -------------------------------
(***************************************************************************)
(* Examples of apue.3e, checked together: the programs with threads        *)
(* (ApueThreads), with processes and signals (ApueProc) and the open       *)
(* servers (OpenServ).  which says the one that runs; the others stay in   *)
(* an initial state.                                                       *)
(***************************************************************************)
EXTENDS Integers, Sequences, TLC

CONSTANTS m1, m2, m3, NULL

ThreadProgs ==
  {"mutex1", "mutex2", "mutex3", "condvar", "rwlock", "barrier", "timeout", "getenv1", "getenv2",
   "getenv3", "suspend", "atfork"}
Environ == ("A" :> <<1>>) @@ ("B" :> <<2>>) @@ ("C" :> <<3, 3>>)

\* Each program with the functions it is linked with: TELL_WAIT from signals or from pipes, the
\* system of the proc directory or of the signals directory, a coprocess that uses stdio.
Linked(m, l) == [main |-> m, lib |-> l]
ProcProgs ==
  {Linked(m, l) : m \in {"tellwait2", "deadlock", "devzero"}, l \in {"signal", "pipe"}}
  \cup {Linked("system", "proc"), Linked("pipe4", "stdio")}
  \cup {Linked(m, "none") : m \in {"tellwait1", "sleep1", "sleep2", "lib_sleep", "read1", "read2",
                                   "suspend1", "suspend2", "critical", "mask", "abort", "system",
                                   "popen", "pipe4", "pipe2"}}

\* Names of one file, of another, of none, of two, and one longer than a buffer.
Name == [f |-> <<"f">>, h |-> <<"h">>, none |-> <<"g">>, two |-> <<"f", "h">>,
         long |-> <<"f", "h", "f", "h">>]
Opens(prog, as, bs, cs, dies, slow) ==
  [prog |-> prog, names |-> (m1 :> as @@ m2 :> bs @@ m3 :> cs), dies |-> dies, slow |-> slow]
\* Each server with a client that dies and one that names two files; with a slow one whose first
\* name is too long; the poll server with three clients at a time; and mycat.
OpenConfigs ==
  {Opens(p, <<Name.f, Name.two>>, <<Name.h>>, <<>>, {m1}, FALSE) :
     p \in {"opend_select", "opend_poll", "opend_fe"}}
  \cup {Opens(p, <<Name.long, Name.f, Name.h>>, <<Name.none>>, <<>>, {}, TRUE) :
          p \in {"opend_select", "opend_poll", "opend_fe"}}
  \cup {Opens("opend_poll", <<Name.f>>, <<Name.h>>, <<Name.f>>, {}, FALSE),
        Opens("mycat", <<Name.f>>, <<Name.none>>, <<Name.h>>, {m1}, FALSE)}

VARIABLES which,
          th_prog, th_th, th_mem,
          pr_prog, pr_pr, pr_sh,
          os_config, os_c, os_s

th_vars == <<th_prog, th_th, th_mem>>
pr_vars == <<pr_prog, pr_pr, pr_sh>>
os_vars == <<os_config, os_c, os_s>>
vars == <<which, th_vars, pr_vars, os_vars>>

Thr == INSTANCE ApueThreads WITH
  Progs <- ThreadProgs, ThreadSeq <- <<m1, m2, m3>>, Addr <- {1, 2}, Ids <- {0, 2}, NHASH <- 2,
  MaxRefs <- 4, Jobs <- {1, 2, 3}, JobOf <- [j \in 1..3 |-> IF j = 2 THEN m2 ELSE m3], NTHR <- 2,
  TNUM <- 2, LONG_MAX <- 9, Numbers <- {0, 1, 2}, SECTONSEC <- 4,
  Times <- [sec : 0..1, nsec : {0, 2, 3}], Env <- Environ, prog <- th_prog, th <- th_th,
  mem <- th_mem
Proc == INSTANCE ApueProc WITH
  Progs <- ProcProgs, NLOOPS <- 5, NChars <- 3, NLines <- 3, NStreams <- 3, MaxLost <- 1, maxfd <- 6,
  prog <- pr_prog, pr <- pr_pr, sh <- pr_sh
Serv == INSTANCE OpenServ WITH
  Clients <- {m1, m2, m3}, MAXLINE <- 5, NALLOC <- 1, Files <- {"f", "h"}, Configs <- OpenConfigs,
  config <- os_config, c <- os_c, s <- os_s

Init ==
  /\ which \in {"threads", "processes", "open"}
  /\ which # "threads" => th_prog = "mutex1"
  /\ which # "processes" => pr_prog = Linked("tellwait1", "none")
  /\ which # "open" => os_config = Opens("mycat", <<Name.f>>, <<Name.none>>, <<Name.h>>, {m1}, FALSE)
  /\ Thr!Init /\ Proc!Init /\ Serv!Init

Next ==
  /\ UNCHANGED which
  /\ \/ which = "threads" /\ Thr!Next /\ UNCHANGED <<pr_vars, os_vars>>
     \/ which = "processes" /\ Proc!Next /\ UNCHANGED <<th_vars, os_vars>>
     \/ which = "open" /\ Serv!Next /\ UNCHANGED <<th_vars, pr_vars>>

\* Each module's own fairness, for the program that runs.
Fairness ==
  /\ \A t \in {m1, m2, m3} : SF_th_vars(which = "threads" /\ Thr!Run(t))
  /\ WF_th_vars(which = "threads" /\ Thr!Signals)
  /\ WF_pr_vars(which = "processes" /\ UNCHANGED pr_prog /\ Proc!Run)
  /\ WF_pr_vars(which = "processes" /\ UNCHANGED pr_prog /\ Proc!Streams)
  /\ WF_pr_vars(which = "processes" /\ UNCHANGED pr_prog /\ ~Proc!Is("system") /\ Proc!Arrives)
  /\ WF_os_vars(which = "open" /\ Serv!Opend)
  /\ \A k \in {m1, m2, m3} : WF_os_vars(which = "open" /\ Serv!OneClient(k))

Spec == Init /\ [][Next]_vars /\ Fairness

-----------------------------------------------------------------------------
\* foo_hold, foo_find, foo_rele: an object's count is the number of references to it, and it is
\* freed only when nobody can use or find it; the queues of condvar and rwlock lose no message
\* or job; and barrier, timeout, getenv_r and the fork handlers deliver to each thread what it
\* asked for.
RefsSound == Thr!RefsSound /\ Thr!QueuesSound /\ Thr!OwnResults

\* Parent and child take their turns; sleep, system and abort put back the signals they change;
\* system returns the status of its command; and a child of popen has its own pipe and, of the
\* others, only what a popen that failed left open.
SignalsRestored ==
  Proc!TakesTurns /\ Proc!SignalsRestored /\ Proc!StatusOfCommand /\ Proc!OwnPipeOnly

\* csopen and my_open return the file the caller named or none, as long as no request is longer
\* than a read of the server, and opend watches every connection until it is closed.
OpensOwn == Serv!OpensOwn /\ Serv!ConnectionsKept

\* Every message is handled and every call returns; every process ends, but for the races that
\* ApueProc names; and every client of an open server gets an answer or sees the server's end.
AllEnd ==
  <>[](/\ which = "threads" => Thr!Finished
       /\ which = "processes" => Proc!Over
       /\ which = "open" => Serv!AllGone)
=============================================================================
