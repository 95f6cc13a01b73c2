------------------------------ MODULE ApueProc ------------------------------
(***************************************************************************)
(* The process and signal examples of apue.3e: the two versions of         *)
(* TELL_WAIT and the programs that take turns with them (tellwait1,        *)
(* tellwait2, devzero, deadlock), the versions of sleep and of a read with *)
(* a timeout, the programs that wait for a signal (suspend1, suspend2,     *)
(* critical, mask), system and abort, popen and pclose, and the pipes to a *)
(* coprocess.  A signal is pending until it is unblocked; one that is      *)
(* caught runs its handler between any two steps of the process.           *)
(***************************************************************************)
EXTENDS Integers, FiniteSets, Sequences, SequencesExt

CONSTANTS Progs,      \* programs: [main |-> name, lib |-> "signal", "pipe" or "none"]
          NLOOPS,     \* of devzero.c
          NChars,     \* characters charatatime writes
          NLines,     \* lines the user types to pipe4
          NStreams,   \* streams the user of popen opens
          MaxLost,    \* calls of popen that fail after pipe()
          maxfd       \* of popen.c

VARIABLES prog,
          pr,         \* the two processes: where each is, and its signals
          sh          \* what they share

vars == <<prog, pr, sh>>

Proc == {"parent", "child"}
Other(p) == CHOOSE q \in Proc : q # p
At(p, l) == pr[p].pc = l
Go(p, l) == pr' = [pr EXCEPT ![p].pc = l]
Is(m) == prog.main = m
Ended(p) == pr[p].pc \in {"end", "error", "quit", "killed", "none"}

-----------------------------------------------------------------------------
(* TELL_WAIT: with SIGUSR1 and SIGUSR2, which are blocked from the start ...*)

lib_TELL_WAIT == {"USR"}

\* kill: the handler runs at once unless the signal is blocked; sigsuspend
\* unblocks it
Tell(p, next) ==
  LET q == Other(p) IN
  pr' = [pr EXCEPT ![p].pc = next,
                   ![q].pend = IF "USR" \in pr[q].mask THEN {"USR"} ELSE @,
                   ![q].sigflag = IF "USR" \in pr[q].mask THEN @ ELSE 1,
                   ![q].pc = IF @ = "suspended" THEN "wait" ELSE @,
                   ![q].mask = IF pr[q].pc = "suspended" THEN pr[q].saved ELSE @]

\* while (sigflag == 0) sigsuspend(&zeromask); then sigflag = 0, and the mask is
\* that of before TELL_WAIT
Wait(p, next) ==
  \/ /\ At(p, "wait") /\ pr[p].sigflag = 1
     /\ pr' = [pr EXCEPT ![p].sigflag = 0, ![p].mask = {}, ![p].pc = next]
  \/ At(p, "wait") /\ pr[p].sigflag = 0 /\ Go(p, "suspend")
  \/ /\ At(p, "suspend")
     /\ pr' = IF pr[p].pend # {} THEN [pr EXCEPT ![p].pend = {}, ![p].sigflag = 1, ![p].pc = "wait"]
              ELSE [pr EXCEPT ![p].saved = pr[p].mask, ![p].mask = {}, ![p].pc = "suspended"]

lib_TELL_PARENT(next) == Tell("child", next) /\ UNCHANGED sh
lib_WAIT_PARENT(next) == Wait("child", next) /\ UNCHANGED sh

\* mutation: no signal is sent
TellNobody(next) == Go("parent", next) /\ UNCHANGED sh

lib_TELL_CHILD(next) == Tell("parent", next) /\ UNCHANGED sh
lib_WAIT_CHILD(next) == Wait("parent", next) /\ UNCHANGED sh

(* ... or with two pipes *)

ipc1_TELL_WAIT == [p \in Proc |-> <<>>]
Write1(p, c, next) == sh' = [sh EXCEPT !.pipe[Other(p)] = Append(@, c)] /\ Go(p, next)
Read1(p, c, next) ==
  /\ At(p, "wait") /\ sh.pipe[p] # <<>>
  /\ sh' = [sh EXCEPT !.pipe[p] = Tail(@)]
  /\ Go(p, IF Head(sh.pipe[p]) = c THEN next ELSE "quit")

ipc1_TELL_PARENT(next) == Write1("child", "c", next)
ipc1_WAIT_PARENT(next) == Read1("child", "p", next)
ipc1_TELL_CHILD(next) == Write1("parent", "p", next)
ipc1_WAIT_CHILD(next) == Read1("parent", "c", next)

TELL_PARENT(next) == IF prog.lib = "pipe" THEN ipc1_TELL_PARENT(next) ELSE lib_TELL_PARENT(next)
WAIT_PARENT(next) == IF prog.lib = "pipe" THEN ipc1_WAIT_PARENT(next) ELSE lib_WAIT_PARENT(next)
TELL_CHILD(next) == IF prog.lib = "pipe" THEN ipc1_TELL_CHILD(next) ELSE lib_TELL_CHILD(next)
WAIT_CHILD(next) == IF prog.lib = "pipe" THEN ipc1_WAIT_CHILD(next) ELSE lib_WAIT_CHILD(next)

\* one character at a time to a stdout that is not buffered
charatatime(p, next) ==
  /\ At(p, "write")
  /\ sh' = [sh EXCEPT !.out = Append(@, p)]
  /\ pr' = [pr EXCEPT ![p].i = @ + 1, ![p].pc = IF pr[p].i + 1 = NChars THEN next ELSE @]

tellwait1 == Is("tellwait1") /\ \E p \in Proc : charatatime(p, "end")

\* the parent goes first
tellwait2 ==
  /\ Is("tellwait2")
  /\ \/ charatatime("parent", "tell")
     \/ At("parent", "tell") /\ TELL_CHILD("end")
     \/ WAIT_PARENT("write")
     \/ charatatime("child", "end")

\* update: (*ptr)++ on memory the two processes share
update(p, expected, next) ==
  /\ sh' = [sh EXCEPT !.area = @ + 1]
  /\ pr' = [pr EXCEPT ![p].pc = IF sh.area = expected THEN next ELSE "quit", ![p].i = expected + 2]

devzero ==
  /\ Is("devzero")
  /\ \/ At("parent", "loop") /\ pr["parent"].i < NLOOPS /\ update("parent", pr["parent"].i, "tell")
     \/ At("parent", "loop") /\ pr["parent"].i >= NLOOPS /\ Go("parent", "end") /\ UNCHANGED sh
     \/ At("parent", "tell") /\ TELL_CHILD("wait")
     \/ WAIT_CHILD("loop")
     \/ WAIT_PARENT("update")
     \/ At("child", "update") /\ update("child", pr["child"].i, "tell")
     \/ At("child", "tell") /\ TELL_PARENT(IF pr["child"].i < NLOOPS + 1 THEN "wait" ELSE "end")

\* lockabyte: writew_lock blocks while the other process has the byte, except
\* when that process waits for one of ours: then it fails with EDEADLK
lockabyte(p, byte, from, next) ==
  /\ At(p, from)
  /\ \/ sh.lock[byte] = "none" /\ sh' = [sh EXCEPT !.lock[byte] = p] /\ Go(p, next)
     \/ /\ sh.lock[byte] = Other(p) /\ At(Other(p), "block")
        /\ sh' = [sh EXCEPT !.lock = [b \in DOMAIN @ |-> IF @[b] = p THEN "none" ELSE @[b]]]
        /\ Go(p, "error")
     \/ from = "second" /\ sh.lock[byte] = Other(p) /\ ~At(Other(p), "block") /\ Go(p, "block") /\ UNCHANGED sh

\* exit releases the locks
Release(p) ==
  /\ At(p, "unlock")
  /\ sh' = [sh EXCEPT !.lock = [b \in DOMAIN @ |-> IF @[b] = p THEN "none" ELSE @[b]]]
  /\ Go(p, "end")

deadlock ==
  /\ Is("deadlock")
  /\ \/ lockabyte("child", 0, "first", "tell")
     \/ At("child", "tell") /\ TELL_PARENT("wait")
     \/ WAIT_PARENT("second")
     \/ lockabyte("child", 1, "second", "unlock")
     \/ At("child", "block") /\ sh.lock[1] = "none" /\ Go("child", "second") /\ UNCHANGED sh
     \/ lockabyte("parent", 1, "first", "tell")
     \/ At("parent", "tell") /\ TELL_CHILD("wait")
     \/ WAIT_CHILD("second")
     \/ lockabyte("parent", 0, "second", "unlock")
     \/ At("parent", "block") /\ sh.lock[0] = "none" /\ Go("parent", "second") /\ UNCHANGED sh
     \/ \E p \in Proc : Release(p)

-----------------------------------------------------------------------------
(* One process and its signals.  me is the process; sh.alarm the timer      *)

me == pr["parent"]
M(l) == At("parent", l)
Set(r) == pr' = [pr EXCEPT !["parent"] = r]
To(l) == Set([me EXCEPT !.pc = l])
Keep == UNCHANGED sh
ArmAlarm == sh' = [sh EXCEPT !.alarm = "armed"]
StopAlarm == sh' = [sh EXCEPT !.alarm = "off"]

\* the timer expires, and the user types the interrupt and quit keys
Arrives ==
  \/ /\ sh.alarm = "armed"
     /\ sh' = [sh EXCEPT !.alarm = "off"] /\ Set([me EXCEPT !.pend = @ \union {"ALRM"}])
  \/ \E s \in sh.keys : sh' = [sh EXCEPT !.keys = @ \ {s}] /\ Set([me EXCEPT !.pend = @ \union {s}])

Catch(s, r) == s \in me.pend \ me.mask /\ Set([r EXCEPT !.pend = @ \ {s}]) /\ Keep

sleep1 ==
  \/ M("start") /\ ArmAlarm /\ To("alarm")
  \/ M("alarm") /\ To("pause") /\ Keep
  \/ Catch("ALRM", [me EXCEPT !.pc = IF @ = "pause" THEN "woken" ELSE @])
  \/ M("woken") /\ StopAlarm /\ To("end")

\* sig_int of tsleep2 runs for longer than the sleep
sig_int == Catch("INT", [me EXCEPT !.hdl = "int"])

\* sleep2: the handler jumps back to setjmp, out of whatever it interrupted,
\* and the signals that were blocked while the handlers ran stay blocked
sleep2 ==
  \/ M("start") /\ To("setjmp") /\ Keep
  \/ M("setjmp") /\ ArmAlarm /\ To("alarm")
  \/ M("alarm") /\ me.hdl = "none" /\ To("pause") /\ Keep
  \/ me.pc \in {"alarm", "pause"} /\ me.hdl = "none" /\ sig_int
  \/ me.hdl = "int" /\ Set([me EXCEPT !.hdl = "none", !.pc = IF @ = "pause" THEN "woken" ELSE @]) /\ Keep
  \/ /\ me.pc \in {"alarm", "pause"}
     /\ Catch("ALRM", [me EXCEPT !.pc = "woken", !.cut = me.hdl = "int", !.hdl = "none",
                                 !.mask = {"ALRM"} \union IF me.hdl = "int" THEN {"INT"} ELSE {}])
  \/ M("woken") /\ StopAlarm /\ To("end")

\* sleep: SIGALRM stays blocked but in sigsuspend, and everything is put back;
\* one that is pending by then is for the previous action
lib_sleep ==
  \/ M("start") /\ Set([me EXCEPT !.pc = "sigaction", !.act = {"ALRM"}]) /\ Keep
  \/ M("sigaction") /\ Set([me EXCEPT !.pc = "blocked", !.saved = me.mask, !.mask = @ \union {"ALRM"}]) /\ Keep
  \/ M("blocked") /\ ArmAlarm /\ To("alarm")
  \/ M("alarm") /\ me.hdl = "none" /\ Set([me EXCEPT !.pc = "suspended", !.mask = me.saved \ {"ALRM"}]) /\ Keep
  \/ /\ M("suspended")
     /\ Catch("ALRM", [me EXCEPT !.woke = TRUE, !.pc = IF me.hdl = "none" THEN "woken" ELSE @,
                                 !.mask = IF me.hdl = "none" THEN me.saved \union {"ALRM"} ELSE @])
  \/ me.pc \in {"alarm", "suspended", "woken"} /\ me.hdl = "none" /\ sig_int
  \/ /\ me.hdl = "int"
     /\ Set(IF M("suspended") THEN [me EXCEPT !.hdl = "none", !.cut = TRUE, !.pc = "woken", !.mask = me.saved \union {"ALRM"}]
            ELSE [me EXCEPT !.hdl = "none"]) /\ Keep
  \/ M("woken") /\ me.hdl = "none" /\ StopAlarm /\ To("reset")
  \/ M("reset") /\ Set([me EXCEPT !.pc = "unblock", !.act = {}]) /\ Keep
  \/ M("unblock") /\ Set([me EXCEPT !.pc = IF "ALRM" \in me.pend THEN "killed" ELSE "end", !.mask = me.saved]) /\ Keep

\* a read with a timeout: the handler of read1 only interrupts it, that of
\* read2 jumps to the error message
ReadStdin == M("read") /\ sh.typed /\ Set([me EXCEPT !.pc = "got"]) /\ Keep
Type == ~sh.typed /\ sh' = [sh EXCEPT !.typed = TRUE] /\ UNCHANGED pr

read1 ==
  \/ M("start") /\ ArmAlarm /\ To("alarm")
  \/ M("alarm") /\ To("read") /\ Keep
  \/ ReadStdin
  \/ me.pc \in {"alarm", "read", "got"} /\ Catch("ALRM", [me EXCEPT !.pc = IF @ = "read" THEN "error" ELSE @])
  \/ M("got") /\ StopAlarm /\ To("end")

read2 ==
  \/ M("start") /\ ArmAlarm /\ To("alarm")
  \/ M("alarm") /\ To("read") /\ Keep
  \/ ReadStdin
  \/ me.pc \in {"alarm", "read", "got"} /\ Catch("ALRM", [me EXCEPT !.pc = "quit"])
  \/ M("got") /\ StopAlarm /\ To("end")

\* suspend1 waits for any signal but SIGUSR1, which is let through at the end
suspend1 ==
  \/ M("start") /\ Set([me EXCEPT !.pc = "critical", !.mask = {"INT"}]) /\ Keep
  \/ M("critical") /\ Set([me EXCEPT !.pc = "suspended", !.mask = {"USR1"}]) /\ Keep
  \/ me.pc \in {"start", "suspended", "exit"}
     /\ Catch("INT", IF M("suspended") THEN [me EXCEPT !.pc = "after", !.mask = {"INT"}] ELSE [me EXCEPT !.woke = M("start")])
  \/ M("after") /\ Set([me EXCEPT !.pc = "exit", !.mask = {}]) /\ Keep
  \/ ~Ended("parent") /\ Catch("USR1", [me EXCEPT !.pc = "killed"])
  \/ M("exit") /\ To("end") /\ Keep

\* suspend2 waits until its handler has set quitflag
suspend2 ==
  \/ M("start") /\ Set([me EXCEPT !.pc = "while", !.mask = {"QUIT"}]) /\ Keep
  \/ M("while") /\ me.sigflag = 1 /\ Set([me EXCEPT !.pc = "end", !.sigflag = 0, !.mask = {}]) /\ Keep
  \/ M("while") /\ me.sigflag = 0 /\ Set([me EXCEPT !.pc = "suspended", !.mask = {}]) /\ Keep
  \/ ~M("end") /\ Catch("INT", [me EXCEPT !.pc = IF @ = "suspended" THEN "while" ELSE @,
                                          !.mask = IF me.pc = "suspended" THEN {"QUIT"} ELSE @])
  \/ ~M("end") /\ Catch("QUIT", [me EXCEPT !.sigflag = 1, !.woke = TRUE, !.pc = IF @ = "suspended" THEN "while" ELSE @,
                                           !.mask = IF me.pc = "suspended" THEN {"QUIT"} ELSE @])

\* critical: SIGQUIT in the first sleep is caught when it is unblocked; the
\* handler resets it, and the next one ends the process
critical ==
  \/ M("start") /\ Set([me EXCEPT !.pc = "sleep", !.mask = {"QUIT"}]) /\ Keep
  \/ M("sleep") /\ Set([me EXCEPT !.pc = "pending", !.cut = "QUIT" \in me.pend]) /\ Keep
  \/ M("pending") /\ Set([me EXCEPT !.pc = "sleep2", !.mask = {}]) /\ Keep
  \/ ~Ended("parent") /\ Catch("QUIT", IF me.woke THEN [me EXCEPT !.pc = "killed"] ELSE [me EXCEPT !.woke = TRUE])
  \/ M("sleep2") /\ "QUIT" \notin me.pend /\ To("end") /\ Keep
  \/ "QUIT" \notin sh.keys /\ ~sh.typed /\ ~Ended("parent") /\ sh' = [sh EXCEPT !.keys = {"QUIT"}, !.typed = TRUE] /\ UNCHANGED pr

\* mask: SIGUSR1's handler, with SIGUSR1 blocked and SIGALRM caught inside it,
\* leaves with siglongjmp, which puts the mask back; before sigsetjmp it ignores
mask ==
  \/ M("start") /\ Set([me EXCEPT !.pc = "sigsetjmp", !.saved = me.mask]) /\ Keep
  \/ M("sigsetjmp") /\ Set([me EXCEPT !.pc = "suspended", !.sigflag = 1]) /\ Keep
  \/ /\ me.hdl = "none" /\ ~M("end")
     /\ Catch("USR1", IF me.sigflag = 0 THEN [me EXCEPT !.cut = TRUE] ELSE [me EXCEPT !.hdl = "usr1", !.mask = @ \union {"USR1"}])
  \/ me.hdl = "usr1" /\ sh.alarm = "none" /\ ArmAlarm /\ UNCHANGED pr
  \/ me.hdl = "usr1" /\ Catch("ALRM", [me EXCEPT !.woke = TRUE])
  \/ /\ me.hdl = "usr1" /\ sh.alarm = "off" /\ "ALRM" \notin me.pend
     /\ Set([me EXCEPT !.hdl = "none", !.sigflag = 0, !.mask = me.saved, !.pc = "end"]) /\ Keep

\* abort: the caller may catch SIGABRT ("caught"), ignore it or neither; kill
\* of oneself is delivered at once.  i counts the streams' unwritten buffers
abort ==
  \/ M("start") /\ Set([me EXCEPT !.pc = "flush", !.hdl = IF @ = "ignored" THEN "default" ELSE @]) /\ Keep
  \/ M("flush") /\ Set([me EXCEPT !.pc = "unblock", !.i = IF me.hdl = "default" THEN 0 ELSE @]) /\ Keep
  \/ M("unblock") /\ Set([me EXCEPT !.pc = "kill", !.mask = @ \ {"ABRT"}]) /\ Keep
  \/ M("kill") /\ Set([me EXCEPT !.pc = IF "ABRT" \in me.mask THEN "again" ELSE IF me.hdl = "default" THEN "killed" ELSE "sig_abrt"]) /\ Keep
  \/ M("sig_abrt") /\ Set([me EXCEPT !.pc = "again", !.i = 1]) /\ Keep
  \/ M("again") /\ Set([me EXCEPT !.pc = IF "ABRT" \in me.mask THEN "end" ELSE "killed", !.i = 0, !.hdl = "default"]) /\ Keep

-----------------------------------------------------------------------------
(* system: the interrupt key goes to both processes, and the caller has a   *)
(* handler for SIGCHLD that waits for its child.  act: what is ignored      *)

Alive(p) == ~Ended(p) /\ pr[p].pc # "zombie"
Status(st) == [sh EXCEPT !.status = st]
Dies(p, r) == IF p = "child" THEN [r EXCEPT !.child.pc = "zombie", !.parent.pend = @ \union {"CHLD"}] ELSE [r EXCEPT !.parent.pc = "killed"]

\* the user types the key s
Key(s) ==
  /\ s \in sh.keys
  /\ LET hit == {p \in Proc : Alive(p) /\ s \notin pr[p].act}
         a == IF "child" \in hit THEN Dies("child", pr) ELSE pr
     IN pr' = IF "parent" \in hit THEN Dies("parent", a) ELSE a
  /\ sh' = [sh EXCEPT !.keys = @ \ {s}, !.died = IF Alive("child") /\ s \notin pr["child"].act THEN "signal" ELSE @]

\* the handler of the caller: wait() takes the status of the child
Reap ==
  /\ ~M("killed") /\ "CHLD" \in me.pend \ me.mask
  /\ pr' = [pr EXCEPT !.parent.pend = @ \ {"CHLD"}, !.child.pc = IF @ = "zombie" THEN "end" ELSE @] /\ Keep

\* the shell that runs the command ends
Command == At("child", "run") /\ pr' = Dies("child", pr) /\ sh' = [sh EXCEPT !.died = "exit"]

\* fork fails when there are too many processes
Fork(child, next, failed) ==
  \/ pr' = [pr EXCEPT !.parent.pc = next, !.child = child] /\ Keep
  \/ To(failed) /\ sh' = Status("-1")

waitpid(next) ==
  /\ M("wait")
  /\ \/ At("child", "zombie") /\ pr' = [pr EXCEPT !.parent.pc = next, !.child.pc = "end"] /\ sh' = Status(sh.died)
     \/ At("child", "end") /\ To(next) /\ sh' = Status("-1")

proc_system ==
  \/ M("start") /\ Fork([me EXCEPT !.pc = "run"], "wait", "end")
  \/ waitpid("end")
  \/ Command \/ Reap \/ Key("INT") \/ Key("QUIT")

\* mutation: SIGCHLD is not blocked
BlocksNothing == To("fork") /\ Keep

\* SIGCHLD is blocked before the fork
BlocksChld == Set([me EXCEPT !.pc = "fork", !.mask = {"CHLD"}]) /\ Keep

signals_system ==
  \/ M("start") /\ Set([me EXCEPT !.pc = "quit", !.act = {"INT"}]) /\ Keep
  \/ M("quit") /\ Set([me EXCEPT !.pc = "block", !.act = {"INT", "QUIT"}]) /\ Keep
  \/ M("block") /\ BlocksChld
  \/ M("fork") /\ Fork([me EXCEPT !.pc = "int"], "wait", "int")
  \/ waitpid("int")
  \/ \E p \in Proc :
       \/ At(p, "int") /\ pr' = [pr EXCEPT ![p].pc = "quit2", ![p].act = @ \ {"INT"}] /\ Keep
       \/ At(p, "quit2") /\ pr' = [pr EXCEPT ![p].pc = "unblock", ![p].act = {}] /\ Keep
       \/ At(p, "unblock") /\ pr' = [pr EXCEPT ![p].pc = IF p = "child" THEN "run" ELSE "end", ![p].mask = {}] /\ Keep
  \/ Command \/ Reap \/ Key("INT") \/ Key("QUIT")

-----------------------------------------------------------------------------
(* popen and pclose.  sh.fds: the caller's descriptors; sh.childpid; and    *)
(* sh.kid: for each stream its child, the child's descriptors, whether the  *)
(* caller had a stream on the child's standard descriptor, and whether a    *)
(* popen that failed left descriptors of it open                            *)

Free == [stream |-> 0, dir |-> "free"]
End(k, d) == [stream |-> k, dir |-> d]
Lowest(S) == CHOOSE a \in S : \A b \in S : a <= b
FreeIn(f) == {a \in DOMAIN f : f[a] = Free}

\* the child: its end of the pipe becomes its stdout (type "r") or stdin ("w"),
\* and the caller's ends of the other streams are closed
ChildFds(f, type, p0, p1) ==
  LET std == IF type = "r" THEN 1 ELSE 0
      mine == IF type = "r" THEN p1 ELSE p0
      g == [f EXCEPT ![IF type = "r" THEN p0 ELSE p1] = Free]
      h == IF mine = std THEN g ELSE [g EXCEPT ![std] = g[mine], ![mine] = Free]
  IN [a \in DOMAIN f |-> IF a < maxfd /\ sh.childpid[a] > 0 THEN Free ELSE h[a]]

\* one more popen may fail: in fork, which leaves both ends of the pipe open, or
\* in fdopen, which leaves the child and the caller's end behind
MayLose == Cardinality({j \in DOMAIN sh.kid : sh.kid[j].lost}) < MaxLost

popen(k, type) ==
  /\ M("start") /\ sh.kid[k].pc = "none" /\ \A j \in 1 .. k - 1 : sh.kid[j].pc # "none"
  /\ LET p0 == Lowest(FreeIn(sh.fds))
         p1 == Lowest(FreeIn(sh.fds) \ {p0})
         f == [sh.fds EXCEPT ![p0] = End(k, "r"), ![p1] = End(k, "w")]
         keep == IF type = "r" THEN p0 ELSE p1
         started == [sh EXCEPT !.fds = [f EXCEPT ![p0 + p1 - keep] = Free],
                               !.kid[k] = [pc |-> "run", type |-> type, fds |-> ChildFds(f, type, p0, p1),
                                           taken |-> sh.childpid[IF type = "r" THEN 1 ELSE 0] > 0,
                                           lost |-> FALSE]]
     IN IF p0 >= maxfd \/ p1 >= maxfd THEN sh' = [sh EXCEPT !.kid[k].pc = "failed"]
        ELSE \/ sh' = [started EXCEPT !.childpid[keep] = k]
             \/ MayLose /\ sh' = [started EXCEPT !.kid[k].lost = TRUE]
             \/ MayLose /\ sh' = [sh EXCEPT !.fds = f, !.kid[k].pc = "failed", !.kid[k].lost = TRUE]
  /\ UNCHANGED pr

\* a "w" command reads its stdin to the end of file, which comes when nobody
\* has the write end; an "r" command ends by itself
Held(k, d) ==
  \/ \E a \in DOMAIN sh.fds : sh.fds[a] = End(k, d)
  \/ \E j \in DOMAIN sh.kid : sh.kid[j].pc = "run" /\ \E a \in DOMAIN sh.fds : sh.kid[j].fds[a] = End(k, d)
KidExits(k) ==
  /\ sh.kid[k].pc = "run" /\ (sh.kid[k].type = "w" => ~Held(k, "w"))
  /\ sh' = [sh EXCEPT !.kid[k].pc = "zombie"] /\ UNCHANGED pr

\* fclose may fail; then nobody waits for the child
pclose(fd) ==
  \/ /\ M("start") /\ sh.childpid[fd] > 0
     /\ sh' = [sh EXCEPT !.childpid[fd] = 0, !.fds[fd] = Free]
     /\ \/ Set([me EXCEPT !.pc = "waitpid", !.i = sh.childpid[fd]])
        \/ UNCHANGED pr
  \/ /\ M("waitpid") /\ fd = 0 /\ sh.kid[me.i].pc = "zombie"
     /\ sh' = [sh EXCEPT !.kid[me.i].pc = "closed"] /\ To("start")

-----------------------------------------------------------------------------
(* A coprocess and a pager: sh.to and sh.from are the two pipes             *)

pipe4 ==
  \/ M("start") /\ me.i < NLines /\ sh' = [sh EXCEPT !.to = Append(@, me.i + 1)] /\ Set([me EXCEPT !.pc = "read", !.i = @ + 1])
  \/ M("start") /\ me.i = NLines /\ To("end") /\ Keep
  \/ M("read") /\ sh.from # <<>> /\ sh' = [sh EXCEPT !.from = <<>>, !.out = @ \o sh.from] /\ To("start")
  \/ M("read") /\ sh.from = <<>> /\ At("child", "end") /\ To("end") /\ Keep

\* add2: read and write
ipc1_add2 ==
  \/ At("child", "run") /\ sh.to # <<>> /\ sh' = [sh EXCEPT !.to = <<>>, !.from = @ \o sh.to] /\ UNCHANGED pr
  \/ At("child", "run") /\ sh.to = <<>> /\ M("end") /\ Go("child", "end") /\ Keep

\* add2stdio: what printf says stays in the buffer of a pipe until exit
add2stdio ==
  /\ At("child", "run") /\ sh.to # <<>>
  /\ sh' = [sh EXCEPT !.to = Tail(@), !.buf = Append(@, Head(sh.to))] /\ UNCHANGED pr

pipe2 ==
  \/ M("start") /\ me.i < NLines /\ sh' = [sh EXCEPT !.to = Append(@, me.i + 1)] /\ Set([me EXCEPT !.i = @ + 1])
  \/ M("start") /\ me.i = NLines /\ To("close") /\ Keep
  \/ M("close") /\ At("child", "end") /\ To("end") /\ Keep
pager ==
  \/ At("child", "run") /\ sh.to # <<>> /\ sh' = [sh EXCEPT !.to = Tail(@), !.out = Append(@, Head(sh.to))] /\ UNCHANGED pr
  \/ At("child", "run") /\ sh.to = <<>> /\ M("close") /\ Go("child", "end") /\ Keep

-----------------------------------------------------------------------------
Where(m, p) ==
  CASE m \in {"tellwait1"} -> "write"
    [] m = "tellwait2" -> IF p = "parent" THEN "write" ELSE "wait"
    [] m = "devzero" -> IF p = "parent" THEN "loop" ELSE "wait"
    [] m = "deadlock" -> "first"
    [] m \in {"pipe4", "pipe2"} -> IF p = "parent" THEN "start" ELSE "run"
    [] OTHER -> IF p = "parent" THEN "start" ELSE "none"

\* what the caller of abort does with SIGABRT, and which descriptors the
\* caller of popen has open
Std == {0, 1, 2}
Starts(m) ==
  CASE m = "abort" -> [abrt : {"caught", "ignored", "default"}, mask : {{}, {"ABRT"}}, open : {Std}]
    [] m = "popen" -> [abrt : {"none"}, mask : {{}}, open : {Std, Std \ {0}, Std \ {1}}]
    [] OTHER -> [abrt : {"none"}, mask : {{}}, open : {Std}]

Fresh(p, st) ==
  [pc |-> Where(prog.main, p), mask |-> IF prog.lib = "signal" THEN lib_TELL_WAIT ELSE st.mask,
   pend |-> {}, saved |-> {}, sigflag |-> 0,
   i |-> IF Is("abort") \/ (Is("devzero") /\ p = "child") THEN 1 ELSE 0,
   hdl |-> st.abrt, cut |-> FALSE, woke |-> FALSE, act |-> {}]

Shared(st) ==
  [pipe |-> ipc1_TELL_WAIT, out |-> <<>>, area |-> 0, lock |-> [b \in {0, 1} |-> "none"],
   alarm |-> "none", typed |-> FALSE, status |-> "none", died |-> "none", to |-> <<>>, from |-> <<>>, buf |-> <<>>,
   keys |-> CASE prog.main \in {"sleep2", "lib_sleep"} -> {"INT"}
              [] prog.main = "suspend1" -> {"INT", "USR1"}
              [] prog.main \in {"suspend2", "system"} -> {"INT", "QUIT"}
              [] prog.main = "critical" -> {"QUIT"}
              [] prog.main = "mask" -> {"USR1"}
              [] OTHER -> {},
   fds |-> [a \in 0 .. maxfd + 1 |-> IF a \in st.open THEN End(0, "std") ELSE Free],
   childpid |-> [a \in 0 .. maxfd - 1 |-> 0],
   kid |-> [k \in 1 .. NStreams |-> [pc |-> "none", type |-> "r", taken |-> FALSE, lost |-> FALSE,
                                     fds |-> [a \in 0 .. maxfd + 1 |-> Free]]]]

Init ==
  /\ prog \in Progs
  /\ \E st \in Starts(prog.main) : pr = [p \in Proc |-> Fresh(p, st)] /\ sh = Shared(st)

Run ==
  \/ tellwait1 \/ tellwait2 \/ devzero \/ deadlock
  \/ Is("sleep1") /\ sleep1
  \/ Is("sleep2") /\ sleep2
  \/ Is("lib_sleep") /\ lib_sleep
  \/ Is("read1") /\ read1
  \/ Is("read2") /\ read2
  \/ Is("suspend1") /\ suspend1
  \/ Is("suspend2") /\ suspend2
  \/ Is("critical") /\ critical
  \/ Is("mask") /\ mask
  \/ Is("abort") /\ abort
  \/ Is("system") /\ prog.lib = "proc" /\ proc_system
  \/ Is("system") /\ prog.lib = "none" /\ signals_system
  \/ Is("pipe4") /\ (pipe4 \/ IF prog.lib = "stdio" THEN add2stdio ELSE ipc1_add2)
  \/ Is("pipe2") /\ (pipe2 \/ pager)

Caller == Is("popen") /\ \E k \in 1 .. NStreams, type \in {"r", "w"} : popen(k, type)
Streams ==
  /\ Is("popen")
  /\ \/ \E k \in 1 .. NStreams : KidExits(k)
     \/ \E fd \in 0 .. maxfd - 1 : pclose(fd)

Next ==
  /\ UNCHANGED prog
  /\ \/ Run \/ Caller \/ Streams
     \/ ~Is("system") /\ Arrives
     \/ prog.main \in {"read1", "read2"} /\ Type

Spec == Init /\ [][Next]_vars

\* every process runs, the timers expire and the user types; nobody has to
\* open a stream
FairSpec == Spec /\ WF_vars(UNCHANGED prog /\ Run) /\ WF_vars(UNCHANGED prog /\ Streams)
                 /\ WF_vars(UNCHANGED prog /\ ~Is("system") /\ Arrives)

-----------------------------------------------------------------------------
\* The processes of an example take their turns: with TELL_WAIT the parent of
\* tellwait2 writes all its characters before the child's first one, and in
\* devzero nobody finds another value in the shared memory than it expects;
\* in deadlock at most one of the two is refused its second lock, and what
\* the coprocess and the pager of pipe4 and pipe2 say is the lines in order.
TakesTurns ==
  /\ Is("tellwait2") => \A i, j \in DOMAIN sh.out : sh.out[i] = "parent" /\ sh.out[j] = "child" => i < j
  /\ \A p \in Proc : prog.main \in {"devzero", "deadlock"} => pr[p].pc # "quit"
  /\ ~(At("parent", "error") /\ At("child", "error"))
  /\ prog.main \in {"pipe4", "pipe2"} => \A i \in DOMAIN sh.out : sh.out[i] = i

\* What a function changes of its caller's signals it puts back.  sleep returns
\* with the mask and the action of SIGALRM it found, and the signal left over
\* when another one woke it just before the timer expired is the only way its
\* caller dies of it; system returns with SIGINT and SIGQUIT as they were and
\* SIGCHLD unblocked, and while the command runs neither key ends the caller;
\* abort never returns, and what was in the streams' buffers is written.
SignalsRestored ==
  /\ Is("lib_sleep") /\ me.pc \in {"end", "killed"} => me.mask = {} /\ me.act = {} /\ (M("end") => me.cut \/ me.woke)
  /\ Is("lib_sleep") /\ M("killed") => me.cut
  /\ Is("system") /\ prog.lib = "none" /\ M("end") => me.mask = {} /\ me.act = {}
  /\ Is("system") /\ prog.lib = "none" /\ M("killed") => ~At("child", "run")
  /\ Is("abort") => ~M("end") /\ (M("killed") => me.i = 0)
  /\ Is("mask") /\ M("end") => me.mask = {} /\ me.woke
  /\ Is("critical") /\ M("killed") => me.woke

\* system returns the status its command ended with, also to a caller whose
\* SIGCHLD handler waits for children; -1 says that there was no command.
StatusOfCommand ==
  Is("system") /\ prog.lib = "none" /\ M("end") => sh.status = IF sh.died = "none" THEN "-1" ELSE sh.died

\* A child of popen has its own pipe, and only that: its standard descriptor is
\* its end (unless the caller has another stream on that very number), and no
\* child keeps the caller's end of a stream open.  What it may have besides are
\* the descriptors a popen left open that failed in fork or fdopen.
OwnPipeOnly ==
  Is("popen") => \A k \in 1 .. NStreams : sh.kid[k].pc = "run" =>
    /\ \A a \in DOMAIN sh.fds : LET e == sh.kid[k].fds[a] IN
         e.stream # 0 => \/ e.stream = k /\ e.dir = (IF sh.kid[k].type = "r" THEN "w" ELSE "r")
                         \/ e.stream # k /\ sh.kid[e.stream].lost
    /\ LET std == IF sh.kid[k].type = "r" THEN 1 ELSE 0 IN
         sh.kid[k].fds[std].stream # k => sh.kid[k].taken

\* Every program ends: the turns are taken to the last, a sleep and a read with
\* a timeout return, pclose has its child, whatever signal arrives wherever.
\* suspend1 and mask wait on when the one signal came before they were ready.
\* Not so for sleep1 and read1, whose timer may expire before they wait, for
\* devzero with the signals, where that is true of the second WAIT, and for
\* add2stdio, whose answer stays in its buffer.
MayHang == {[main |-> "sleep1", lib |-> "none"], [main |-> "read1", lib |-> "none"],
            [main |-> "devzero", lib |-> "signal"], [main |-> "pipe4", lib |-> "stdio"]}
Over ==
  \/ prog \in MayHang
  \/ Is("popen") /\ M("start")
  \/ Is("suspend1") /\ M("suspended") /\ me.woke
  \/ Is("mask") /\ M("suspended") /\ me.cut
  \/ Ended("parent") /\ ~Alive("child")
ProgramsEnd == <>[]Over
=============================================================================
