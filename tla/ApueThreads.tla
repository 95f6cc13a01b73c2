---------------------------- MODULE ApueThreads -----------------------------
(***************************************************************************)
(* The thread examples of apue.3e, each under threads that call it: the    *)
(* reference-counted objects of mutex1, mutex2 and mutex3, the work queue  *)
(* of condvar, the job queue of rwlock, the sort of barrier, the delayed   *)
(* call of timeout, the three getenv, the signal thread of suspend and the *)
(* fork handlers of atfork.                                                *)
(***************************************************************************)
EXTENDS Integers, FiniteSets, Sequences, SequencesExt

CONSTANTS Progs,      \* the examples to run
          ThreadSeq, NULL,
          Addr,       \* addresses malloc may return
          Ids, NHASH, \* the objects' ids, and the size of fh
          MaxRefs,    \* calls of foo_alloc, foo_hold and foo_find
          Jobs,       \* messages and jobs, numbered from 1
          JobOf,      \* j_id: the thread that handles a job
          NTHR, TNUM, LONG_MAX, Numbers,   \* of barrier.c
          SECTONSEC, Times,                \* of timeout.c
          Env         \* the environment: a function from names to values

VARIABLES prog,
          th,         \* the threads: where each is, and its variables
          mem         \* what they share, locks included

vars == <<prog, th, mem>>

Threads == Range(ThreadSeq)
T(n) == ThreadSeq[n]
At(t, l) == th[t].pc = l
Go(t, l) == th' = [th EXCEPT ![t].pc = l]
Free(l) == mem[l] = NULL
Sum(f) == FoldFunction(+, 0, f)

-----------------------------------------------------------------------------
(* mutex1, mutex2, mutex3: counted references *)

HASH(id) == id % NHASH
HasRef(t, a) == th[t].refs[a] > 0
Chain(i) ==   \* the objects on the list fh[i], in order
  LET next[n \in 0..Cardinality(Addr)] == IF n = 0 THEN mem.fh[i]
                                          ELSE IF next[n-1] = NULL THEN NULL
                                          ELSE mem.obj[next[n-1]].f_next
  IN SelectSeq([n \in 1..(Cardinality(Addr) + 1) |-> next[n-1]], LAMBDA a : a # NULL)

FreeLock(a) == mem.obj[a].f_lock = NULL
MayTake(t) == At(t, "idle") /\ mem.took < MaxRefs
Ref(t, a) == [th EXCEPT ![t].pc = "idle", ![t].fp = NULL, ![t].refs[a] = @ + 1]

NoObj == [state |-> "free", f_count |-> 0, f_id |-> 0, f_next |-> NULL, f_lock |-> NULL]

\* malloc and the fields that need no lock
Malloc(t, next) ==
  /\ MayTake(t)
  /\ \E a \in Addr, id \in Ids :
       /\ mem.obj[a] = NoObj /\ \A b \in 1..(a-1) : mem.obj[b] # NoObj
       /\ mem' = [mem EXCEPT !.obj[a] = [NoObj EXCEPT !.state = "live", !.f_count = 1, !.f_id = id],
                             !.took = @ + 1]
       /\ th' = IF next = "idle" THEN Ref(t, a) ELSE [th EXCEPT ![t].pc = next, ![t].fp = a]

\* linking under hashlock; the object's own lock is taken before hashlock is
\* released, so that nobody uses it until it is initialised
Link(t) ==
  LET a == th[t].fp
      i == HASH(mem.obj[a].f_id) IN
  \/ /\ At(t, "alloc") /\ Free("hashlock")
     /\ mem' = [mem EXCEPT !.hashlock = t, !.obj[a].f_next = mem.fh[i], !.fh[i] = a]
     /\ Go(t, "linked")
  \/ /\ At(t, "linked") /\ FreeLock(a)
     /\ mem' = [mem EXCEPT !.hashlock = NULL, !.obj[a].f_lock = t]
     /\ Go(t, "init")
  \/ /\ At(t, "init")
     /\ mem' = [mem EXCEPT !.obj[a].f_lock = NULL]
     /\ th' = Ref(t, a)

mutex1_foo_alloc(t) == Malloc(t, "idle")
mutex2_foo_alloc(t) == Malloc(t, "alloc") \/ Link(t)
mutex3_foo_alloc(t) == Malloc(t, "alloc") \/ Link(t)

\* one more reference, by a thread that has one
Hold(t, a) ==
  /\ MayTake(t) /\ HasRef(t, a)
  /\ mem' = [mem EXCEPT !.obj[a].f_count = @ + 1, !.took = @ + 1]
  /\ th' = Ref(t, a)

\* f_count is under the object's lock in mutex1 and mutex2, under hashlock in mutex3
mutex1_foo_hold(t) == \E a \in Addr : FreeLock(a) /\ Hold(t, a)
mutex2_foo_hold(t) == \E a \in Addr : FreeLock(a) /\ Hold(t, a)
mutex3_foo_hold(t) == \E a \in Addr : Free("hashlock") /\ Hold(t, a)

\* a reference handed to another thread, which the caller arranges
Give(t) ==
  /\ At(t, "idle")
  /\ \E a \in Addr, s \in Threads \ {t} :
       /\ HasRef(t, a) /\ At(s, "idle")
       /\ th' = [th EXCEPT ![t].refs[a] = @ - 1, ![s].refs[a] = @ + 1]
  /\ UNCHANGED mem

\* the first object of the chain with this id, or NULL
Lookup(id) ==
  LET c == SelectSeq(Chain(HASH(id)), LAMBDA a : mem.obj[a].f_id = id) IN
  IF c = <<>> THEN NULL ELSE c[1]

\* foo_find: the walk under hashlock, the count under the object's own lock
mutex2_foo_find(t) ==
  \/ /\ MayTake(t) /\ Free("hashlock")
     /\ \E id \in Ids :
          IF Lookup(id) = NULL THEN mem' = [mem EXCEPT !.took = @ + 1] /\ UNCHANGED th
          ELSE /\ mem' = [mem EXCEPT !.hashlock = t, !.took = @ + 1]
               /\ th' = [th EXCEPT ![t].pc = "found", ![t].fp = Lookup(id)]
  \/ /\ At(t, "found") /\ FreeLock(th[t].fp)
     /\ mem' = [mem EXCEPT !.hashlock = NULL, !.obj[th[t].fp].f_count = @ + 1]
     /\ th' = Ref(t, th[t].fp)

mutex3_foo_find(t) ==
  /\ MayTake(t) /\ Free("hashlock")
  /\ \E id \in Ids :
       IF Lookup(id) = NULL THEN mem' = [mem EXCEPT !.took = @ + 1] /\ UNCHANGED th
       ELSE /\ mem' = [mem EXCEPT !.obj[Lookup(id)].f_count = @ + 1, !.took = @ + 1]
            /\ th' = Ref(t, Lookup(id))

\* the list without a
Unlinked(a) ==
  LET i == HASH(mem.obj[a].f_id)
      after == mem.obj[a].f_next IN
  IF mem.fh[i] = a THEN [mem EXCEPT !.fh[i] = after]
  ELSE [mem EXCEPT !.obj[CHOOSE b \in Addr : mem.obj[b].f_next = a /\ b \in Range(Chain(i))].f_next = after]

Done(t) == th' = [th EXCEPT ![t].pc = "idle", ![t].fp = NULL]

\* pthread_mutex_destroy and free
FreeObj(t) ==
  /\ At(t, "free")
  /\ mem' = [mem EXCEPT !.obj[th[t].fp] = NoObj]
  /\ Done(t)

Drop(t, a, next) == th' = [th EXCEPT ![t].refs[a] = @ - 1, ![t].pc = next,
                                     ![t].fp = IF next = "idle" THEN NULL ELSE a]

mutex1_foo_rele(t) ==
  \/ /\ At(t, "idle")
     /\ \E a \in Addr :
          /\ HasRef(t, a) /\ FreeLock(a)
          /\ mem' = [mem EXCEPT !.obj[a].f_count = @ - 1]
          /\ Drop(t, a, IF mem.obj[a].f_count = 1 THEN "free" ELSE "idle")
  \/ FreeObj(t)

\* mutation: the count is not looked at again
RecheckSkipped(t) ==
  LET a == th[t].fp IN
  /\ At(t, "recheck") /\ FreeLock(a)
  /\ mem' = [Unlinked(a) EXCEPT !.hashlock = NULL, !.obj[a].f_lock = t] /\ Go(t, "free")

\* "need to recheck the condition"
Recheck(t) ==
  LET a == th[t].fp IN
  /\ At(t, "recheck") /\ FreeLock(a)
  /\ IF mem.obj[a].f_count # 1
     THEN mem' = [mem EXCEPT !.obj[a].f_count = @ - 1, !.hashlock = NULL] /\ Done(t)
     ELSE mem' = [Unlinked(a) EXCEPT !.hashlock = NULL, !.obj[a].f_lock = t] /\ Go(t, "free")

\* mutex2: when the count is 1 the two locks must be taken in the other order,
\* and the count looked at again
mutex2_foo_rele(t) ==
  \/ /\ At(t, "idle")
     /\ \E b \in Addr :
          /\ HasRef(t, b) /\ FreeLock(b)
          /\ IF mem.obj[b].f_count = 1
             THEN Drop(t, b, "rele") /\ UNCHANGED mem
             ELSE Drop(t, b, "idle") /\ mem' = [mem EXCEPT !.obj[b].f_count = @ - 1]
  \/ At(t, "rele") /\ Free("hashlock") /\ mem' = [mem EXCEPT !.hashlock = t] /\ Go(t, "recheck")
  \/ Recheck(t)
  \/ FreeObj(t)

mutex3_foo_rele(t) ==
  \/ /\ At(t, "idle") /\ Free("hashlock")
     /\ \E a \in Addr :
          /\ HasRef(t, a)
          /\ IF mem.obj[a].f_count = 1
             THEN Drop(t, a, "free") /\ mem' = [Unlinked(a) EXCEPT !.obj[a].f_count = 0]
             ELSE Drop(t, a, "idle") /\ mem' = [mem EXCEPT !.obj[a].f_count = @ - 1]
  \/ FreeObj(t)

mutex1(t) == mutex1_foo_alloc(t) \/ mutex1_foo_hold(t) \/ mutex1_foo_rele(t) \/ Give(t)
mutex2(t) == mutex2_foo_alloc(t) \/ mutex2_foo_hold(t) \/ mutex2_foo_find(t) \/ mutex2_foo_rele(t)
mutex3(t) == mutex3_foo_alloc(t) \/ mutex3_foo_hold(t) \/ mutex3_foo_find(t) \/ mutex3_foo_rele(t)

-----------------------------------------------------------------------------
(* condvar: a work queue *)

\* the threads blocked in pthread_cond_wait
Waiting == {t \in Threads : At(t, "wait")}

\* enqueue_msg puts the message in front under qlock, and signals after it
enqueue_msg(t) ==
  \/ /\ At(t, "idle") /\ mem.todo # <<>> /\ Free("qlock")
     /\ mem' = [mem EXCEPT !.workq = <<Head(mem.todo)>> \o @, !.todo = Tail(@)]
     /\ Go(t, "signal")
  \/ /\ At(t, "signal") /\ UNCHANGED mem
     /\ IF Waiting = {} THEN Go(t, "idle")
        ELSE \E s \in Waiting : th' = [th EXCEPT ![t].pc = "idle", ![s].pc = "woken"]

\* process_msg waits while the queue is empty; a woken thread must have qlock
\* again, and another may have taken the message meanwhile
process_msg(t) ==
  \/ /\ At(t, "loop") /\ Free("qlock") /\ mem' = [mem EXCEPT !.qlock = t] /\ Go(t, "test")
  \/ /\ At(t, "woken") /\ Free("qlock") /\ mem' = [mem EXCEPT !.qlock = t] /\ Go(t, "test")
  \/ /\ At(t, "test")
     /\ IF mem.workq = <<>>
        THEN mem' = [mem EXCEPT !.qlock = NULL] /\ Go(t, "wait")
        ELSE /\ mem' = [mem EXCEPT !.qlock = NULL, !.workq = Tail(@), !.done = Append(@, Head(mem.workq))]
             /\ Go(t, "loop")

\* pthread_cond_wait may return without a signal, but nothing makes it
SpuriousWake(t) ==
  /\ At(t, "wait") /\ UNCHANGED <<prog, mem>>
  /\ \/ prog = "condvar" /\ Go(t, "woken")
     \/ prog = "suspend" /\ Go(t, "lock")

-----------------------------------------------------------------------------
(* rwlock: a doubly linked queue of jobs *)

job_insert(jp) ==
  [mem EXCEPT !.job = [j \in Jobs |->
                 IF j = jp THEN [next |-> mem.q_head, prev |-> NULL]
                 ELSE IF j = mem.q_head THEN [mem.job[j] EXCEPT !.prev = jp] ELSE mem.job[j]],
              !.q_tail = IF mem.q_head = NULL THEN jp ELSE @, !.q_head = jp]

job_append(jp) ==
  [mem EXCEPT !.job = [j \in Jobs |->
                 IF j = jp THEN [next |-> NULL, prev |-> mem.q_tail]
                 ELSE IF j = mem.q_tail THEN [mem.job[j] EXCEPT !.next = jp] ELSE mem.job[j]],
              !.q_head = IF mem.q_tail = NULL THEN jp ELSE @, !.q_tail = jp]

job_remove(jp) ==
  LET n == mem.job[jp].next
      q == mem.job[jp].prev
      SetPrev(f, j) == [f EXCEPT ![j].prev = q]
      SetNext(f, j) == [f EXCEPT ![j].next = n] IN
  IF jp = mem.q_head
  THEN IF mem.q_tail = jp THEN [mem EXCEPT !.q_head = n, !.q_tail = NULL]
       ELSE [mem EXCEPT !.q_head = n, !.job = SetPrev(@, n)]
  ELSE IF jp = mem.q_tail THEN [mem EXCEPT !.q_tail = q, !.job = SetNext(@, q)]
  ELSE [mem EXCEPT !.job = SetPrev(SetNext(@, q), n)]

\* the jobs as j_next links them from q_head
Forward ==
  LET at[n \in 0..Cardinality(Jobs)] == IF n = 0 THEN mem.q_head
                                        ELSE IF at[n-1] = NULL THEN NULL ELSE mem.job[at[n-1]].next
  IN SelectSeq([n \in 1..(Cardinality(Jobs) + 1) |-> at[n-1]], LAMBDA j : j # NULL)

job_find(id) ==
  LET mine == SelectSeq(Forward, LAMBDA j : JobOf[j] = id) IN
  IF mine = <<>> THEN NULL ELSE mine[1]

\* the master adds jobs at either end, under the write lock ...
Master(t) ==
  /\ At(t, "idle") /\ mem.todo # <<>> /\ mem.readers = {}
  /\ LET added == {[m EXCEPT !.todo = Tail(@)] : m \in {job_insert(Head(mem.todo)), job_append(Head(mem.todo))}}
     IN mem' \in added
  /\ UNCHANGED th

\* ... and each worker finds one of its own under the read lock, removes it
\* under the write lock, and handles it
Worker(t) ==
  \/ At(t, "loop") /\ mem' = [mem EXCEPT !.readers = @ \union {t}] /\ Go(t, "search")
  \/ /\ At(t, "search") /\ mem' = [mem EXCEPT !.readers = @ \ {t}]
     /\ th' = [th EXCEPT ![t].fp = job_find(t), ![t].pc = IF job_find(t) = NULL THEN "loop" ELSE "remove"]
  \/ /\ At(t, "remove") /\ mem.readers = {}
     /\ mem' = [job_remove(th[t].fp) EXCEPT !.done = Append(@, th[t].fp)]
     /\ Go(t, "loop")

-----------------------------------------------------------------------------
(* barrier: a parallel sort *)

Sorted(s) == CHOOSE r \in [DOMAIN s -> Range(s)] :
               /\ \A i, j \in DOMAIN s : i < j => r[i] <= r[j]
               /\ \A x \in Range(s) : Cardinality({i \in DOMAIN s : s[i] = x})
                                      = Cardinality({i \in DOMAIN r : r[i] = x})

\* thr_fn: its TNUM numbers sorted, then the barrier of NTHR + 1
barrier_thr_fn(t) ==
  LET k == th[t].fp IN
  /\ At(t, "sort")
  /\ mem' = [mem EXCEPT !.nums = [i \in DOMAIN @ |-> IF i \in (k * TNUM + 1)..((k + 1) * TNUM)
                                     THEN Sorted(SubSeq(@, k * TNUM + 1, (k + 1) * TNUM))[i - k * TNUM]
                                     ELSE @[i]],
                     !.arrived = @ + 1]
  /\ Go(t, "barrier")

\* merge: sidx after sidx, the smallest of the numbers the NTHR ranges are at,
\* the first range's when several are; minidx keeps its value when none is
\* below LONG_MAX
merge(t) ==
  LET At0(i) == mem.nums[mem.idx[i] + 1]
      Cand == {i \in 0..(NTHR-1) : mem.idx[i] < (i+1) * TNUM /\ At0(i) < LONG_MAX}
      best == IF Cand = {} THEN mem.minidx
              ELSE CHOOSE i \in Cand : \A j \in Cand : At0(i) < At0(j) \/ (At0(i) = At0(j) /\ i <= j) IN
  /\ At(t, "merge")
  /\ IF Len(mem.snums) = NTHR * TNUM THEN Go(t, "end") /\ UNCHANGED mem
     ELSE /\ mem' = [mem EXCEPT !.idx[best] = @ + 1, !.minidx = best, !.snums = Append(@, At0(best))]
          /\ UNCHANGED th

\* main waits for the NTHR threads at the barrier
barrier_main(t) ==
  \/ At(t, "start") /\ mem' = [mem EXCEPT !.arrived = @ + 1] /\ Go(t, "barrier")
  \/ At(t, "barrier") /\ th[t].fp = -1 /\ mem.arrived = NTHR + 1 /\ Go(t, "merge") /\ UNCHANGED mem
  \/ merge(t)

-----------------------------------------------------------------------------
(* timeout: a function called later, by a thread made for it *)

\* the time from now to when, and whether there is any left
Later(when, now) == when.sec > now.sec \/ (when.sec = now.sec /\ when.nsec > now.nsec)
ToWait(when, now) ==
  IF when.nsec >= now.nsec THEN [sec |-> when.sec - now.sec, nsec |-> when.nsec - now.nsec]
  ELSE [sec |-> when.sec - now.sec - 1, nsec |-> SECTONSEC - now.nsec + when.nsec]

\* a recursive mutex
Lockable(t) == mem.depth = 0 \/ mem.owner = t
Lock(m, t) == [m EXCEPT !.owner = t, !.depth = @ + 1]
Unlock(m) == [m EXCEPT !.depth = @ - 1]

\* retry, under the mutex its caller may hold already
retry(t, next) ==
  \/ At(t, "retry") /\ Lockable(t) /\ mem' = Lock([mem EXCEPT !.called = @ + 1], t) /\ Go(t, "retried")
  \/ At(t, "retried") /\ mem' = Unlock(mem) /\ Go(t, next)

\* timeout: a thread for it when there is time left, malloc and makethread
\* permitting; otherwise the function is called here and now
timeout(t, helper, when) ==
  \E now \in Times :
    \/ /\ Later(when, now)
       /\ mem' = [mem EXCEPT !.to_wait = ToWait(when, now), !.when = when, !.now = now]
       /\ th' = [th EXCEPT ![t].pc = "unlock", ![helper].pc = "sleep"]
    \/ Go(t, "retry") /\ UNCHANGED mem

timeout_helper(t) == At(t, "sleep") /\ Go(t, "retry") /\ UNCHANGED mem

\* main: the condition and the call in one critical section; it may exit
\* before the thread has called retry
timeout_main(t, helper) ==
  \/ At(t, "start") /\ Lockable(t) /\ mem' = Lock(mem, t) /\ Go(t, "condition")
  \/ At(t, "condition") /\ Go(t, "unlock") /\ mem' = [mem EXCEPT !.condition = FALSE]
  \/ At(t, "condition") /\ \E when \in Times : timeout(t, helper, when)
  \/ At(t, "unlock") /\ mem' = Unlock(mem) /\ Go(t, "end")

Timeout(main, helper) ==
  \/ timeout_main(main, helper) \/ retry(main, "unlock")
  \/ ~At(main, "end") /\ (timeout_helper(helper) \/ retry(helper, "end"))

-----------------------------------------------------------------------------
(* getenv: the first into a static buffer, getenv_r into the caller's, the  *)
(* third into one buffer for each thread                                    *)

BufLen == 2

Asks(t, name) == [th EXCEPT ![t].name = name, ![t].pc = "lock"]

getenv1(t) ==
  \/ /\ At(t, "idle")
     /\ \E name \in DOMAIN Env :
          /\ mem' = [mem EXCEPT !.envbuf["static"] = Env[name]]
          /\ th' = [Asks(t, name) EXCEPT ![t].pc = "use"]
  \/ At(t, "use") /\ th' = [th EXCEPT ![t].got = mem.envbuf["static"], ![t].pc = "end"] /\ UNCHANGED mem

\* pthread_once: one thread runs thread_init, the others wait for it
Once(t, next) ==
  \/ At(t, "once") /\ mem.once = NULL /\ mem' = [mem EXCEPT !.once = t] /\ Go(t, "thread_init")
  \/ At(t, "thread_init") /\ mem' = [mem EXCEPT !.once = "done", !.inits = @ + 1] /\ Go(t, next)
  \/ At(t, "once") /\ mem.once = "done" /\ UNCHANGED mem /\ Go(t, next)

Call(t) == At(t, "idle") /\ (\E name \in DOMAIN Env : th' = [Asks(t, name) EXCEPT ![t].pc = "once"]) /\ UNCHANGED mem

\* getenv_r copies under env_mutex, if the caller's buffer is long enough
getenv_r(t) ==
  \/ Call(t) \/ Once(t, "lock")
  \/ At(t, "lock") /\ Free("env_mutex") /\ mem' = [mem EXCEPT !.env_mutex = t] /\ Go(t, "copy")
  \/ /\ At(t, "copy") /\ mem' = [mem EXCEPT !.env_mutex = NULL]
     /\ th' = [th EXCEPT ![t].pc = "end",
                         ![t].got = IF Len(Env[th[t].name]) >= BufLen THEN NULL ELSE Env[th[t].name]]

\* the third getenv makes the thread's buffer the first time, which may fail,
\* and returns the buffer itself
getenv3(t) ==
  \/ Call(t) \/ Once(t, "lock")
  \/ At(t, "lock") /\ Free("env_mutex") /\ mem' = [mem EXCEPT !.env_mutex = t] /\ Go(t, "copy")
  \/ /\ At(t, "copy")
     /\ \/ /\ mem' = [mem EXCEPT !.env_mutex = NULL, !.envbuf[t] = Env[th[t].name]]
           /\ Go(t, "use")
        \/ /\ mem.envbuf[t] = NULL
           /\ mem' = [mem EXCEPT !.env_mutex = NULL] /\ th' = [th EXCEPT ![t].pc = "end"]
  \/ At(t, "use") /\ th' = [th EXCEPT ![t].got = mem.envbuf[t], ![t].pc = "end"] /\ UNCHANGED mem

-----------------------------------------------------------------------------
(* suspend: one thread waits for the signals, all threads block them *)

Kill == \E s \in mem.unsent : mem' = [mem EXCEPT !.unsent = @ \ {s}, !.pending = @ \union {s}] /\ UNCHANGED th

suspend_thr_fn(t) ==
  \/ At(t, "sigwait") /\ "INT" \in mem.pending /\ mem' = [mem EXCEPT !.pending = @ \ {"INT"}] /\ UNCHANGED th
  \/ At(t, "sigwait") /\ "QUIT" \in mem.pending /\ mem' = [mem EXCEPT !.pending = @ \ {"QUIT"}] /\ Go(t, "quit")
  \/ At(t, "quit") /\ Free("lock") /\ mem' = [mem EXCEPT !.quitflag = 1] /\ Go(t, "signal")
  \/ /\ At(t, "signal") /\ UNCHANGED mem
     /\ th' = [s \in Threads |-> IF s = t THEN [th[s] EXCEPT !.pc = "end"]
                                 ELSE IF At(s, "wait") THEN [th[s] EXCEPT !.pc = "lock"] ELSE th[s]]

\* main waits for quitflag; then it unblocks the signals, and one that has
\* come meanwhile ends it before exit does
suspend_main(t) ==
  \/ At(t, "lock") /\ Free("lock") /\ mem' = [mem EXCEPT !.lock = t] /\ Go(t, "while")
  \/ /\ At(t, "while") /\ mem' = [mem EXCEPT !.lock = NULL]
     /\ Go(t, IF mem.quitflag = 0 THEN "wait" ELSE "unblock")
  \/ At(t, "unblock") /\ mem' = [mem EXCEPT !.quitflag = 0] /\ Go(t, IF mem.pending = {} THEN "end" ELSE "killed")

-----------------------------------------------------------------------------
(* atfork: the locks of the two processes after fork *)

prepare(t) ==
  \/ At(t, "fork") /\ mem.lock1[t] = NULL /\ mem' = [mem EXCEPT !.lock1[t] = t] /\ Go(t, "lock2")
  \/ At(t, "lock2") /\ mem.lock2[t] = NULL /\ mem' = [mem EXCEPT !.lock2[t] = t] /\ Go(t, "forking")

\* fork copies the locks as they are, and in the child only this thread exists
fork(t, c) ==
  \/ /\ At(t, "forking")
     /\ mem' = [mem EXCEPT !.lock1[c] = IF @ = NULL /\ mem.lock1[t] = t THEN c ELSE @,
                           !.lock2[c] = IF @ = NULL /\ mem.lock2[t] = t THEN c ELSE @]
     /\ th' = [th EXCEPT ![t].pc = "parent", ![c].pc = "child"]
  \/ At(t, "forking") /\ UNCHANGED mem /\ Go(t, "end")

parent(t) == At(t, "parent") /\ mem' = [mem EXCEPT !.lock1[t] = NULL, !.lock2[t] = NULL] /\ Go(t, "end")
child(t) == At(t, "child") /\ mem' = [mem EXCEPT !.lock1[t] = NULL, !.lock2[t] = NULL] /\ Go(t, "end")

-----------------------------------------------------------------------------
(* The programs *)

Step(t) ==
  \/ prog = "mutex1" /\ mutex1(t)
  \/ prog = "mutex2" /\ mutex2(t)
  \/ prog = "mutex3" /\ mutex3(t)
  \/ prog = "condvar" /\ (enqueue_msg(t) \/ process_msg(t))
  \/ prog = "rwlock" /\ (Master(t) \/ Worker(t))
  \/ prog = "barrier" /\ (barrier_thr_fn(t) \/ barrier_main(t))
  \/ prog = "timeout" /\ t = T(1) /\ Timeout(t, T(2))
  \/ prog = "getenv1" /\ getenv1(t)
  \/ prog = "getenv2" /\ getenv_r(t)
  \/ prog = "getenv3" /\ getenv3(t)
  \/ prog = "suspend" /\ (suspend_thr_fn(t) \/ suspend_main(t))
  \/ prog = "atfork" /\ t = T(1) /\ (prepare(t) \/ fork(t, T(2)) \/ parent(t) \/ child(T(2)))

\* where each thread starts
Start(n) ==
  LET first == n = 1 IN
  CASE prog \in {"condvar", "rwlock"} -> IF first THEN "idle" ELSE "loop"
    [] prog = "barrier" -> IF first THEN "start" ELSE "sort"
    [] prog = "timeout" -> IF first THEN "start" ELSE "none"
    [] prog = "suspend" -> IF first THEN "lock" ELSE IF n = 2 THEN "sigwait" ELSE "none"
    [] prog = "atfork" -> IF first THEN "fork" ELSE "none"
    [] OTHER -> "idle"

Number(t) == CHOOSE n \in DOMAIN ThreadSeq : T(n) = t

Shared ==
  CASE prog \in {"mutex1", "mutex2", "mutex3"} ->
         {[obj |-> [a \in Addr |-> NoObj], took |-> 0,
           fh |-> [i \in 0..(NHASH-1) |-> NULL], hashlock |-> NULL]}
    [] prog = "condvar" -> {[workq |-> <<>>, todo |-> SetToSeq(Jobs), done |-> <<>>, qlock |-> NULL]}
    [] prog = "rwlock" -> {[job |-> [j \in Jobs |-> [next |-> NULL, prev |-> NULL]], q_head |-> NULL,
                            q_tail |-> NULL, readers |-> {}, todo |-> SetToSeq(Jobs), done |-> <<>>]}
    [] prog = "barrier" -> {[nums |-> ns, from |-> ns, arrived |-> 0, snums |-> <<>>, minidx |-> 0,
                             idx |-> [i \in 0..(NTHR-1) |-> i * TNUM]] :
                              ns \in [1..(NTHR * TNUM) -> Numbers]}
    [] prog = "timeout" -> {[owner |-> NULL, depth |-> 0, called |-> 0, condition |-> TRUE,
                             to_wait |-> NULL, when |-> NULL, now |-> NULL]}
    [] prog \in {"getenv1", "getenv2", "getenv3"} ->
         {[envbuf |-> [b \in Threads \union {"static"} |-> NULL], once |-> NULL, inits |-> 0, env_mutex |-> NULL]}
    [] prog = "suspend" -> {[unsent |-> {"INT", "QUIT"}, pending |-> {}, quitflag |-> 0, lock |-> NULL]}
    [] prog = "atfork" -> {[lock1 |-> [t \in Threads |-> NULL], lock2 |-> [t \in Threads |-> NULL]]}

Init ==
  /\ prog \in Progs
  /\ th = [t \in Threads |-> [pc |-> Start(Number(t)), refs |-> [a \in Addr |-> 0], name |-> NULL,
                              got |-> NULL, fp |-> IF prog = "barrier" THEN Number(t) - 2 ELSE NULL]]
  /\ mem \in Shared

Run(t) == Step(t) /\ UNCHANGED prog
Signals == prog = "suspend" /\ Kill /\ UNCHANGED prog

Next == (\E t \in Threads : Run(t) \/ SpuriousWake(t)) \/ Signals

Spec == Init /\ [][Next]_vars
\* a thread runs, and gets a lock that is free again and again
FairSpec == Spec /\ (\A t \in Threads : SF_vars(Run(t))) /\ WF_vars(Signals)

-----------------------------------------------------------------------------
(* Properties *)

Counted == prog \in {"mutex1", "mutex2", "mutex3"}
Using(t, a) == th[t].fp = a /\ th[t].pc \in {"alloc", "linked", "init", "rele", "recheck"}
Refs(a) == Sum([t \in Threads |-> th[t].refs[a] + (IF Using(t, a) THEN 1 ELSE 0)])
Dying(a) == \E t \in Threads : At(t, "free") /\ th[t].fp = a

\* The count of an object is the number of references to it, through every
\* interleaving of foo_hold, foo_find and foo_rele: an object is freed only
\* when nobody has a reference, nobody is about to use it, and foo_find cannot
\* return it; and until then foo_find can.
RefsSound ==
  Counted => \A a \in Addr :
    LET live == mem.obj[a] # NoObj
        chained == {i \in 0..(NHASH-1) : a \in Range(Chain(i))} IN
    /\ live /\ ~Dying(a) => mem.obj[a].f_count = Refs(a) /\ Refs(a) > 0
    /\ ~live \/ Dying(a) => Refs(a) = 0 /\ chained = {} /\ \A t \in Threads : ~(At(t, "found") /\ th[t].fp = a)
    /\ prog # "mutex1" /\ live /\ ~Dying(a) /\ (\A t \in Threads : ~(At(t, "alloc") /\ th[t].fp = a))
         => chained = {HASH(mem.obj[a].f_id)}

\* No message of condvar and no job of rwlock is lost or handled twice, and the
\* two directions of the job queue agree whatever order jobs are added at the
\* head and the tail and removed from the head, the tail and the middle.
QueuesSound ==
  /\ prog = "condvar" => LET all == mem.todo \o mem.workq \o mem.done IN
                         Len(all) = Cardinality(Jobs) /\ Range(all) = Jobs
  /\ prog = "rwlock" =>
       LET q == Forward
           all == mem.todo \o q \o mem.done IN
       /\ Len(all) = Cardinality(Jobs) /\ Range(all) = Jobs
       /\ mem.q_tail = IF q = <<>> THEN NULL ELSE Last(q)
       /\ \A i \in DOMAIN q : mem.job[q[i]].prev = IF i = 1 THEN NULL ELSE q[i-1]

Count(s, x) == Cardinality({i \in DOMAIN s : s[i] = x})
Nanos(t) == t.sec * SECTONSEC + t.nsec

\* Each example delivers what its callers count on: the merged numbers are the
\* given ones in order; the delayed function is called once, by the new thread
\* after exactly the time left or at once by the caller, never by both;
\* and getenv_r and the getenv with thread-specific data give a thread the value
\* it asked for, initialising once.
OwnResults ==
  /\ prog = "barrier" /\ At(T(1), "end") =>
       /\ \A i \in 1..(Len(mem.snums) - 1) : mem.snums[i] <= mem.snums[i+1]
       /\ \A x \in Numbers : Count(mem.snums, x) = Count(mem.from, x)
  /\ prog = "timeout" =>
       /\ mem.called + (IF At(T(2), "sleep") \/ At(T(2), "retry") THEN 1 ELSE 0) <= 1
       /\ At(T(1), "end") => (mem.called = 0) = (~mem.condition \/ th[T(2)].pc \in {"sleep", "retry"})
       /\ mem.to_wait # NULL => /\ mem.to_wait.nsec \in 0..(SECTONSEC - 1)
                                /\ Nanos(mem.to_wait) = Nanos(mem.when) - Nanos(mem.now)
  /\ prog \in {"getenv2", "getenv3"} =>
       /\ mem.inits <= 1
       /\ \A t \in Threads : th[t].got # NULL => th[t].got = Env[th[t].name]

Finished ==
  CASE prog = "condvar" -> Len(mem.done) = Cardinality(Jobs)
    [] Counted -> \A t \in Threads : At(t, "idle")
    [] prog \in {"getenv1", "getenv2", "getenv3"} -> \A t \in Threads : At(t, "end")
    [] prog = "atfork" -> At(T(1), "end") /\ (At(T(2), "none") \/ \A t \in Threads : mem.lock1[t] = NULL /\ mem.lock2[t] = NULL)
    [] prog = "rwlock" -> TRUE
    [] OTHER -> th[T(1)].pc \in {"end", "killed"}

\* Every message is handled, every call of foo_alloc, foo_hold, foo_find and
\* foo_rele returns, and the other programs end, suspend because SIGQUIT comes
\* and atfork with every lock free again in both processes.  (The workers of
\* rwlock poll, and readers that overlap can keep a writer waiting for ever.)
WorkDone == <>[]Finished
=============================================================================
