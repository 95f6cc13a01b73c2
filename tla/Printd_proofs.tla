--------------------------- MODULE Printd_proofs ---------------------------
(***************************************************************************)
(* The inductive invariant of Printd, and that the clients' threads, the   *)
(* printer thread, the main thread, an end of the daemon and its next      *)
(* start keep it.  From it follows that the spool is sound.                *)
(*                                                                         *)
(* A number may be given out twice, after an end of the daemon before the  *)
(* job file is written.  Most of the invariant keeps what happens to such  *)
(* numbers (Clash) apart from all others.                                  *)
(***************************************************************************)
EXTENDS Printd, FiniteSetTheorems, TLAPS

\* The positions of a client thread that has a job number and still runs, and of a
\* printer thread that has a job.
Working == {"creat", "fill", "ctl", "write", "unreq", "undata", "respond", "add", "signal"}
Holding == {"update", "config", "open", "send", "status", "unlink"}

\* The clients that have not come yet.
Idle == {c \in Clients : cpc[c] = "idle"}

\* There is a number left for every client yet to come, now and after a restart.
Numbers ==
  /\ Cardinality(Clients) \in Nat /\ Cardinality(Idle) \in 0 .. Cardinality(Clients)
  /\ nextjob + Cardinality(Idle) <= Cardinality(Clients) + 1
  /\ jobfile + Cardinality(Idle) <= Cardinality(Clients) + 1

\* What the positions say: a working client's number is among those given out, the
\* daemon accepts only once the scan is over, and a daemon that is down has no queue.
Places ==
  /\ \A c \in Clients : cpc[c] = "idle" => jobid[c] = 0
  /\ \A c \in Clients : cpc[c] \in Working =>
       up /\ mpc = "accept" /\ jobid[c] \in Jobs /\ jobid[c] < nextjob
  /\ \A c \in reissued : jobid[c] # 0 /\ cpc[c] # "creat"
  /\ \A c \in accepted : cpc[c] \in {"add", "signal", "done", "gone"}
  /\ ~up => jobs = <<>> /\ ppc = "get" /\ mpc = "scan" /\ todo = {}
  /\ todo # {} => mpc # "accept"
  /\ ppc \in Holding <=> jp # NoJob
  /\ mpc = "unlink" => mjob \in Jobs /\ req[mjob] = NULL

\* Two clients at work never have the same number: it is given out twice only after
\* the daemon, and with it the first one's thread, has ended.
Distinct ==
  \A c, d \in Clients :
    cpc[c] \in Working /\ cpc[d] \in Working /\ jobid[c] = jobid[d] => c = d

\* The number j has been given out twice: all who ever had it are reissued, and it is
\* not given out again by this daemon.
Clash(j) == j < nextjob /\ \A d \in Clients : jobid[d] = j => d \in reissued

\* A reissued client still at work shares its number with reissued ones only.
Reissue == \A c \in reissued : cpc[c] \in Working => Clash(jobid[c])

\* A request, on disk, in the queue or in the printer thread's hands, bears the
\* number its client was given.
Named ==
  /\ \A j \in Jobs : req[j] \in Clients => jobid[req[j]] = j
  /\ \A n \in DOMAIN jobs : jobid[jobs[n].req] = jobs[n].jobid
  /\ jp # NoJob => jobid[jp.req] = jp.jobid

\* An entry of the queue, and the printer thread's job, has its request on disk,
\* unless the number clashes and another client's thread has overwritten it.
Held ==
  /\ \A n \in DOMAIN jobs : req[jobs[n].jobid] = jobs[n].req \/ Clash(jobs[n].jobid)
  /\ jp # NoJob => req[jp.jobid] = jp.req \/ Clash(jp.jobid)

\* No number is queued twice unless it clashes.
Unique ==
  /\ \A m, n \in DOMAIN jobs : jobs[m].jobid = jobs[n].jobid => m = n \/ Clash(jobs[n].jobid)
  /\ \A n \in DOMAIN jobs : jobs[n].jobid = jp.jobid => Clash(jp.jobid)

\* The number j is neither queued nor being printed.
Absent(j) == jp.jobid # j /\ \A n \in DOMAIN jobs : jobs[n].jobid # j

\* What the start-up scan has yet to read is not in the queue.
Scanned == \A j \in todo : Absent(j)

\* The files of a client at work are as its thread has left them, and its job is
\* not in the queue before add_job.
Spooling ==
  \A c \in Clients \ reissued :
    /\ cpc[c] \in Working \ {"creat", "signal"} => Absent(jobid[c])
    /\ cpc[c] \in {"fill", "ctl", "undata"} => req[jobid[c]] = NULL
    /\ cpc[c] \in {"write", "unreq"} => req[jobid[c]] = Part
    /\ cpc[c] \in {"respond", "add"} => req[jobid[c]] = c
    /\ cpc[c] \in {"ctl", "write", "respond", "add"} => data[jobid[c]] = c

\* A whole request on disk has its data beside it, or has been printed.
OnDisk ==
  \A j \in Jobs : req[j] \in Clients \ reissued =>
    data[j] = req[j] \/ (data[j] = NULL /\ [req |-> req[j], data |-> req[j]] \in printed)

\* The file the printer thread sends is the client's; after that it is printed.
Sending ==
  jp # NoJob /\ jp.req \notin reissued =>
    /\ ppc = "send" => data[jp.jobid] = jp.req
    /\ ppc \in {"status", "unlink"} => [req |-> jp.req, data |-> jp.req] \in printed

\* The inductive invariant.
IInv == /\ TypeOK /\ Numbers /\ Places /\ Distinct /\ Reissue /\ Named /\ Held /\ Unique
        /\ Scanned /\ Spooling /\ OnDisk /\ Sending /\ AcceptedKept /\ PrintsOwn

-----------------------------------------------------------------------------
(* Lemmas on the state *)

\* What is queued or being printed has a job number, and 0 is none.
LEMMA Entries ==
  ASSUME TypeOK
  PROVE  /\ \A n \in DOMAIN jobs : jobs[n].jobid \in Jobs /\ jobs[n].req \in Clients
         /\ jp # NoJob => jp.jobid \in Jobs /\ jp.req \in Clients
         /\ NoJob.jobid = 0 /\ 0 \notin Jobs
         /\ DOMAIN jobs = 1 .. Len(jobs) /\ Len(jobs) \in Nat
<1>1. jobs \in Seq([jobid : Jobs, req : Clients])
  BY Zenon DEF TypeOK
<1>2. DOMAIN jobs = 1 .. Len(jobs) /\ Len(jobs) \in Nat
  BY <1>1
<1>3. \A n \in DOMAIN jobs : jobs[n] \in [jobid : Jobs, req : Clients]
  <2>1. ASSUME NEW S, NEW q \in Seq(S), NEW n \in 1 .. Len(q) PROVE q[n] \in S
    OBVIOUS
  <2> QED  BY <1>1, <1>2, <2>1, Zenon
<1>4. 0 \notin Jobs
  BY DEF Jobs
<1> QED
  BY Zenon, <1>2, <1>3, <1>4 DEF TypeOK, NoJob

\* The functions of the state, without what they return.
LEMMA Domains ==
  ASSUME TypeOK
  PROVE  /\ DOMAIN cpc = Clients /\ DOMAIN jobid = Clients
         /\ DOMAIN req = Jobs /\ DOMAIN data = Jobs
BY Zenon DEF TypeOK

\* The sets of clients, and their numbers.
LEMMA Members ==
  ASSUME TypeOK
  PROVE  /\ accepted \subseteq Clients /\ reissued \subseteq Clients /\ unread \subseteq Clients
         /\ \A c \in Clients : jobid[c] \in Jobs \cup {0}
         /\ \A j \in Jobs : req[j] \in Clients \cup {NULL, Part} /\ data[j] \in Clients \cup {NULL, Part}
BY Zenon DEF TypeOK

\* Append leaves the entries where they are and adds one at the end.
LEMMA AtTail ==
  ASSUME NEW S, NEW q \in Seq(S), NEW e \in S
  PROVE  /\ Append(q, e) \in Seq(S) /\ DOMAIN Append(q, e) = 1 .. Len(q) + 1
         /\ Append(q, e)[Len(q) + 1] = e /\ \A n \in 1 .. Len(q) : Append(q, e)[n] = q[n]
OBVIOUS

\* A new head moves every entry up by one.
LEMMA AtHead ==
  ASSUME NEW S, NEW q \in Seq(S), NEW e \in S
  PROVE  /\ <<e>> \o q \in Seq(S) /\ DOMAIN (<<e>> \o q) = 1 .. Len(q) + 1
         /\ (<<e>> \o q)[1] = e
         /\ \A n \in 1 .. Len(q) + 1 :
              n \in Nat /\ (n = 1 \/ (n - 1 \in DOMAIN q /\ (<<e>> \o q)[n] = q[n - 1]))
OBVIOUS

\* Taking the head moves every entry down by one.
LEMMA FromHead ==
  ASSUME NEW S, NEW q \in Seq(S), q # <<>>
  PROVE  /\ Head(q) \in S /\ Tail(q) \in Seq(S) /\ DOMAIN Tail(q) = 1 .. Len(q) - 1
         /\ Head(q) = q[1] /\ Len(q) \in Nat /\ Len(q) > 0 /\ DOMAIN q = 1 .. Len(q)
         /\ \A n \in 1 .. Len(q) - 1 : Tail(q)[n] = q[n + 1]
OBVIOUS

\* add_job's list operation: one more entry, at the tail.
Grown(j, r) ==
  /\ DOMAIN jobs' = 1 .. Len(jobs) + 1 /\ DOMAIN jobs = 1 .. Len(jobs) /\ Len(jobs) \in Nat
  /\ jobs'[Len(jobs) + 1].jobid = j /\ jobs'[Len(jobs) + 1].req = r
  /\ \A n \in 1 .. Len(jobs) : jobs'[n] = jobs[n]

\* Enqueue makes the queue grow that way.
LEMMA Enqueued ==
  ASSUME TypeOK, NEW j \in Jobs, NEW r \in Clients, Enqueue(j, r)
  PROVE  Grown(j, r)
<1>1. [jobid |-> j, req |-> r] \in [jobid : Jobs, req : Clients]
  BY Zenon
<1>2. jobs \in Seq([jobid : Jobs, req : Clients])
  BY Zenon DEF TypeOK
<1> QED
  BY <1>1, <1>2, AtTail DEF Enqueue, Grown

\* remove_job: the printer thread has the former head.
LEMMA HeadTaken ==
  ASSUME TypeOK, remove_job
  PROVE  /\ jp' \in [jobid : Jobs, req : Clients] /\ jp' = jobs[1]
         /\ jobs' \in Seq([jobid : Jobs, req : Clients]) /\ Len(jobs) \in Nat /\ Len(jobs) > 0
         /\ DOMAIN jobs = 1 .. Len(jobs) /\ DOMAIN jobs' = 1 .. Len(jobs) - 1
         /\ \A n \in 1 .. Len(jobs) - 1 : jobs'[n] = jobs[n + 1]
<1>1. jobs \in Seq([jobid : Jobs, req : Clients]) /\ jobs # <<>>
  BY Zenon DEF TypeOK, remove_job
<1>2. jp' = Head(jobs) /\ jobs' = Tail(jobs)
  BY Zenon DEF remove_job
<1> QED
  BY <1>1, <1>2, FromHead, Zenon

\* replace_job: the printer thread's job is the new head.
LEMMA PutBack ==
  ASSUME TypeOK, jp # NoJob, jobs' = <<jp>> \o jobs
  PROVE  /\ DOMAIN jobs' = 1 .. Len(jobs) + 1 /\ jobs'[1] = jp
         /\ DOMAIN jobs = 1 .. Len(jobs) /\ Len(jobs) \in Nat
         /\ \A n \in DOMAIN jobs' :
              n \in Nat /\ (n = 1 \/ (n - 1 \in DOMAIN jobs /\ jobs'[n] = jobs[n - 1]))
<1>1. jobs \in Seq([jobid : Jobs, req : Clients]) /\ jp \in [jobid : Jobs, req : Clients]
  BY Zenon DEF TypeOK
<1> QED
  BY <1>1, AtHead

\* get_newjobno: only the caller's number changes, and a clash stays a clash.
LEMMA Numbered ==
  ASSUME IInv, NEW c \in Clients, get_newjobno(c)
  PROVE  /\ jobid[c] = 0 /\ c \notin reissued /\ jobid'[c] = nextjob
         /\ \A d \in Clients : d # c => jobid'[d] = jobid[d]
         /\ \A j \in Jobs : Clash(j) => Clash(j)'
<1>1. /\ jobid[c] = 0 /\ c \notin reissued /\ jobid'[c] = nextjob
      /\ \A d \in Clients : d # c => jobid'[d] = jobid[d]
  BY Zenon DEF IInv, TypeOK, Places, get_newjobno, CGoto
<1> QED
  BY <1>1 DEF IInv, TypeOK, Numbers, Clash, Jobs, get_newjobno

\* A step that leaves the queue, the requests and the numbers alone, and reads of the
\* spool directory at most an entry, leaves what is said of them.
LEMMA QueueSame ==
  ASSUME IInv, UNCHANGED <<req, nextjob, jobs, cpc, jobid, jp, reissued>>, todo' \subseteq todo
  PROVE  Distinct' /\ Reissue' /\ Named' /\ Held' /\ Unique' /\ Scanned'
<1>1. Distinct' /\ Reissue' /\ Named'
  BY Zenon DEF IInv, Distinct, Reissue, Named, Clash, Working
<1>2. Held' /\ Unique'
  BY DEF IInv, Held, Unique, Clash
<1>3. Scanned'
  BY Zenon DEF IInv, Scanned, Absent
<1> QED
  BY <1>1, <1>2, <1>3, Zenon

\* If it leaves the data files and the history alone as well, only the threads' places
\* are left to look at.
LEMMA QuietKeeps ==
  ASSUME IInv, TypeOK', Numbers', Places', Sending', todo' \subseteq todo,
         UNCHANGED <<req, nextjob, jobs, cpc, jobid, jp, data, history>>
  PROVE  IInv'
<1> USE DEF history
<1>1. Distinct' /\ Reissue' /\ Named' /\ Held' /\ Unique' /\ Scanned'
  BY Zenon, QueueSame
<1>2. Spooling'
  BY Zenon DEF IInv, Spooling, Absent
<1>3. OnDisk' /\ AcceptedKept' /\ PrintsOwn'
  BY Zenon DEF IInv, OnDisk, AcceptedKept, PrintsOwn
<1> QED
  BY <1>1, <1>2, <1>3, Zenon DEF IInv

\* A client's thread that moves on and neither takes a number nor queues a job leaves
\* the queue and the numbers alone.
LEMMA ClientSame ==
  ASSUME IInv, NEW c \in Clients, NEW from \in Working, NEW to \in Working \cup {"done", "gone"},
         CGoto(c, from, to), UNCHANGED <<nextjob, jobfile, jobs, jobid, jp, reissued, todo>>
  PROVE  /\ Numbers' /\ Distinct' /\ Reissue' /\ Unique' /\ Scanned'
         /\ UNCHANGED req => Named' /\ Held'
<1>1. \A d \in Clients : /\ cpc'[d] \in Working => cpc[d] \in Working
                         /\ cpc'[d] = "idle" <=> cpc[d] = "idle"
  BY Zenon, Domains DEF IInv, CGoto, Working
<1>2. Numbers'
  BY Zenon, <1>1 DEF IInv, Numbers, Idle
<1>3. Distinct' /\ Reissue'
  BY Zenon, <1>1, Members DEF IInv, Distinct, Reissue, Clash
<1>4. Unique' /\ Scanned'
  BY DEF IInv, Unique, Scanned, Clash, Absent
<1>5. UNCHANGED req => Named' /\ Held'
  BY Zenon DEF IInv, Named, Held, Clash
<1> QED
  BY <1>2, <1>3, <1>4, <1>5, Zenon

-----------------------------------------------------------------------------
(* client_thread *)

\* get_newjobno: the number is left because this client is one of those yet to come; it is not 0,
\* which is what an idle client has.
LEMMA get_newjobnoKeeps ==
  ASSUME IInv, NEW c \in Clients, get_newjobno(c), nextjob \in Jobs, Numbers'
  PROVE  IInv'
<1> USE PrintdAssumption DEF get_newjobno, CGoto, Client, bounds, Clash, Absent, Working, Holding,
      NoJob, Jobs, NULL, Part
<1>1. TypeOK'
  <2>1. cpc' \in [Clients -> {"idle", "creat", "fill", "ctl", "write", "unreq", "undata", "respond",
                              "add", "signal", "done", "gone"}]
    BY Zenon DEF IInv, TypeOK
  <2>2. jobid' \in [Clients -> Jobs \cup {0}]
    BY Zenon DEF IInv, TypeOK
  <2>3. /\ jobfile' \in 0 .. Cardinality(Clients) + 1 /\ nextjob' \in 1 .. Cardinality(Clients) + 1
        /\ up' => jobfile' <= nextjob'
    BY DEF IInv, TypeOK, Numbers
  <2> QED  BY <2>1, <2>2, <2>3, Zenon DEF IInv, TypeOK
<1>2. Numbers'
  BY Zenon
<1>3. Places'
  <2>1. nextjob \in Jobs
    BY Zenon, <1>1 DEF IInv, TypeOK
  <2> QED  BY <2>1 DEF IInv, TypeOK, Places
<1>4. Distinct'
  BY Domains DEF IInv, Places, Distinct
<1>5. Reissue'
  BY DEF IInv, TypeOK, Places, Reissue
<1>6. Named'
  <2>1. /\ jobid[c] = 0 /\ c \notin reissued /\ jobid'[c] = nextjob
        /\ \A d \in Clients : d # c => jobid'[d] = jobid[d]
    BY Numbered, Zenon
  <2>2. 0 \notin Jobs
    BY Zenon, Entries DEF IInv
  <2>3. \A j \in Jobs : req[j] \in Clients => req[j] # c
    BY Zenon, <2>1, <2>2 DEF IInv, Named
  <2>4. /\ \A n \in DOMAIN jobs : jobs[n].req \in Clients /\ jobs[n].req # c
        /\ jp # NoJob => jp.req \in Clients /\ jp.req # c
    BY Zenon, <2>1, <2>2, Entries DEF IInv, Named
  <2> QED  BY <2>1, <2>3, <2>4 DEF IInv, Named
<1>7. Held'
  <2>1. \A j \in Jobs : Clash(j) => Clash(j)'
    BY Numbered, Zenon
  <2> HIDE DEF Clash
  <2> QED  BY <2>1, Entries, Domains DEF IInv, Held
<1>8. Unique'
  <2>1. \A j \in Jobs : Clash(j) => Clash(j)'
    BY Numbered, Zenon
  <2> HIDE DEF Clash
  <2> QED  BY <2>1, Entries, Domains, SMT, Z3 DEF IInv, Unique
<1>9. AcceptedKept'
  <2> SUFFICES ASSUME NEW x \in Clients, x \in accepted', x \notin reissued', x \notin unread',
                      [req |-> x, data |-> x] \notin printed'
               PROVE  req'[jobid'[x]] = x /\ data'[jobid'[x]] = x
    BY <1>1, Zenon DEF AcceptedKept, TypeOK
  <2> QED  BY Domains DEF IInv, Places, AcceptedKept
<1>10. Scanned' /\ Spooling'
  BY DEF IInv, Scanned, Spooling
<1>11. OnDisk' /\ Sending' /\ PrintsOwn'
  BY Zenon DEF IInv, OnDisk, Sending, PrintsOwn
<1> QED
  BY <1>1, <1>2, <1>3, <1>4, <1>5, <1>6, <1>7, <1>8, <1>9, <1>10, <1>11, Zenon DEF IInv

\* The data file is created: if the number has a request on disk both its clients are reissued,
\* and otherwise nothing of the number is queued.
LEMMA CreatDataKeeps ==
  ASSUME IInv, NEW c \in Clients, CreatData(c)
  PROVE  IInv'
<1> USE PrintdAssumption DEF CreatData, CGoto, Client, bounds, Clash, Absent, Working, Holding,
      NoJob, Jobs, NULL, Part
<1>1. TypeOK'
  BY Zenon DEF IInv, TypeOK, Places
<1>2. Numbers'
  BY Zenon DEF IInv, TypeOK, Numbers, Idle
<1>3. Places'
  BY DEF IInv, TypeOK, Places, Distinct
<1>4. Reissue'
  BY DEF IInv, TypeOK, Places, Reissue
<1>5. Spooling'
  <2>1. jobid[c] \in Jobs /\ cpc'[c] = "fill" /\ \A x \in Clients : x # c => cpc'[x] = cpc[x]
    BY Zenon DEF IInv, TypeOK, Places
  <2>2. ASSUME c \notin reissued'
        PROVE  req[jobid[c]] = NULL /\ Absent(jobid[c])
    <3>1. req[jobid[c]] = NULL /\ ~ Clash(jobid[c]) /\ NULL \notin Clients
      BY Zenon, <2>2
    <3>2. \A n \in DOMAIN jobs : jobs[n].jobid # jobid[c]
      <4> HIDE DEF Clash
      <4> QED  BY <3>1, Entries DEF IInv, Held
    <3>3. jp.jobid # jobid[c]
      <4> HIDE DEF Clash
      <4> QED  BY <3>1, <2>1, Entries DEF IInv, Held
    <3> QED  BY <3>1, <3>2, <3>3
  <2>3. ASSUME NEW x \in Clients, x # c, cpc[x] \in Working
        PROVE  data'[jobid[x]] = data[jobid[x]]
    BY ZenonT(30), <2>1, <2>3 DEF IInv, TypeOK, Places, Distinct
  <2> QED  BY <2>1, <2>2, <2>3 DEF IInv, TypeOK, Places, Spooling
<1>6. OnDisk'
  BY DEF IInv, TypeOK, Places, Named, OnDisk
<1>7. Sending'
  BY DEF IInv, TypeOK, Named, Held, Sending
<1>8. AcceptedKept'
  <2> SUFFICES ASSUME NEW x \in Clients, x \in accepted', x \notin reissued', x \notin unread',
                      [req |-> x, data |-> x] \notin printed'
               PROVE  req'[jobid'[x]] = x /\ data'[jobid'[x]] = x
    BY <1>1, Zenon DEF AcceptedKept, TypeOK
  <2> QED  BY DEF IInv, AcceptedKept
<1>9. Distinct' /\ Named' /\ Held'
  BY DEF IInv, Distinct, Named, Held
<1>10. Unique' /\ Scanned' /\ PrintsOwn'
  BY DEF IInv, Unique, Scanned, PrintsOwn
<1> QED
  BY <1>1, <1>2, <1>3, <1>4, <1>5, <1>6, <1>7, <1>8, <1>9, <1>10, Zenon DEF IInv

\* The client's bytes arrive in the file of its number, which no other client at work has.
LEMMA FillKeeps ==
  ASSUME IInv, NEW c \in Clients, Fill(c)
  PROVE  IInv'
<1>0. Numbers' /\ Distinct' /\ Reissue' /\ Unique' /\ Scanned' /\ Named' /\ Held'
  BY Zenon, ClientSame DEF Fill, Client, Working
<1> USE PrintdAssumption DEF Fill, CGoto, Client, bounds, Clash, Absent, Working, Holding, NoJob,
      Jobs, NULL, Part
<1>1. TypeOK'
  BY Zenon DEF IInv, TypeOK, Places
<1>2. Spooling'
  BY DEF IInv, TypeOK, Places, Distinct, Spooling
<1>3. OnDisk'
  BY SMT, Z3 DEF IInv, Reissue, Named, Spooling, OnDisk
<1>4. Sending'
  BY DEF IInv, TypeOK, Places, Reissue, Named, Held, Spooling, Sending
<1>5. AcceptedKept'
  <2> SUFFICES ASSUME NEW x \in Clients, x \in accepted', x \notin reissued', x \notin unread',
                      [req |-> x, data |-> x] \notin printed'
               PROVE  req'[jobid'[x]] = x /\ data'[jobid'[x]] = x
    BY <1>1, Zenon DEF AcceptedKept, TypeOK
  <2> QED  BY DEF IInv, Reissue, Spooling, AcceptedKept
<1>6. Places'
  BY DEF IInv, Places
<1>7. PrintsOwn'
  BY Zenon DEF IInv, PrintsOwn
<1> QED
  BY <1>0, <1>1, <1>2, <1>3, <1>4, <1>5, <1>6, <1>7, Zenon DEF IInv

\* The request file is created; the number is not queued, or clashes.
LEMMA CreatRequestKeeps ==
  ASSUME IInv, NEW c \in Clients, CreatRequest(c)
  PROVE  IInv'
<1>0. Numbers' /\ Distinct' /\ Reissue' /\ Unique' /\ Scanned'
  BY Zenon, ClientSame DEF CreatRequest, Client, Working
<1> USE PrintdAssumption DEF CreatRequest, CGoto, Client, bounds, Clash, Absent, Working, Holding,
      NoJob, Jobs, NULL, Part
<1>1. TypeOK'
  BY Zenon DEF IInv, TypeOK, Places
<1>2. Held'
  BY DEF IInv, Reissue, Held, Spooling
<1>3. Spooling'
  BY Domains DEF IInv, Places, Distinct, Spooling
<1>4. AcceptedKept'
  <2> SUFFICES ASSUME NEW x \in Clients, x \in accepted', x \notin reissued', x \notin unread',
                      [req |-> x, data |-> x] \notin printed'
               PROVE  req'[jobid'[x]] = x /\ data'[jobid'[x]] = x
    BY <1>1, Zenon DEF AcceptedKept, TypeOK
  <2> QED  BY DEF IInv, Reissue, Spooling, AcceptedKept
<1>5. Places'
  BY SMT, Z3 DEF IInv, Places
<1>6. Named'
  BY DEF IInv, Named
<1>7. OnDisk' /\ Sending' /\ PrintsOwn'
  BY DEF IInv, OnDisk, Sending, PrintsOwn
<1> QED
  BY <1>0, <1>1, <1>2, <1>3, <1>4, <1>5, <1>6, <1>7, Zenon DEF IInv

\* The request is whole, and the data beside it was whole before.
LEMMA WriteRequestKeeps ==
  ASSUME IInv, NEW c \in Clients, WriteRequest(c)
  PROVE  IInv'
<1>0. Numbers' /\ Distinct' /\ Reissue' /\ Unique' /\ Scanned'
  BY Zenon, ClientSame DEF WriteRequest, Client, Working
<1> USE PrintdAssumption DEF WriteRequest, CGoto, Client, bounds, Clash, Absent, Working, Holding,
      NoJob, Jobs, NULL, Part
<1>1. TypeOK'
  BY Zenon DEF IInv, TypeOK, Places
<1>2. Held'
  <2>1. Clash(jobid[c]) \/ Absent(jobid[c])
    BY Zenon, Domains DEF IInv, Reissue, Spooling
  <2> QED  BY <2>1, Entries, Domains DEF IInv, Held, Places
<1>3. Spooling'
  BY SMT, Z3 DEF IInv, TypeOK, Places, Distinct, Spooling
<1>4. OnDisk'
  BY SMT, Z3 DEF IInv, TypeOK, Places, Spooling, OnDisk
<1>5. AcceptedKept'
  <2> SUFFICES ASSUME NEW x \in Clients, x \in accepted', x \notin reissued', x \notin unread',
                      [req |-> x, data |-> x] \notin printed'
               PROVE  req'[jobid'[x]] = x /\ data'[jobid'[x]] = x
    BY <1>1, Zenon DEF AcceptedKept, TypeOK
  <2> QED  BY DEF IInv, Reissue, Spooling, AcceptedKept
<1>6. Places' /\ Named'
  BY DEF IInv, Places, Named
<1>7. Sending' /\ PrintsOwn'
  BY Zenon DEF IInv, Sending, PrintsOwn
<1> QED
  BY <1>0, <1>1, <1>2, <1>3, <1>4, <1>5, <1>6, <1>7, Zenon DEF IInv

\* The client is told: its request and its data are on disk.
LEMMA RespondKeeps ==
  ASSUME IInv, NEW c \in Clients, Respond(c)
  PROVE  IInv'
<1>0. Numbers' /\ Distinct' /\ Reissue' /\ Unique' /\ Scanned' /\ Named' /\ Held'
  BY Zenon, ClientSame DEF Respond, Client, Working
<1> USE PrintdAssumption DEF Respond, CGoto, Client, bounds, Clash, Absent, Working, Holding, NoJob,
      Jobs, NULL, Part
<1>1. TypeOK'
  BY Zenon DEF IInv, TypeOK
<1>2. Places'
  BY Domains, SMT, Z3 DEF IInv, Places
<1>3. AcceptedKept'
  <2> SUFFICES ASSUME NEW x \in Clients, x \in accepted', x \notin reissued', x \notin unread',
                      [req |-> x, data |-> x] \notin printed'
               PROVE  req'[jobid'[x]] = x /\ data'[jobid'[x]] = x
    BY <1>1, ZenonT(30) DEF AcceptedKept, TypeOK
  <2> QED  BY DEF IInv, TypeOK, Places, Spooling, AcceptedKept
<1>4. Spooling' /\ OnDisk' /\ Sending' /\ PrintsOwn'
  BY DEF IInv, Spooling, OnDisk, Sending, PrintsOwn
<1> QED
  BY <1>0, <1>1, <1>2, <1>3, <1>4, Zenon DEF IInv

\* add_job: what is queued has its request on disk and was not queued before.
LEMMA AddJobKeeps ==
  ASSUME IInv, NEW c \in Clients, AddJob(c)
  PROVE  IInv'
<1> USE PrintdAssumption DEF AddJob, CGoto, Client, bounds, Enqueue, Clash, Absent, Working,
      Holding, NoJob, Jobs, NULL, Part
<1>1. TypeOK'
  BY DEF IInv, TypeOK, Places
<1>2. Numbers'
  BY ZenonT(30) DEF IInv, TypeOK, Numbers, Idle
<1>3. Held'
  <2>1. Grown(jobid[c], c)
    BY Enqueued, Zenon, Domains DEF IInv, Places
  <2>2. Clash(jobid[c]) \/ req[jobid[c]] = c
    BY Zenon, Domains DEF IInv, Reissue, Spooling
  <2>3. \A k : Clash(k)' <=> Clash(k)
    BY Zenon
  <2> HIDE DEF Clash, Enqueue
  <2> QED  BY <2>1, <2>2, <2>3, SMT, Z3 DEF IInv, Held, Grown
<1>4. Unique'
  <2>1. Grown(jobid[c], c)
    BY Enqueued, Zenon DEF IInv, TypeOK, Places
  <2>2. Clash(jobid[c]) \/ Absent(jobid[c])
    BY Zenon, Domains DEF IInv, Reissue, Spooling
  <2>3. \A k : Clash(k)' <=> Clash(k)
    OBVIOUS
  <2> HIDE DEF Clash, Enqueue
  <2> QED  BY <2>1, <2>2, <2>3 DEF IInv, Unique, Grown
<1>5. Scanned'
  BY Zenon DEF IInv, TypeOK, Places, Scanned
<1>6. Spooling'
  BY Domains, SMT, Z3 DEF IInv, Places, Distinct, Spooling
<1>7. Places' /\ Distinct' /\ Reissue' /\ Named'
  BY DEF IInv, Places, Distinct, Reissue, Named
<1>8. OnDisk' /\ Sending' /\ AcceptedKept' /\ PrintsOwn'
  BY Zenon DEF IInv, OnDisk, Sending, AcceptedKept, PrintsOwn
<1> QED
  BY <1>1, <1>2, <1>3, <1>4, <1>5, <1>6, <1>7, <1>8, Zenon DEF IInv

\* add_job's signal moves nothing but the printer thread.
LEMMA SignalJobKeeps ==
  ASSUME IInv, NEW c \in Clients, SignalJob(c)
  PROVE  IInv'
<1>0. Numbers' /\ Distinct' /\ Reissue' /\ Unique' /\ Scanned' /\ Named' /\ Held'
  BY Zenon, ClientSame DEF SignalJob, Client, Working
<1> USE PrintdAssumption DEF SignalJob, CGoto, Client, bounds, CondSignal, Clash, Absent, Working,
      Holding, NoJob, Jobs, NULL, Part
<1>1. TypeOK'
  BY Zenon DEF IInv, TypeOK
<1>2. Places'
  BY SMT, Z3 DEF IInv, Places
<1>3. Spooling'
  BY DEF IInv, Spooling
<1>4. OnDisk' /\ Sending' /\ AcceptedKept' /\ PrintsOwn'
  BY Zenon DEF IInv, OnDisk, Sending, AcceptedKept, PrintsOwn
<1> QED
  BY <1>0, <1>1, <1>2, <1>3, <1>4, Zenon DEF IInv

\* A client's thread that fails goes on to unlink what it has made.
LEMMA SpoolFailsKeeps ==
  ASSUME IInv, NEW c \in Clients, NEW from, NEW to, CGoto(c, from, to),
         <<from, to>> \in {<<"creat", "gone">>, <<"fill", "undata">>, <<"ctl", "undata">>,
                          <<"write", "unreq">>},
         UNCHANGED <<data, req, nextjob, jobs, jobid, ppc, accepted, reissued>>, Client
  PROVE  IInv'
<1>0. Numbers' /\ Distinct' /\ Reissue' /\ Unique' /\ Scanned' /\ Named' /\ Held'
  BY Zenon, ClientSame DEF Client, Working
<1> USE PrintdAssumption DEF CGoto, Client, bounds, Clash, Absent, Working, Holding, NoJob, Jobs,
      NULL, Part
<1>1. TypeOK'
  BY ZenonT(30) DEF IInv, TypeOK
<1>2. Places'
  BY DEF IInv, Places
<1>3. Spooling'
  BY DEF IInv, Spooling
<1>4. OnDisk' /\ Sending' /\ AcceptedKept' /\ PrintsOwn'
  BY Zenon DEF IInv, OnDisk, Sending, AcceptedKept, PrintsOwn
<1> QED
  BY <1>0, <1>1, <1>2, <1>3, <1>4, Zenon DEF IInv

\* The request that could not be written is unlinked; its client was not accepted.
LEMMA UnlinkSpooledRequestKeeps ==
  ASSUME IInv, NEW c \in Clients, CGoto(c, "unreq", "undata"),
         req' = [req EXCEPT ![jobid[c]] = NULL],
         UNCHANGED <<data, nextjob, jobs, jobid, ppc, accepted, reissued>>, Client
  PROVE  IInv'
<1>0. Numbers' /\ Distinct' /\ Reissue' /\ Unique' /\ Scanned'
  BY Zenon, ClientSame DEF Client, Working
<1> USE PrintdAssumption DEF CGoto, Client, bounds, Clash, Absent, Working, Holding, NoJob, Jobs,
      NULL, Part
<1>1. TypeOK'
  BY Zenon DEF IInv, TypeOK, Places
<1>2. Held'
  BY SMT, Z3 DEF IInv, Reissue, Held, Spooling
<1>3. Spooling'
  BY SMT, Z3 DEF IInv, TypeOK, Places, Distinct, Spooling
<1>4. AcceptedKept'
  <2> SUFFICES ASSUME NEW x \in Clients, x \in accepted', x \notin reissued', x \notin unread',
                      [req |-> x, data |-> x] \notin printed'
               PROVE  req'[jobid'[x]] = x /\ data'[jobid'[x]] = x
    BY <1>1, Zenon DEF AcceptedKept, TypeOK
  <2> QED  BY DEF IInv, Reissue, Spooling, AcceptedKept
<1>5. Places'
  BY Domains, SMT, Z3 DEF IInv, Places
<1>6. Named'
  BY DEF IInv, Named
<1>7. OnDisk' /\ Sending' /\ PrintsOwn'
  BY DEF IInv, OnDisk, Sending, PrintsOwn
<1> QED
  BY <1>0, <1>1, <1>2, <1>3, <1>4, <1>5, <1>6, <1>7, Zenon DEF IInv

\* So is its data file, beside which there is no request.
LEMMA UnlinkSpooledDataKeeps ==
  ASSUME IInv, NEW c \in Clients, CGoto(c, "undata", "gone"),
         data' = [data EXCEPT ![jobid[c]] = NULL],
         UNCHANGED <<req, nextjob, jobs, jobid, ppc, accepted, reissued>>, Client
  PROVE  IInv'
<1>0. Numbers' /\ Distinct' /\ Reissue' /\ Unique' /\ Scanned' /\ Named' /\ Held'
  BY Zenon, ClientSame DEF Client, Working
<1> USE PrintdAssumption DEF CGoto, Client, bounds, Clash, Absent, Working, Holding, NoJob, Jobs,
      NULL, Part
<1>1. TypeOK'
  BY Zenon DEF IInv, TypeOK, Places
<1>2. Spooling'
  BY Domains, SMT, Z3 DEF IInv, Places, Distinct, Spooling
<1>3. OnDisk'
  BY SMT, Z3 DEF IInv, Reissue, Named, Spooling, OnDisk
<1>4. Sending'
  BY DEF IInv, TypeOK, Places, Reissue, Named, Held, Spooling, Sending
<1>5. AcceptedKept'
  <2> SUFFICES ASSUME NEW x \in Clients, x \in accepted', x \notin reissued', x \notin unread',
                      [req |-> x, data |-> x] \notin printed'
               PROVE  req'[jobid'[x]] = x /\ data'[jobid'[x]] = x
    BY <1>1, Zenon DEF AcceptedKept, TypeOK
  <2> QED  BY DEF IInv, Reissue, Spooling, AcceptedKept
<1>6. Places'
  BY DEF IInv, Places
<1>7. PrintsOwn'
  BY Zenon DEF IInv, PrintsOwn
<1> QED
  BY <1>0, <1>1, <1>2, <1>3, <1>4, <1>5, <1>6, <1>7, Zenon DEF IInv

-----------------------------------------------------------------------------
(* printer_thread *)

\* The printer thread waits.
LEMMA WaitKeeps ==
  ASSUME IInv, Wait
  PROVE  IInv'
<1> USE PrintdAssumption DEF Wait, PGoto, Printer, Clash, Absent, Working, Holding, NoJob, Jobs,
      NULL, Part
<1>1. TypeOK'
  BY Zenon DEF IInv, TypeOK
<1>2. Numbers' /\ Places'
  BY Zenon DEF IInv, Numbers, Places, Idle
<1>3. Sending'
  BY Zenon DEF IInv, Sending
<1> QED
  BY Zenon, <1>1, <1>2, <1>3, QuietKeeps DEF Wait, Printer, history

\* It may wake up without a signal.
LEMMA WakeUpKeeps ==
  ASSUME IInv, WakeUp
  PROVE  IInv'
<1> USE PrintdAssumption DEF WakeUp, PGoto, Printer, Clash, Absent, Working, Holding, NoJob, Jobs,
      NULL, Part
<1>1. TypeOK'
  BY Zenon DEF IInv, TypeOK
<1>2. Numbers' /\ Places'
  BY Zenon DEF IInv, Numbers, Places, Idle
<1>3. Sending'
  BY Zenon DEF IInv, Sending
<1> QED
  BY Zenon, <1>1, <1>2, <1>3, QuietKeeps DEF WakeUp, Printer, history

\* remove_job: the job moves from the queue to the printer thread.
LEMMA remove_jobKeeps ==
  ASSUME IInv, remove_job
  PROVE  IInv'
<1> USE PrintdAssumption DEF remove_job, PGoto, Printer, Clash, Absent, Working, Holding, NoJob,
      Jobs, NULL, Part
<1>1. TypeOK'
  <2> QED  BY HeadTaken, Zenon DEF IInv, TypeOK
<1>2. Places'
  BY SMT, Z3 DEF IInv, TypeOK, Places
<1>3. Named'
  BY SMT, Z3 DEF IInv, TypeOK, Named
<1>4. Held'
  BY DEF IInv, TypeOK, Held
<1>5. Unique'
  <2>1. /\ 1 \in DOMAIN jobs
        /\ \A n \in DOMAIN jobs' : n \in Nat /\ n + 1 \in DOMAIN jobs /\ n + 1 # 1 /\ jobs'[n] = jobs[n + 1]
    BY HeadTaken DEF IInv
  <2>2. ASSUME NEW m \in DOMAIN jobs', NEW n \in DOMAIN jobs', jobs'[m].jobid = jobs'[n].jobid
        PROVE  m = n \/ Clash(jobs[n].jobid)'
    <3>1. m + 1 = n + 1 \/ Clash(jobs[n + 1].jobid)
      BY <2>1, <2>2 DEF IInv, Unique
    <3> QED  BY <2>1, <3>1
  <2>3. ASSUME NEW n \in DOMAIN jobs', jobs'[n].jobid = jp'.jobid
        PROVE  Clash(jp.jobid)'
    <3>0. jobs[n + 1].jobid = jobs[1].jobid /\ n + 1 \in DOMAIN jobs /\ 1 \in DOMAIN jobs
      BY Zenon, HeadTaken, <2>1, <2>3 DEF IInv
    <3>1. n + 1 = 1 \/ Clash(jobs[1].jobid)
      BY Zenon, <3>0 DEF IInv, Unique
    <3> QED  BY HeadTaken, <2>1, <3>1 DEF IInv
  <2> QED  BY <2>2, <2>3, Zenon DEF Unique
<1>6. Spooling'
  BY DEF IInv, TypeOK, Spooling
<1>7. AcceptedKept'
  <2> SUFFICES ASSUME NEW x \in Clients, x \in accepted', x \notin reissued', x \notin unread',
                      [req |-> x, data |-> x] \notin printed'
               PROVE  req'[jobid'[x]] = x /\ data'[jobid'[x]] = x
    BY <1>1, Zenon DEF AcceptedKept, TypeOK
  <2> QED  BY DEF IInv, AcceptedKept
<1>8. Numbers' /\ Distinct' /\ Reissue'
  BY Zenon DEF IInv, Numbers, Distinct, Reissue, Idle
<1>9. Scanned'
  BY HeadTaken, Entries DEF IInv, Scanned
<1>10. OnDisk' /\ Sending' /\ PrintsOwn'
  BY Zenon DEF IInv, OnDisk, Sending, PrintsOwn
<1> QED
  BY <1>1, <1>2, <1>3, <1>4, <1>5, <1>6, <1>7, <1>8, <1>9, <1>10, Zenon DEF IInv

\* update_jobno: the number written leaves room for as many clients as nextjob does.
LEMMA update_jobnoKeeps ==
  ASSUME IInv, update_jobno
  PROVE  IInv'
<1> USE PrintdAssumption DEF update_jobno, PGoto, Printer, Clash, Absent, Working, Holding, NoJob,
      Jobs, NULL, Part
<1>1. TypeOK'
  BY DEF IInv, TypeOK
<1>2. Numbers' /\ Places'
  BY Zenon DEF IInv, Numbers, Places, Idle
<1>3. Sending'
  BY Zenon DEF IInv, Sending
<1> QED
  BY Zenon, <1>1, <1>2, <1>3, QuietKeeps DEF update_jobno, Printer, history

\* The configuration is read again, or not.
LEMMA ConfigKeeps ==
  ASSUME IInv, Config
  PROVE  IInv'
<1> USE PrintdAssumption DEF Config, PGoto, Printer, Clash, Absent, Working, Holding, NoJob, Jobs,
      NULL, Part
<1>1. TypeOK'
  BY Zenon DEF IInv, TypeOK
<1>2. Numbers' /\ Places'
  BY Zenon DEF IInv, Numbers, Places, Idle
<1>3. Sending'
  BY Zenon DEF IInv, Sending
<1> QED
  BY Zenon, <1>1, <1>2, <1>3, QuietKeeps DEF Config, Printer, history

\* A data file that is there when opened is the client's, and whole: the request is on disk.
LEMMA OpenKeeps ==
  ASSUME IInv, Open
  PROVE  IInv'
<1> USE PrintdAssumption DEF Open, PGoto, Printer, Clash, Absent, Working, Holding, NoJob, Jobs,
      NULL, Part
<1>1. TypeOK'
  BY Zenon DEF IInv, TypeOK
<1>2. Sending'
  BY Zenon DEF IInv, TypeOK, Places, Named, Held, OnDisk, Sending
<1>3. Numbers' /\ Places'
  BY Zenon DEF IInv, Numbers, Places, Idle
<1> QED
  BY Zenon, <1>1, <1>2, <1>3, QuietKeeps DEF Open, Printer, history

\* A job that is dropped stays on disk.
LEMMA CancelKeeps ==
  ASSUME IInv, Cancel
  PROVE  IInv'
<1> USE PrintdAssumption DEF Cancel, PGoto, Printer, Clash, Absent, Working, Holding, NoJob, Jobs,
      NULL, Part
<1>1. TypeOK'
  BY ZenonT(30) DEF IInv, TypeOK
<1>2. Unique'
  BY Entries DEF IInv, Unique
<1>3. Scanned'
  BY SMT, Z3 DEF IInv, TypeOK, Scanned
<1>4. Spooling'
  BY DEF IInv, TypeOK, Places, Spooling
<1>5. Numbers' /\ Places' /\ Distinct'
  BY Zenon DEF IInv, Numbers, Places, Distinct, Idle
<1>6. Reissue' /\ Named' /\ Held'
  BY Zenon DEF IInv, Reissue, Named, Held
<1>7. OnDisk' /\ Sending' /\ AcceptedKept' /\ PrintsOwn'
  BY Zenon DEF IInv, OnDisk, Sending, AcceptedKept, PrintsOwn
<1> QED
  BY <1>1, <1>2, <1>3, <1>4, <1>5, <1>6, <1>7, Zenon DEF IInv

\* What is sent is the client's own file.
LEMMA SendKeeps ==
  ASSUME IInv, Send
  PROVE  IInv'
<1>0. Distinct' /\ Reissue' /\ Named' /\ Held' /\ Unique' /\ Scanned'
  BY Zenon, QueueSame DEF Send, Printer
<1> USE PrintdAssumption DEF Send, PGoto, Printer, Clash, Absent, Working, Holding, NoJob, Jobs,
      NULL, Part
<1>1. TypeOK'
  BY Zenon DEF IInv, TypeOK
<1>2. PrintsOwn'
  BY DEF IInv, TypeOK, Places, Sending, PrintsOwn
<1>3. Numbers' /\ Places'
  BY Zenon DEF IInv, Numbers, Places, Idle
<1>4. Spooling' /\ OnDisk' /\ Sending' /\ AcceptedKept'
  BY ZenonT(30) DEF IInv, Spooling, OnDisk, Sending, AcceptedKept
<1> QED
  BY <1>0, <1>1, <1>2, <1>3, <1>4, Zenon DEF IInv

\* The data is unlinked once it is printed.
LEMMA UnlinkDataKeeps ==
  ASSUME IInv, UnlinkData
  PROVE  IInv'
<1>0. Distinct' /\ Reissue' /\ Named' /\ Held' /\ Unique' /\ Scanned'
  BY Zenon, QueueSame DEF UnlinkData, Printer
<1> USE PrintdAssumption DEF UnlinkData, PGoto, Printer, Clash, Absent, Working, Holding, NoJob,
      Jobs, NULL, Part
<1>1. TypeOK'
  BY Zenon DEF IInv, TypeOK, Places
<1>2. OnDisk'
  BY SMT, Z3 DEF IInv, Named, Held, OnDisk, Sending
<1>3. AcceptedKept'
  <2> SUFFICES ASSUME NEW x \in Clients, x \in accepted', x \notin reissued', x \notin unread',
                      [req |-> x, data |-> x] \notin printed'
               PROVE  req'[jobid'[x]] = x /\ data'[jobid'[x]] = x
    BY <1>1, Zenon DEF AcceptedKept, TypeOK
  <2> QED  BY DEF IInv, Places, Held, Sending, AcceptedKept
<1>4. Numbers' /\ Places'
  BY Zenon DEF IInv, Numbers, Places, Idle
<1>5. Spooling' /\ Sending' /\ PrintsOwn'
  BY DEF IInv, Spooling, Sending, PrintsOwn
<1> QED
  BY <1>0, <1>1, <1>2, <1>3, <1>4, <1>5, Zenon DEF IInv

\* replace_job: the deferred job moves from the printer thread back to the queue.
LEMMA replace_jobKeeps ==
  ASSUME IInv, NEW from \in {"send", "status"}, PGoto(from, "get"),
         jobs' = <<jp>> \o jobs, jp' = NoJob, UNCHANGED <<jobfile, data, printed, cancels>>, Printer
  PROVE  IInv'
<1> USE PrintdAssumption DEF PGoto, Printer, Clash, Absent, Working, Holding, NoJob, Jobs, NULL,
      Part
<1>1. TypeOK'
  BY DEF IInv, TypeOK, Places
<1>2. Named'
  BY SMT, Z3 DEF IInv, TypeOK, Places, Named
<1>3. Held'
  BY SMT, Z3 DEF IInv, TypeOK, Places, Held
<1>4. Unique'
  <2>1. ASSUME NEW m \in DOMAIN jobs', NEW n \in DOMAIN jobs', jobs'[m].jobid = jobs'[n].jobid
        PROVE  m = n \/ Clash(jobs[n].jobid)'
    <3>1. CASE m = 1 \/ n = 1
      BY PutBack, <2>1, <3>1, SMT, Z3 DEF IInv, Unique
    <3>2. CASE m # 1 /\ n # 1
      <4>1. m - 1 = n - 1 \/ Clash(jobs[n - 1].jobid)
        BY PutBack, <2>1, <3>2, SMT, Z3 DEF IInv, Places, Unique
      <4> QED  BY PutBack, <3>2, <4>1, SMT, Z3 DEF IInv, Places
    <3> QED  BY <3>1, <3>2, SMT, Z3
  <2>2. \A n \in DOMAIN jobs' : jobs'[n].jobid # jp'.jobid
    <3>1. \A n \in DOMAIN jobs : jobs[n].jobid # 0
      BY Zenon, Entries DEF IInv
    <3>2. jp.jobid # 0
      BY Zenon, Entries DEF IInv, Places
    <3> QED  BY PutBack, <3>1, <3>2 DEF IInv
  <2> QED  BY <2>1, <2>2, Zenon DEF Unique
<1>5. Scanned'
  <2>1. 0 \notin Jobs
    BY Zenon, Entries DEF IInv
  <2> QED  BY PutBack, <2>1, SMT, Z3 DEF IInv, TypeOK, Scanned
<1>6. Spooling'
  BY DEF IInv, TypeOK, Places, Spooling
<1>7. Numbers' /\ Places' /\ Distinct' /\ Reissue'
  BY Zenon DEF IInv, Numbers, Places, Distinct, Reissue, Idle
<1>8. OnDisk' /\ Sending' /\ AcceptedKept' /\ PrintsOwn'
  BY Zenon DEF IInv, OnDisk, Sending, AcceptedKept, PrintsOwn
<1> QED
  BY <1>1, <1>2, <1>3, <1>4, <1>5, <1>6, <1>7, <1>8, Zenon DEF IInv

\* The request is unlinked once the job is printed, and no other entry has its number.
LEMMA UnlinkRequestKeeps ==
  ASSUME IInv, UnlinkRequest
  PROVE  IInv'
<1> USE PrintdAssumption DEF UnlinkRequest, PGoto, Printer, history, bounds, Clash, Absent, Working,
      Holding, NoJob, Jobs, NULL, Part
<1>1. TypeOK'
  BY Zenon DEF IInv, TypeOK, Places
<1>2. Held'
  BY SMT, Z3 DEF IInv, TypeOK, Places, Held, Unique
<1>3. Unique'
  BY Entries, SMT, Z3 DEF IInv, Unique
<1>4. Scanned'
  BY SMT, Z3 DEF IInv, TypeOK, Scanned
<1>5. Spooling'
  BY SMT, Z3 DEF IInv, TypeOK, Places, Spooling
<1>6. AcceptedKept'
  <2> SUFFICES ASSUME NEW x \in Clients, x \in accepted', x \notin reissued', x \notin unread',
                      [req |-> x, data |-> x] \notin printed'
               PROVE  req'[jobid'[x]] = x /\ data'[jobid'[x]] = x
    BY <1>1, Zenon DEF AcceptedKept, TypeOK
  <2> QED  BY DEF IInv, Places, Held, Sending, AcceptedKept
<1>7. Numbers' /\ Places' /\ Distinct' /\ Reissue'
  BY SMT, Z3 DEF IInv, Numbers, Places, Distinct, Reissue, Idle
<1>8. Named' /\ OnDisk' /\ Sending' /\ PrintsOwn'
  BY DEF IInv, Named, OnDisk, Sending, PrintsOwn
<1> QED
  BY <1>1, <1>2, <1>3, <1>4, <1>5, <1>6, <1>7, <1>8, Zenon DEF IInv

-----------------------------------------------------------------------------
(* The main thread *)

\* build_qonstart queues a whole request, which no client and no earlier entry has queued.
LEMMA EntryQueuedKeeps ==
  ASSUME IInv, NEW j \in todo, todo' = todo \ {j}, req[j] \in Clients,
         MGoto("scan", "signal"), Enqueue(j, req[j]),
         UNCHANGED <<req, mjob, data, ppc, unread, cancels>>, Main
  PROVE  IInv'
<1> USE PrintdAssumption DEF MGoto, Main, Enqueue, Clash, Absent, Working, Holding, NoJob, Jobs,
      NULL, Part
<1>1. TypeOK'
  BY SMT, Z3 DEF IInv, TypeOK
<1>2. Named'
  BY SMT, Z3 DEF IInv, TypeOK, Named
<1>3. Unique'
  <2>1. Grown(j, req[j])
    BY Zenon, Enqueued DEF IInv, TypeOK, Places
  <2>2. Absent(j)
    BY Zenon DEF IInv, Scanned
  <2>3. \A k : Clash(k)' <=> Clash(k)
    BY Zenon
  <2> HIDE DEF Clash, Enqueue
  <2> QED  BY <2>1, <2>2, <2>3 DEF IInv, Unique, Grown
<1>4. Scanned'
  <2>1. Grown(j, req[j])
    BY Enqueued, SMT, Z3 DEF IInv, TypeOK, Places
  <2>2. ASSUME NEW k \in todo, k # j
        PROVE  jp'.jobid # k /\ \A n \in DOMAIN jobs' : jobs'[n].jobid # k
    <3>1. jp.jobid # k /\ \A n \in DOMAIN jobs : jobs[n].jobid # k
      BY Zenon DEF IInv, Scanned
    <3> HIDE DEF Enqueue
    <3> QED  BY <2>1, <2>2, <3>1 DEF Grown
  <2> QED  BY <2>2, SMT, Z3 DEF Scanned
<1>5. Spooling'
  BY Zenon DEF IInv, TypeOK, Places, Spooling
<1>6. Numbers' /\ Places' /\ Distinct'
  BY Zenon DEF IInv, Numbers, Places, Distinct, Idle
<1>7. Reissue' /\ Held' /\ OnDisk'
  BY DEF IInv, Reissue, Held, OnDisk
<1>8. Sending' /\ AcceptedKept' /\ PrintsOwn'
  BY Zenon DEF IInv, Sending, AcceptedKept, PrintsOwn
<1> QED
  BY <1>1, <1>2, <1>3, <1>4, <1>5, <1>6, <1>7, <1>8, ZenonT(30) DEF IInv

\* build_qonstart passes over a request that it cannot open.
LEMMA EntryPassedKeeps ==
  ASSUME IInv, NEW j \in todo, todo' = todo \ {j}, MGoto("scan", "scan"),
         UNCHANGED <<req, mjob, unread, data, jobs, ppc>>, Main
  PROVE  IInv'
<1> USE PrintdAssumption DEF MGoto, Main, Clash, Absent, Working, Holding, NoJob, Jobs, NULL, Part
<1>1. TypeOK'
  BY Zenon DEF IInv, TypeOK
<1>2. Numbers' /\ Places'
  BY Zenon DEF IInv, Numbers, Places, Idle
<1>3. Sending'
  BY Zenon DEF IInv, Sending
<1> QED
  BY Zenon, <1>1, <1>2, <1>3, QuietKeeps DEF Main, history

\* build_qonstart unlinks a request that is not whole, or that it cannot read.
LEMMA EntryUnlinkedKeeps ==
  ASSUME IInv, NEW j \in todo, todo' = todo \ {j}, MGoto("scan", "unlink"),
         req' = [req EXCEPT ![j] = NULL], mjob' = j,
         req[j] \in Clients => unread' = unread \cup {req[j]},
         req[j] \notin Clients => unread' = unread,
         UNCHANGED <<data, jobs, ppc>>, Main
  PROVE  IInv'
<1> USE PrintdAssumption DEF MGoto, Main, Clash, Absent, Working, Holding, NoJob, Jobs, NULL, Part
<1>1. TypeOK'
  BY Zenon DEF IInv, TypeOK
<1>2. Places'
  BY ZenonT(30) DEF IInv, TypeOK, Places
<1>3. Held'
  BY SMT, Z3 DEF IInv, TypeOK, Places, Held, Scanned
<1>4. Spooling'
  BY SMT, Z3 DEF IInv, TypeOK, Places, Spooling
<1>5. AcceptedKept'
  <2> SUFFICES ASSUME NEW x \in Clients, x \in accepted', x \notin reissued', x \notin unread',
                      [req |-> x, data |-> x] \notin printed'
               PROVE  req'[jobid'[x]] = x /\ data'[jobid'[x]] = x
    BY <1>1, Zenon DEF AcceptedKept, TypeOK
  <2> QED  BY SMT, Z3 DEF IInv, AcceptedKept
<1>6. Numbers' /\ Distinct' /\ Reissue'
  BY Zenon DEF IInv, Numbers, Distinct, Reissue, Idle
<1>7. Named' /\ Unique' /\ Scanned'
  BY SMT, Z3 DEF IInv, Named, Unique, Scanned
<1>8. OnDisk' /\ Sending' /\ PrintsOwn'
  BY DEF IInv, OnDisk, Sending, PrintsOwn
<1> QED
  BY <1>1, <1>2, <1>3, <1>4, <1>5, <1>6, <1>7, <1>8, Zenon DEF IInv

\* Its data file follows; the number has no request by then.
LEMMA UnlinkBadKeeps ==
  ASSUME IInv, UnlinkBad
  PROVE  IInv'
<1>0. Distinct' /\ Reissue' /\ Named' /\ Held' /\ Unique' /\ Scanned'
  BY Zenon, QueueSame DEF UnlinkBad, Main
<1> USE PrintdAssumption DEF UnlinkBad, MGoto, Main, Clash, Absent, Working, Holding, NoJob, Jobs,
      NULL, Part
<1>1. TypeOK'
  BY Zenon DEF IInv, TypeOK, Places
<1>2. Spooling'
  BY DEF IInv, TypeOK, Places, Spooling
<1>3. OnDisk'
  BY Zenon DEF IInv, TypeOK, Places, OnDisk
<1>4. Sending'
  BY SMT, Z3 DEF IInv, TypeOK, Places, Named, Held, Sending
<1>5. AcceptedKept'
  <2> SUFFICES ASSUME NEW x \in Clients, x \in accepted', x \notin reissued', x \notin unread',
                      [req |-> x, data |-> x] \notin printed'
               PROVE  req'[jobid'[x]] = x /\ data'[jobid'[x]] = x
    BY <1>1, Zenon DEF AcceptedKept, TypeOK
  <2> QED  BY DEF IInv, TypeOK, Places, AcceptedKept
<1>6. Numbers' /\ Places'
  BY Zenon DEF IInv, Numbers, Places, Idle
<1>7. PrintsOwn'
  BY Zenon DEF IInv, PrintsOwn
<1> QED
  BY <1>0, <1>1, <1>2, <1>3, <1>4, <1>5, <1>6, <1>7, Zenon DEF IInv

\* The scan is over.
LEMMA AcceptingKeeps ==
  ASSUME IInv, Accepting
  PROVE  IInv'
<1> USE PrintdAssumption DEF Accepting, MGoto, Main, Clash, Absent, Working, Holding, NoJob, Jobs,
      NULL, Part
<1>1. TypeOK'
  BY Zenon DEF IInv, TypeOK
<1>2. Numbers' /\ Places'
  BY Zenon DEF IInv, Numbers, Places, Idle
<1>3. Sending'
  BY Zenon DEF IInv, Sending
<1> QED
  BY Zenon, <1>1, <1>2, <1>3, QuietKeeps DEF Accepting, Main, history

\* build_qonstart's signal moves nothing but the printer thread.
LEMMA SignalEntryKeeps ==
  ASSUME IInv, SignalEntry
  PROVE  IInv'
<1> USE PrintdAssumption DEF SignalEntry, MGoto, Main, CondSignal, Clash, Absent, Working, Holding,
      NoJob, Jobs, NULL, Part
<1>1. TypeOK'
  BY Zenon DEF IInv, TypeOK
<1>2. Numbers' /\ Places'
  BY Zenon DEF IInv, Numbers, Places, Idle
<1>3. Sending'
  BY Zenon DEF IInv, Sending
<1> QED
  BY Zenon, <1>1, <1>2, <1>3, QuietKeeps DEF SignalEntry, Main, history

-----------------------------------------------------------------------------
(* The end of the daemon and its next start *)

\* The daemon ends: the queue is lost, the directory is not. No number clashes until the job file
\* is read again, but neither is one in use.
LEMMA DownKeeps ==
  ASSUME IInv, up, Down
  PROVE  IInv'
<1> USE PrintdAssumption DEF Down, disk, history, Clash, Absent, Working, Holding, NoJob, Jobs,
      NULL, Part
<1>1. TypeOK'
  <2>1. Cardinality(Clients) \in Nat
    BY Zenon DEF IInv, Numbers
  <2>2. cpc' \in [Clients -> {"idle", "creat", "fill", "ctl", "write", "unreq", "undata", "respond",
                              "add", "signal", "done", "gone"}]
    BY Zenon DEF IInv, TypeOK
  <2>3. jobs' \in Seq([jobid : Jobs, req : Clients])
    OBVIOUS
  <2>4. /\ jp' = NoJob /\ nextjob' = 1 /\ up' \in BOOLEAN /\ ~up' /\ todo' \subseteq Jobs
    BY Zenon
  <2>5. /\ jobfile' = jobfile /\ data' = data /\ req' = req /\ jobid' = jobid
        /\ accepted' = accepted /\ reissued' = reissued /\ unread' = unread
        /\ mpc' = "scan" /\ mjob' = 0 /\ ppc' = "get"
    BY Zenon
  <2> HIDE DEF Down, NoJob
  <2> QED  BY <2>1, <2>2, <2>3, <2>5, <2>4 DEF IInv, TypeOK
<1>2. Numbers'
  <2>1. Idle' = Idle
    BY Zenon DEF IInv, TypeOK, Idle
  <2> QED  BY <2>1 DEF IInv, TypeOK, Numbers
<1>3. Places'
  BY Zenon DEF IInv, TypeOK, Places
<1>4. Reissue'
  BY Zenon DEF IInv, TypeOK, Reissue
<1>5. Distinct' /\ Named' /\ Held'
  BY SMT, Z3 DEF IInv, Distinct, Named, Held
<1>6. Scanned' /\ Spooling'
  BY SMT, Z3 DEF IInv, Scanned, Spooling
<1>7. OnDisk' /\ Sending' /\ AcceptedKept' /\ PrintsOwn'
  BY Zenon DEF IInv, OnDisk, Sending, AcceptedKept, PrintsOwn
<1>8. Unique'
  BY SMT, Z3 DEF IInv, Unique
<1> QED
  BY <1>1, <1>2, <1>3, <1>4, <1>5, <1>6, <1>7, <1>8, Zenon DEF IInv

\* The daemon starts from the number in the job file and the requests on disk.
LEMMA StartKeeps ==
  ASSUME IInv, Start
  PROVE  IInv'
<1> USE PrintdAssumption DEF Start, disk, history, bounds, Clash, Absent, Working, Holding, NoJob,
      Jobs, NULL, Part
<1>1. TypeOK'
  BY DEF IInv, TypeOK, Numbers
<1>2. Numbers'
  <2>1. Idle' = Idle
    BY Zenon DEF IInv, TypeOK, Idle
  <2> QED  BY <2>1 DEF IInv, TypeOK, Numbers
<1>3. Reissue'
  BY Zenon DEF IInv, TypeOK, Places, Reissue
<1>4. Held'
  BY SMT, Z3 DEF IInv, TypeOK, Places, Held
<1>5. Unique'
  BY SMT, Z3 DEF IInv, TypeOK, Places, Unique
<1>6. Scanned'
  BY DEF IInv, TypeOK, Places, Scanned
<1>7. Places' /\ Distinct' /\ Named' /\ Spooling'
  BY Zenon DEF IInv, Places, Distinct, Named, Spooling
<1>8. OnDisk' /\ Sending' /\ AcceptedKept' /\ PrintsOwn'
  BY Zenon DEF IInv, OnDisk, Sending, AcceptedKept, PrintsOwn
<1> QED
  BY <1>1, <1>2, <1>3, <1>4, <1>5, <1>6, <1>7, <1>8, Zenon DEF IInv

-----------------------------------------------------------------------------
(* Counting the clients *)

\* get_newjobno has a number left, because its caller is one of the clients yet to come,
\* and leaves one for each of the others.
LEMMA NumberLeft ==
  ASSUME IInv, NEW c \in Clients, get_newjobno(c)
  PROVE  nextjob \in Jobs /\ Numbers'
<1>1. c \in Idle /\ Idle' = Idle \ {c}
  BY Zenon DEF IInv, TypeOK, Idle, get_newjobno, CGoto
<1>2. IsFiniteSet(Idle)
  BY Zenon, PrintdAssumption, FS_Subset DEF Idle
<1>3. Cardinality(Idle') = Cardinality(Idle) - 1
  BY <1>1, <1>2, FS_RemoveElement, Zenon
<1>4. Cardinality(Idle) \in Nat
  BY <1>2, FS_CardinalityType, Zenon
<1>5. Cardinality(Idle') \in Nat
  BY <1>1, <1>2, FS_CardinalityType, FS_RemoveElement, Zenon
<1>6. jobfile' = jobfile /\ nextjob' = nextjob + 1
  BY Zenon DEF get_newjobno, Client
<1> QED
  BY <1>3, <1>4, <1>5, <1>6, SMT, Z3 DEF IInv, TypeOK, Numbers, Jobs

-----------------------------------------------------------------------------
(* The invariant, and what follows from it *)

\* The first start: nothing is spooled and every client is yet to come.
LEMMA InitHolds == Init => IInv
<1> SUFFICES ASSUME Init PROVE IInv
  BY Zenon
<1> USE PrintdAssumption DEF Init, NULL, Part, NoJob
<1>1. Cardinality(Clients) \in Nat /\ Idle = Clients
  BY Zenon, FS_CardinalityType DEF Idle
<1>2. TypeOK
  BY <1>1 DEF TypeOK, Jobs
<1>3. Numbers
  BY <1>1 DEF Numbers
<1>4. Places /\ Distinct /\ Reissue
  BY Zenon DEF Places, Distinct, Reissue, Working, Holding
<1>5. Named /\ Held /\ Unique /\ Scanned
  BY DEF Named, Held, Unique, Scanned
<1>6. Spooling /\ OnDisk /\ Sending /\ AcceptedKept /\ PrintsOwn
  BY Zenon DEF Spooling, OnDisk, Sending, AcceptedKept, PrintsOwn, Working
<1> QED
  BY Zenon, <1>2, <1>3, <1>4, <1>5, <1>6 DEF IInv

\* Every step of a client's thread keeps the invariant.
LEMMA ClientKeeps ==
  ASSUME IInv, NEW c \in Clients, ClientStep(c) \/ SpoolFails(c)
  PROVE  IInv'
<1>1. CASE UnlinkSpooled(c)
  BY Zenon, <1>1, UnlinkSpooledRequestKeeps, UnlinkSpooledDataKeeps DEF UnlinkSpooled
<1>2. CASE SpoolFails(c)
  BY Zenon, <1>2, SpoolFailsKeeps DEF SpoolFails
<1>3. CASE get_newjobno(c) \/ CreatData(c) \/ Fill(c) \/ CreatRequest(c) \/ WriteRequest(c)
  BY <1>3, NumberLeft, get_newjobnoKeeps, CreatDataKeeps, FillKeeps, CreatRequestKeeps, WriteRequestKeeps
<1>4. CASE Respond(c) \/ AddJob(c) \/ SignalJob(c)
  BY Zenon, <1>4, RespondKeeps, AddJobKeeps, SignalJobKeeps
<1> QED
  BY Zenon, <1>1, <1>2, <1>3, <1>4 DEF ClientStep

\* So does every step of the printer thread.
LEMMA PrinterKeeps ==
  ASSUME IInv, PrinterStep \/ WakeUp \/ Send \/ replace_job \/ UnlinkData
  PROVE  IInv'
<1>1. CASE replace_job
  BY Zenon, <1>1, replace_jobKeeps DEF replace_job
<1>2. CASE Wait \/ WakeUp \/ remove_job \/ update_jobno \/ Config
  BY <1>2, WaitKeeps, WakeUpKeeps, remove_jobKeeps, update_jobnoKeeps, ConfigKeeps
<1>3. CASE Open \/ Cancel \/ Send \/ UnlinkData \/ UnlinkRequest
  BY Zenon, <1>3, OpenKeeps, CancelKeeps, SendKeeps, UnlinkDataKeeps, UnlinkRequestKeeps
<1> QED
  BY Zenon, <1>1, <1>2, <1>3 DEF PrinterStep

\* So does every step of the main thread.
LEMMA MainKeeps ==
  ASSUME IInv, MainStep \/ (\E j \in Jobs : EntryFails(j))
  PROVE  IInv'
<1>1. ASSUME NEW j \in Jobs, ReadEntry(j) PROVE IInv'
  <2>1. CASE /\ req[j] \in Clients /\ MGoto("scan", "signal") /\ Enqueue(j, req[j])
             /\ UNCHANGED <<req, mjob>>
    BY Zenon, <1>1, <2>1, EntryQueuedKeeps DEF ReadEntry
  <2>2. CASE /\ req[j] = Part /\ MGoto("scan", "unlink")
             /\ req' = [req EXCEPT ![j] = NULL] /\ mjob' = j /\ UNCHANGED jobs
    <3>1. req[j] \notin Clients
      BY Zenon, <2>2, PrintdAssumption
    <3> QED  BY <1>1, <2>2, <3>1, EntryUnlinkedKeeps, Zenon DEF ReadEntry
  <2> QED  BY <1>1, <2>1, <2>2 DEF ReadEntry
<1>2. ASSUME NEW j \in Jobs, EntryFails(j) PROVE IInv'
  BY Zenon, <1>2, EntryPassedKeeps, EntryUnlinkedKeeps DEF EntryFails
<1>3. CASE UnlinkBad \/ SignalEntry \/ Accepting
  BY <1>3, UnlinkBadKeeps, SignalEntryKeeps, AcceptingKeeps
<1> QED
  BY Zenon, <1>1, <1>2, <1>3 DEF MainStep

\* The invariant is inductive.
LEMMA StepKeeps == IInv /\ [Next]_vars => IInv'
<1> SUFFICES ASSUME IInv, [Next]_vars PROVE IInv'
  BY Zenon
<1>1. CASE Ends \/ ConfigBad
  BY Zenon, <1>1, DownKeeps DEF Ends, ConfigBad
<1>2. CASE UNCHANGED vars
  <2> USE <1>2 DEF vars, disk, threads, history, bounds, IInv
  <2>1. TypeOK' /\ Numbers' /\ Places' /\ Distinct'
    BY DEF TypeOK, Numbers, Idle, Places, Distinct
  <2>2. Reissue' /\ Named'
    BY Zenon DEF Reissue, Named, Clash
  <2>5. Held'
    BY Zenon DEF Held, Clash
  <2>6. Unique'
    <3>1. jobs' = jobs /\ jp' = jp /\ \A j : Clash(j)' = Clash(j)
      BY Zenon DEF Clash
    <3>2. Unique
      BY Zenon
    <3> QED  BY <3>1, <3>2, Zenon DEF Unique
  <2>3. Scanned' /\ Spooling' /\ OnDisk'
    BY Zenon DEF Scanned, Spooling, OnDisk, Absent
  <2>4. Sending' /\ AcceptedKept' /\ PrintsOwn'
    BY Zenon DEF Sending, AcceptedKept, PrintsOwn
  <2> QED  BY <2>1, <2>2, <2>3, <2>4, <2>5, <2>6, Zenon
<1> QED
  BY Zenon, <1>1, <1>2, ClientKeeps, PrinterKeeps, MainKeeps, StartKeeps DEF Next

\* Where no number has been given out twice none clashes that is queued.
LEMMA Sound == IInv => SpoolSound
<1> SUFFICES ASSUME IInv, reissued = {} PROVE QueuedOnce
  BY Zenon DEF IInv, SpoolSound, QueuedOnce
<1>1. ~ Clash(jp.jobid) \/ jp = NoJob
  BY Zenon, Entries DEF IInv, Named, Clash
<1>2. \A n \in DOMAIN jobs : ~ Clash(jobs[n].jobid) /\ jobs[n].jobid # NoJob.jobid
  BY Zenon, Entries DEF IInv, Named, Clash
<1> QED
  BY Zenon, <1>1, <1>2 DEF IInv, Unique, QueuedOnce

\* The invariant holds throughout.
LEMMA Invariance == Spec => []IInv
BY InitHolds, StepKeeps, PTL DEF Spec

\* Types, for any number of clients, ends of the daemon and failing calls: numbers
\* do not run out, and the job file never holds one beyond the next to be given out.
THEOREM TypeCorrect == Spec => []TypeOK
<1>1. IInv => TypeOK
  BY Zenon DEF IInv
<1> QED
  BY <1>1, Invariance, PTL

\* The spool is sound, for any number of clients and however often the daemon ends:
\* an accepted job is on disk until it is printed, what printer_thread sends is the
\* client's own file, and no job is queued twice.
THEOREM SpoolAlwaysSound == Spec => []SpoolSound
BY Invariance, Sound, PTL
=============================================================================
