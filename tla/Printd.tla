------------------------------- MODULE Printd -------------------------------
(***************************************************************************)
(* The print spooling daemon of apue.3e/printer/printd.c: client threads   *)
(* spool jobs, one printer thread sends them, the main thread rebuilds the *)
(* queue at start-up.  The daemon may end at any point (SIGTERM, a failed  *)
(* log_sys call, exit) and be started again: the spool directory and the   *)
(* job file survive, the queue does not.                                   *)
(*                                                                         *)
(* Each client submits one job.  What is under joblock is one step; so is  *)
(* every call on a file.  A job's request and data are named by its client.*)
(***************************************************************************)
EXTENDS Integers, Sequences, FiniteSets

CONSTANTS Clients,
          MaxEnds,      \* bound on how often the daemon ends
          MaxCancels    \* bound on spooled files that cannot be opened or read

NULL == "none"     \* no such file
Part == "part"     \* a file created, its contents not all written

ASSUME PrintdAssumption ==
  /\ IsFiniteSet(Clients) /\ {NULL, Part} \cap Clients = {}
  /\ MaxEnds \in Nat /\ MaxCancels \in Nat

Jobs == 1 .. Cardinality(Clients)

VARIABLES
  jobfile,           \* the number in the job file, 0 when it is empty
  data, req,         \* the spool directory: data file and control file of each job
  up, nextjob,       \* the daemon runs; the next job number
  jobs,              \* the queue, jobhead first
  mpc, mjob, todo,   \* the main thread: where, at which entry, entries not yet read
  cpc, jobid,        \* each client thread: where, with which job number
  ppc, jp,           \* the printer thread: where, with which job
  accepted,          \* clients told that their job is accepted
  printed,           \* what went to the printer: whose request, whose data
  reissued,          \* clients whose job number was given to two of them
  unread,            \* clients whose request a starting daemon could not read
  ends, cancels

disk == <<jobfile, data, req>>
threads == <<mpc, mjob, todo, cpc, jobid, ppc, jp>>
history == <<accepted, printed, reissued, unread>>
bounds == <<ends, cancels>>
vars == <<disk, up, nextjob, jobs, threads, history, bounds>>

NoJob == [jobid |-> 0, req |-> NULL]

\* the daemon's first start, on an empty spool directory
Init ==
  /\ jobfile = 0 /\ data = [j \in Jobs |-> NULL] /\ req = [j \in Jobs |-> NULL]
  /\ up = TRUE /\ nextjob = 1 /\ jobs = <<>>
  /\ mpc = "scan" /\ mjob = 0 /\ todo = {}
  /\ cpc = [c \in Clients |-> "idle"] /\ jobid = [c \in Clients |-> 0]
  /\ ppc = "get" /\ jp = NoJob
  /\ accepted = {} /\ printed = {} /\ reissued = {} /\ unread = {}
  /\ ends = 0 /\ cancels = 0

-----------------------------------------------------------------------------
(* add_job: the job goes to the tail under joblock, then jobwait is signalled *)

Enqueue(j, r) == jobs' = Append(jobs, [jobid |-> j, req |-> r])
CondSignal == ppc' = IF ppc = "wait" THEN "get" ELSE ppc

-----------------------------------------------------------------------------
(* client_thread *)

CGoto(c, from, to) == up /\ cpc[c] = from /\ cpc' = [cpc EXCEPT ![c] = to]
Client == UNCHANGED <<jobfile, up, mpc, mjob, todo, jp, printed, unread, bounds>>

\* accept, add_worker, the header, get_newjobno; a client whose header does not
\* come within 10 seconds is told so and leaves no trace
get_newjobno(c) ==
  /\ mpc = "accept" /\ CGoto(c, "idle", "creat")
  /\ jobid' = [jobid EXCEPT ![c] = nextjob] /\ nextjob' = nextjob + 1
  /\ UNCHANGED <<data, req, jobs, ppc, accepted, reissued>> /\ Client

\* creat of the data file, which empties the file of an earlier job of the number
CreatData(c) ==
  LET j == jobid[c]
  IN  /\ CGoto(c, "creat", "fill") /\ data' = [data EXCEPT ![j] = Part]
      /\ reissued' = reissued \cup
           (IF req[j] = NULL THEN {} ELSE {d \in Clients : jobid[d] = j})
      /\ UNCHANGED <<req, nextjob, jobs, jobid, ppc, accepted>> /\ Client

\* the client's bytes arrive, to the end of file or to the first failing tread
Fill(c) ==
  /\ CGoto(c, "fill", "ctl") /\ data' = [data EXCEPT ![jobid[c]] = c]
  /\ UNCHANGED <<req, nextjob, jobs, jobid, ppc, accepted, reissued>> /\ Client

\* mutation: the client is answered before its request is on disk
AnswersEarly(c) ==
  /\ CGoto(c, "ctl", "write") /\ req' = [req EXCEPT ![jobid[c]] = Part]
  /\ accepted' = accepted \cup {c}
  /\ UNCHANGED <<data, nextjob, jobs, jobid, ppc, reissued>> /\ Client

CreatRequest(c) ==
  /\ CGoto(c, "ctl", "write") /\ req' = [req EXCEPT ![jobid[c]] = Part]
  /\ UNCHANGED <<data, nextjob, jobs, jobid, ppc, accepted, reissued>> /\ Client

WriteRequest(c) ==
  /\ CGoto(c, "write", "respond") /\ req' = [req EXCEPT ![jobid[c]] = c]
  /\ UNCHANGED <<data, nextjob, jobs, jobid, ppc, accepted, reissued>> /\ Client

\* creat or write fails; the client is told, then the files are unlinked
SpoolFails(c) ==
  /\ \/ CGoto(c, "creat", "gone") \/ CGoto(c, "fill", "undata")
     \/ CGoto(c, "ctl", "undata") \/ CGoto(c, "write", "unreq")
  /\ UNCHANGED <<data, req, nextjob, jobs, jobid, ppc, accepted, reissued>> /\ Client

UnlinkSpooled(c) ==
  /\ \/ /\ CGoto(c, "unreq", "undata")
        /\ req' = [req EXCEPT ![jobid[c]] = NULL] /\ UNCHANGED data
     \/ /\ CGoto(c, "undata", "gone")
        /\ data' = [data EXCEPT ![jobid[c]] = NULL] /\ UNCHANGED req
  /\ UNCHANGED <<nextjob, jobs, jobid, ppc, accepted, reissued>> /\ Client

Respond(c) ==
  /\ CGoto(c, "respond", "add") /\ accepted' = accepted \cup {c}
  /\ UNCHANGED <<data, req, nextjob, jobs, jobid, ppc, reissued>> /\ Client

\* mutation: the job is added and nobody is told
AddsSilently(c) ==
  /\ CGoto(c, "add", "done") /\ Enqueue(jobid[c], c)
  /\ UNCHANGED <<data, req, nextjob, jobid, ppc, accepted, reissued>> /\ Client

AddJob(c) ==
  /\ CGoto(c, "add", "signal") /\ Enqueue(jobid[c], c)
  /\ UNCHANGED <<data, req, nextjob, jobid, ppc, accepted, reissued>> /\ Client

SignalJob(c) ==
  /\ CGoto(c, "signal", "done") /\ CondSignal
  /\ UNCHANGED <<data, req, nextjob, jobs, jobid, accepted, reissued>> /\ Client

ClientStep(c) ==
  \/ get_newjobno(c) \/ CreatData(c) \/ Fill(c) \/ CreatRequest(c) \/ WriteRequest(c)
  \/ UnlinkSpooled(c) \/ Respond(c) \/ AddJob(c) \/ SignalJob(c)

-----------------------------------------------------------------------------
(* printer_thread *)

PGoto(from, to) == up /\ ppc = from /\ ppc' = to
Printer == UNCHANGED <<req, up, nextjob, mpc, mjob, todo, cpc, jobid, accepted, reissued, unread, ends>>

\* the loop around pthread_cond_wait; it may return without a signal
Wait ==
  /\ PGoto("get", "wait") /\ jobs = <<>>
  /\ UNCHANGED <<jobfile, data, jobs, jp, printed, cancels>> /\ Printer
WakeUp ==
  /\ PGoto("wait", "get")
  /\ UNCHANGED <<jobfile, data, jobs, jp, printed, cancels>> /\ Printer

remove_job ==
  /\ PGoto("get", "update") /\ jobs # <<>> /\ jp' = Head(jobs) /\ jobs' = Tail(jobs)
  /\ UNCHANGED <<jobfile, data, printed, cancels>> /\ Printer

\* nextjob is read without joblock
update_jobno ==
  /\ PGoto("update", "config") /\ jobfile' = nextjob
  /\ UNCHANGED <<data, jobs, jp, printed, cancels>> /\ Printer

\* reread may have been set by a SIGHUP at any time before, so whether init_printer
\* is called here is left open; ConfigBad is the call that exits
Config ==
  /\ PGoto("config", "open")
  /\ UNCHANGED <<jobfile, data, jobs, jp, printed, cancels>> /\ Printer

Open ==
  /\ PGoto("open", "send") /\ data[jp.jobid] # NULL
  /\ UNCHANGED <<jobfile, data, jobs, jp, printed, cancels>> /\ Printer

\* the data file cannot be opened: the job is dropped, its files stay
Cancel ==
  /\ PGoto("open", "get") /\ jp' = NoJob
  /\ \/ data[jp.jobid] = NULL /\ UNCHANGED cancels
     \/ data[jp.jobid] # NULL /\ cancels < MaxCancels /\ cancels' = cancels + 1
  /\ UNCHANGED <<jobfile, data, jobs, printed>> /\ Printer

\* the headers and the data reach the printer
Send ==
  /\ PGoto("send", "status")
  /\ printed' = printed \cup {[req |-> jp.req, data |-> data[jp.jobid]]}
  /\ UNCHANGED <<jobfile, data, jobs, jp, cancels>> /\ Printer

\* defer: the printer cannot be reached, or does not report success; the job
\* goes back to the head of the list and the thread sleeps
replace_job ==
  /\ \/ PGoto("send", "get") \/ PGoto("status", "get")
  /\ jobs' = <<jp>> \o jobs /\ jp' = NoJob
  /\ UNCHANGED <<jobfile, data, printed, cancels>> /\ Printer

\* printer_status: success; the data file is unlinked
UnlinkData ==
  /\ PGoto("status", "unlink") /\ data' = [data EXCEPT ![jp.jobid] = NULL]
  /\ UNCHANGED <<jobfile, jobs, jp, printed, cancels>> /\ Printer

UnlinkRequest ==
  /\ PGoto("unlink", "get") /\ req' = [req EXCEPT ![jp.jobid] = NULL] /\ jp' = NoJob
  /\ UNCHANGED <<jobfile, data, up, nextjob, jobs, mpc, mjob, todo, cpc, jobid, history, bounds>>

PrinterStep == Wait \/ remove_job \/ update_jobno \/ Config \/ Open \/ Cancel \/ UnlinkRequest

-----------------------------------------------------------------------------
(* main: build_qonstart, then the accept loop *)

MGoto(from, to) == up /\ mpc = from /\ mpc' = to
Main == UNCHANGED <<jobfile, up, nextjob, cpc, jobid, jp, accepted, printed, reissued, ends>>

\* a directory entry: a whole request is queued, one that is not is unlinked
ReadEntry(j) ==
  /\ j \in todo /\ todo' = todo \ {j}
  /\ \/ /\ req[j] \in Clients /\ MGoto("scan", "signal") /\ Enqueue(j, req[j])
        /\ UNCHANGED <<req, mjob>>
     \/ /\ req[j] = Part /\ MGoto("scan", "unlink")
        /\ req' = [req EXCEPT ![j] = NULL] /\ mjob' = j /\ UNCHANGED jobs
  /\ UNCHANGED <<data, ppc, unread, cancels>> /\ Main

\* open fails and the entry is passed over, or read fails and it is unlinked
EntryFails(j) ==
  /\ j \in todo /\ todo' = todo \ {j} /\ req[j] \in Clients
  /\ cancels < MaxCancels /\ cancels' = cancels + 1
  /\ \/ MGoto("scan", "scan") /\ UNCHANGED <<req, mjob, unread>>
     \/ /\ MGoto("scan", "unlink") /\ unread' = unread \cup {req[j]}
        /\ req' = [req EXCEPT ![j] = NULL] /\ mjob' = j
  /\ UNCHANGED <<data, jobs, ppc>> /\ Main

UnlinkBad ==
  /\ MGoto("unlink", "scan") /\ data' = [data EXCEPT ![mjob] = NULL] /\ mjob' = 0
  /\ UNCHANGED <<req, jobs, todo, ppc, unread, cancels>> /\ Main

SignalEntry ==
  /\ MGoto("signal", "scan") /\ CondSignal
  /\ UNCHANGED <<data, req, jobs, mjob, todo, unread, cancels>> /\ Main

Accepting ==
  /\ MGoto("scan", "accept") /\ todo = {}
  /\ UNCHANGED <<data, req, jobs, mjob, todo, ppc, unread, cancels>> /\ Main

MainStep == (\E j \in Jobs : ReadEntry(j)) \/ UnlinkBad \/ SignalEntry \/ Accepting

-----------------------------------------------------------------------------
(* Signals, the end of the daemon and its next start *)

\* every thread is gone, and with it the queue
Down ==
  /\ up' = FALSE /\ nextjob' = 1 /\ jobs' = <<>>
  /\ mpc' = "scan" /\ mjob' = 0 /\ todo' = {} /\ ppc' = "get" /\ jp' = NoJob
  /\ cpc' = [c \in Clients |-> IF cpc[c] \in {"idle", "done"} THEN cpc[c] ELSE "gone"]
  /\ ends' = ends + 1
  /\ UNCHANGED <<disk, jobid, history, cancels>>

\* SIGTERM (kill_workers, then exit), or a call whose failure ends the daemon
Ends == up /\ ends < MaxEnds /\ Down

\* init_printer exits when the configuration read again names no printer
ConfigBad == up /\ ppc = "config" /\ ends < MaxEnds /\ Down

\* init_request, and opendir of build_qonstart
Start ==
  /\ ~up /\ up' = TRUE
  /\ nextjob' = IF jobfile = 0 THEN 1 ELSE jobfile
  /\ todo' = {j \in Jobs : req[j] # NULL}
  /\ UNCHANGED <<disk, jobs, mpc, mjob, cpc, jobid, ppc, jp, history, bounds>>

Next ==
  \/ \E c \in Clients : ClientStep(c) \/ SpoolFails(c)
  \/ PrinterStep \/ WakeUp \/ Send \/ replace_job \/ UnlinkData
  \/ MainStep \/ (\E j \in Jobs : EntryFails(j)) \/ Ends \/ ConfigBad \/ Start

\* Every thread runs on, the daemon is started again, and the printer is reached
\* and reports success again and again, if not each time.
Spec ==
  /\ Init /\ [][Next]_vars
  /\ \A c \in Clients : WF_vars(ClientStep(c))
  /\ WF_vars(PrinterStep) /\ WF_vars(MainStep) /\ WF_vars(Start)
  /\ SF_vars(Send) /\ SF_vars(UnlinkData)

-----------------------------------------------------------------------------
(* Properties *)

\* The daemon's variables and the spool directory have their types; the number in
\* the job file is never beyond the next one to be given out.
TypeOK ==
  /\ jobfile \in 0 .. Cardinality(Clients) + 1 /\ nextjob \in 1 .. Cardinality(Clients) + 1
  /\ up => jobfile <= nextjob
  /\ data \in [Jobs -> Clients \cup {NULL, Part}] /\ req \in [Jobs -> Clients \cup {NULL, Part}]
  /\ jobs \in Seq([jobid : Jobs, req : Clients]) /\ jp \in [jobid : Jobs, req : Clients] \cup {NoJob}
  /\ up \in BOOLEAN /\ todo \subseteq Jobs /\ mjob \in Jobs \cup {0}
  /\ mpc \in {"scan", "unlink", "signal", "accept"}
  /\ ppc \in {"get", "wait", "update", "config", "open", "send", "status", "unlink"}
  /\ cpc \in [Clients -> {"idle", "creat", "fill", "ctl", "write", "unreq", "undata", "respond",
                         "add", "signal", "done", "gone"}]
  /\ jobid \in [Clients -> Jobs \cup {0}]
  /\ accepted \subseteq Clients /\ reissued \subseteq Clients /\ unread \subseteq Clients

\* A job whose client was told "request ID n" is on disk, request and data whole,
\* until it has gone to the printer, wherever the daemon ends and however often;
\* unless its number has been given to another client as well, or a daemon that
\* starts cannot read its request and unlinks it.
AcceptedKept ==
  \A c \in accepted \ (reissued \cup unread) :
    \/ [req |-> c, data |-> c] \in printed
    \/ req[jobid[c]] = c /\ data[jobid[c]] = c

\* What is sent to the printer under a client's request is that client's data, all
\* of it, though files half written are found in the spool directory at start-up.
PrintsOwn == \A x \in printed : x.req \in Clients /\ (x.req \notin reissued => x.data = x.req)

\* No job is twice in the queue and the printer thread's hands, though requests
\* come from clients, from the spool directory and back from the printer thread.
QueuedOnce ==
  reissued = {} =>
    /\ \A m, n \in DOMAIN jobs : jobs[m].jobid = jobs[n].jobid => m = n
    /\ \A n \in DOMAIN jobs : jobs[n].jobid # jp.jobid

\* The spool is sound wherever the daemon ends: an accepted job is kept until it
\* is printed (AcceptedKept), what is printed is the client's own file (PrintsOwn)
\* and no job is queued twice (QueuedOnce).
SpoolSound == AcceptedKept /\ PrintsOwn /\ QueuedOnce

\* An accepted job is printed in the end: add_job's signal is never lost, a job
\* deferred is tried again and one left by an earlier daemon is found; unless its
\* number was given out twice or one of its files could not be opened or read.
AcceptedPrinted ==
  \A c \in Clients :
    c \in accepted ~> ([req |-> c, data |-> c] \in printed \/ reissued # {} \/ cancels > 0)
=============================================================================
