# TLA+ models of the programs in cpp_notes

cpp_notes is a collection of systems programs kept with notes about them: programs
written for the notes, and the sources of two textbooks, `apue.3e` and `unpv13e`.
Many are demonstrations of one call; the others are concurrent, asynchronous or
networked programs with state, ordering and failure behaviour of their own.
This directory models those, checks them with TLC on small instances, and proves
the invariants of the first group with TLAPS for every value of the constants.
`PROJECT.json` lists every run, the source lines each definition stands for, the
hazards and the findings.

## 1. The parts of the repository

| Part | Source | State and operations | What is hard about it |
| --- | --- | --- | --- |
| io_uring file copy | `io_uring/iouringcp.c` | up to `QD` requests (`struct io_data`), counters `reads`, `writes`, `insize`, `write_left`; queue, submit, reap, requeue | kernel completes in any order; short and failed transfers; entries requeued but not submitted; the loop ends before writes finish |
| Channel | `chan1/chan.cpp` | queue, mutex, condition variable, atomic flag; `<<`, `>>`, `close` | lock dropped while sleeping; spurious wake-ups; `close` does not notify |
| libaio with epoll | `aio/aio_epoll.c` | kernel ring, eventfd counter, edge-triggered epoll, `finished_aio` | completions between any two calls; an unsigned count |
| atomic array handshake | `atomic_barrier/atomic_arr.c` | `a_arr`, `change_items`, two threads | check and act in separate atomic accesses; loop bound changed by the other thread |
| memory-order programs | `atomic_barrier/release.c`, `goatomic`, `gostoreloadreorder` | two threads, a few variables | store buffers and the compiler's reordering |
| iotool | `iotool_cpp/iotool.c` | twelve engines over a volume: `W`, `R`, `wr*`, `rd*`, `aiowrbytesstr` | unsigned arithmetic, short transfers, O_DIRECT alignment, partial `io_submit`, freeing what the kernel still uses |
| database library | `apue.3e/db/db.c` | index file (free list, hash chains, records), data file, record locks; open, close, fetch, delete, store, nextrec | processes interleave at every system call; one free list for all chains; a process that ends between two writes; creation before any lock |
| print daemon and command | `apue.3e/printer` | job queue, job file, spool directory, list of worker threads; client threads, printer thread, start-up scan, signals, cancellation; the uploading command | the queue dies with the daemon and is rebuilt from half-written files; numbers given out twice; lost wake-ups; retries; time-outs taken for the end of a file |
| thread examples | `apue.3e/threads`, `threadctl` | reference counts, hash lists, work queues, a barrier, time-outs, thread-specific data, fork handlers | a lock dropped and retaken; two locks; last reference and lookup at once |
| process examples | `apue.3e/proc`, `signals`, `ipc1`, `advio`, `lib` | TELL_WAIT in two versions, `sleep`, `system`, `abort`, `popen`, coprocesses | a signal between a test and a pause; actions and masks to be put back; descriptors a child inherits |
| open servers | `apue.3e/ipc2`, `lib`, `unpv13e/unixdomain` | requests and descriptors over Unix sockets, tables of clients | a table changed while it is walked; requests split and joined; dying clients |
| echo, daytime and Web clients, `sock` | `unpv13e/tcpcliserv`, `select`, `nonblock`, `threads`, `advio`, `intro`, `names`, `sock`, `lib` | line and byte loops over a connection, read-ahead buffers, connection counters | half-close, finite buffers at both ends, several descriptors at once, threads sharing a socket |
| TCP server designs | `unpv13e/server`, `tcpcliserv`, `threads`, `unixdomain`, `nonblock` | one process, a process or a thread per client, pools, select and poll | resets, dying children, merged SIGCHLD, a shared accept lock, tables of descriptors |
| datagram programs | `unpv13e/udpcliserv`, `advio`, `bcast`, `mcast`, `rtt`, `sigio`, `names` | request and reply with and without time-outs, the round-trip estimator, a ring filled by SIGIO | loss, duplication, reordering, strangers; an alarm between two calls |
| urgent data, heartbeat, ICMP | `unpv13e/oob`, `ping`, `traceroute`, `icmpd` | an urgent pointer and its byte, probe counters, raw sockets, a registry of clients | announced before it arrives; late and foreign messages; handlers that share tables |
| everything else | see section 7 | mostly one short `main` per program | not modelled |

What composes: threads with their mutex and condition variable, a program with the
kernel's queues, processes with the files and locks they share, a client with the
server it is written for and the network between them, a daemon with the disk that
survives it.  Each module holds all sides.  The printing system spans two modules:
`PrintSession` takes a job from the command's input to the daemon's answer, `Printd`
from the answer to the printer, across restarts; and so does the database, with
`DbOpen` before the first call and `Db` after it.

## 2. Modules

Numbers in the source become constants, kept as small as the cases they
distinguish allow.  A kernel, a network, a user or a library is an environment
action marked external in the map.  Mutated forms of definitions (`\* mutation`)
stand beside the definitions they alter; each is used to show that a property can
fail.  Where the source has several programs that differ in one function, one
module has them all: a variable (`prog`, `main`, `serv`, `config`) says which one
runs, each program is an action named as in the source, and what they share
is written once.

**IoUringCopy** (`copy_file`, `queue_read`, `queue_write`, `queue_prepped`).  One
request is a `struct io_data`: direction, what is left, where it is (unused,
queued, in flight, complete, freed).  The outer loop's phases are a `pc`; the kernel
takes, completes, shortens and fails requests in any order.  `MaxFaults` bounds
the failures.  Data is one value per file unit, so that a unit written from the
wrong place is seen.  After `copy_file` returns `main` closes the files and leaves the
ring (`Exit`); writes still in flight may complete before that or be cancelled by it.

**Channel**, **BoundedFifo**.  Every access to the mutex, the condition variable
and the flag is a step; `SpuriousWake` is an action of its own, and a consumer that
prints without ever having received an item ends the process (`PrintNull`).  `BoundedFifo` is the queue the class promises: send adds
at the tail when there is room, receive takes the head.  `Channel` implements it
under the mapping in `ImplementsFifo`.

**AioEpoll** (`main`).  Kernel ring, eventfd count, edge state of epoll and the
two reaping loops; a completion may fall between any two calls.  `Width` is the
modulus of the unsigned count.

**AtomicArr** (`increaser_main`, `decreaser_main`, `main`).  Each
sequentially consistent access is a step.  `WaitLimit` is the number of waits
after which a thread gives up (1000 in the source).

**IotoolWrite**, **IotoolRead**, **IotoolEasy**, **IotoolAio**.  One module per
family of engines.  `Word` and `UInt` are the moduli of `size_t` and `unsigned`,
so wrap-around happens in the model where it does in the code.  The volume is an
array of bytes tagged with their origin; `pread` and `pwrite` may be short or
fail up to `MaxFaults` times and stop at the end of the volume.  `do_open` compares
prefixes, so `IotoolEasy` has spellings of O_DIRECT whose block size nobody checks, and
the kernel refuses their transfers.  The `...Params`
modules hold the constants and assumptions that the proofs and the run share.

**Db**, **KvStore**, **MCDb**.  `ptr`, `idx` and `dat` are the two files: chain
ptrs by place, index records, data records.  `db[p]` is the DB structure and the
locals of process `p`, `pc[p]` the next system call.  `FindAndLock`, `DoDelete`,
`FindFree`, `Reuse`, `AppendRec` and `NextRec` have one disjunct per system call;
`Lock` and `un_lock` are the fcntl locks on a chain, the free list, the end of the
index file and the data file.  `CallFails` ends a process at any call, as
`err_dump` does, and leaves its `pc` to tell where.  `PtrTooLarge` is `PTR_MAX`.
The sanity checks of `_db_readidx` and `_db_readdat` have no action: `SaneReads`
states that they never fail.  `KvStore` is what callers rely on: a map on which
every call takes effect at one moment.  `MCDb` gives hash values, lengths and the
file that the calls named there leave behind.

**DbOpen**.  Several processes open one name, with or without `O_CREAT` and
`O_TRUNC`; the two `open` calls, the lock, `fstat`, the writing of the hash table
and the unlock are steps, and so are those of one `db_store` afterwards, in the data
file and in the index, and of `db_close`.  A process may be killed, which releases its lock.

**Printd**.  `data`, `req` and `jobfile` are on disk, everything else is lost by
`Down`.  Client, printer and main thread have a `pc` each; a critical section under
`joblock` is one step, every file operation is one step, and `add_job` signals in a
step after the one that queues.  A SIGHUP can come at any time, so what `Config` finds in
`reread` is left open.  `Start` reads the job file and the directory;
the printer thread runs while `ReadEntry` scans.  `reissued` and `unread` are
history: whose number went to two clients, whose request could not be read.

**PrintSession**.  The print command (`print_main`, `submit_file`) and the thread
that serves it (`client_thread` with `tread` and `treadn`) over a connection of
pieces of at most `IOBUFSZ`, and `signal_thread`.  The control file, the answer and
`add_job` are steps of their own, so a thread can be cancelled between any two.  `mem` holds the nodes of the worker list at their
addresses, with `next` and `prev` as `add_worker` and `client_cleanup` leave them;
a freed node keeps its contents until `malloc` returns it again, and a step that
uses one may end the daemon.  A cancelled thread runs its clean-up handlers.

**StoreOrder**.  Each thread has a store buffer; `Drain` writes its oldest entry to
memory.  Plain stores may be exchanged by the compiler and the load of a spin loop
hoisted; `atomic.StoreInt64` empties the buffer first.

**StrCli**.  A client (`main`), a server (`serv`), the user (`u`) and the
connection (`net`) with a bounded buffer each way, FIN and RST.  Every `str_cli`
is a small program over `Fgets`, `readline`, `writen`, `Select` and `Shutdown`,
which are modelled with their buffers: `my_read`'s read-ahead, stdio's line buffer,
the `to` and `fr` buffers of `strclinonb`.  Daytime clients read until the end.

**WebGet**.  `flags`, `nconn`, `nlefttoconn` and `nlefttoread` as in the code; a
connection is pending, up, failed or closed; the threads of `web01` to `web03` lock,
signal and end step by step.

**SockTool**.  Two ends run `sock` with the options of `cfg`.  Bytes are any,
newline or carriage return, enough for `-c`; `set` collects the options that the two calls
of `sockopts` have set; `fk` is the concurrent server's parent with its children.

**TcpServ**.  `cl` are the clients, `lq` the listen queue, `sock` the accepted
connections with the processes that hold each, `w` the children or threads, `sv`
the parent or main thread with its tables.  The clients include those written to
upset a server: `tcpcli03` and `clientrst` reset, `tcpcli06` never ends its line.  A
connection reset before `accept` makes a server with a plain `accept` quit
(`AcceptAborts`), while its children go on; Unix domain clients reset nothing.

**DgExchange**.  `net` counts the datagrams under way in each direction, by number;
`c` is the client with its alarm, mask and pending signal, `rttinfo` the estimator
in sixty-fourths of a second, `srv` the server with the ring of `dgecho01`.
Time is not modelled: an armed alarm may go off at any moment.

**Heartbeat**, **Oob**.  Urgent data as Linux TCP keeps it: one pointer, the byte
separate from the stream unless inline, SIGURG when the pointer arrives.
In `Heartbeat` a `Tick` is a second, in which both sides' alarms go off.  What is under
way has an age: a network that is up holds a probe or an echo for at most `Delay` ticks,
so probes may come together.  The announcement, the byte, the handler's entry and its
`recv` are steps.

**Icmp**, **Icmpd**.  Messages waiting on a raw socket are a bag; the network loses,
answers or answers twice, and adds messages meant for other processes.  `Icmpd` is
the daemon's loop over its listening, two raw and client descriptors with `client[]`;
`Groups` says which clients run together.

**ApueThreads**, **ApueProc**, **OpenServ**.  Threads call the functions of each
example in any order, within `MaxRefs` calls or the given jobs; a pair of processes
with pending and blocked signals, whose handlers run between any two steps, and for
`popen` the caller's table of descriptors, which every child inherits; clients
and an open server, where a request is a sequence of words and a read takes at most
`MAXLINE` of them.

**MCAio**, **MCSessions**, **MCStreams**, **MCDgram**, **MCApue** instantiate several
of these modules side by side; `which` says the one that runs, the others stay
in an initial state, so the states add up and do not multiply.  **MCTcpServ** pairs
the servers of `TcpServ` with clients.

## 3. Runs

`expect: pass` unless said otherwise.  The bounds are chosen so that every action,
every disjunct and every failure path happens.  Several questions about small
programs share a run; the properties of such a run are conjunctions, named in the
MC module, of the properties the component modules state.

| Run | Instance | What it shows |
| --- | --- | --- |
| `aio` | copy: depth 2, blocks of 2, file of 7, 3 failures; epoll: 4 reads, counter modulo 16; array: 3 cells, 3 rounds, 2 waits; iotool: sectors of 2 or 3, volumes of 14 to 17, 4 iocbs, 2 short transfers | the copy's slot counters are exact, `assert(sqe)` holds, returning 0 means every block was read and its write queued unless a submit failed, and without a failure the program ends and every byte is copied or was in a write cancelled at the exit; the epoll count is exact up to one wrap and no edge is missed; what a thread of the array test tested still holds when it writes; iotool: "Write Done" means the range was written, nothing before it or a buffer behind it ever is, and the byte engines (sector engines from sector 0) write exactly the range; the reading engines and `R` show and read the range, the blocks of `W` do not overlap; a volume opened as `d` or `direct` is accessed in whole sectors; "all io done" is true and nothing is freed under the kernel; the epoll, array, `pwrite` and libaio programs end, under the conditions below |
| `channel` | 1 producer, 2 consumers, capacity 2, items numbered modulo 3 (one thread more than `main` starts; the theorems of `Channel_proofs` are for any number) | implements `BoundedFifo`; never pops an empty queue; after `close` producers stop, and a send under way gets a consumer out, unless a consumer that never received anything has crashed |
| `db` | 2 processes, 3 keys on 2 chains, 3 calls in all, 1 failing system call, `PTR_MAX` leaving room for one new record | implements `KvStore`; lists stay sound even where a process ended, reads are whole, a scan sees no half-deleted record (`FilesSound`); every call returns |
| `printd` | 2 clients, 2 ends of the daemon, 1 file that cannot be opened or read | an accepted job is on disk until printed, is queued once and printed whole (`SpoolSound`), and is printed in the end |
| `sessions` | 2 print commands and, in one configuration, a third that comes later, 1 fault; 3 processes that open a database with every combination of flags; 2 loops of each memory-order program | the worker list is the list of live workers and no node is used after it was freed; an accepted job is whole and has its control file, and is queued while the daemon is up; once nobody is inside `db_open` the index has its hash table and every record stored since, with its data, under the condition below; ordered stores are seen in order |
| `streams` | every echo and daytime client with a server it is written for, a file of 3 lines of 2 bytes or 2 lines typed, buffers of 3 and 2 bytes; 3 files on 2 connections; `sock` with reads of 3, conversion buffers of 2 to 5 and a connection of 2, 3 connections | everything typed is shown once, in order, and both programs end or hang in a way `Hangs` names; the Web clients' counters are exact; `sock` delivers what was typed, with its options set before data flows |
| `tcpserv` | 26 servers, pools and tables of 2, 2 or 3 clients | a reply goes to the client that asked; tables, descriptors and accept locks agree; every client is served unless the server ends first; no zombie is left by the handlers that loop on `waitpid` |
| `dgram` | 2 lines, 3 datagrams, ring of 2, 2 hosts, 1 loss, duplicate or stranger; a heartbeat that gives up after 3 probes, with delays of 1 second, and 1 line; a window of 2 bytes; 3 pings, 2 routers, 2 probes; `icmpd` with a table of 2 and three groups of clients: one of which may die, the same port in both families, one more than fit | replies stand beside their lines; the SIGIO ring keeps order; nobody alive is declared dead while the delays fit into `maxnprobes`; no normal byte around an urgent one is lost; ping and traceroute show only their own answers, and a client that `icmpd` has accepted is told of its own errors only; every wait ends but for the races named |
| `apue` | 3 threads, 2 objects, 4 references; one pair of processes for each program, 3 streams of `popen` and 1 that fails, 6 descriptors; 3 clients of an open server with reads of 5 words and tables that grow by 1 | counts and queues are exact; signal actions and masks are put back, a popen child has its own pipe and at most what a failed popen leaked; an open server passes the file that was named; everything ends |
| `iouring_short` | file of 3, 1 failure | **violation** of `CopyExact`: finding 1 |
| `atomic_arr_assert` | 3 cells, 2 rounds | **violation** of `AssertHolds`: finding 2 |
| `sessions_kill` | as `sessions` | **violation** of `KillsAll`: finding 3 |

Deadlock is not checked where programs end: the last state of a program that
returned has no successor.  The liveness properties say which ends are reached.

Why these bounds are enough.  Two of everything that competes gives every pair of
orders; blocks, sectors and buffers are small but not of equal size, so that full,
partial, short last and empty cases all occur; moduli are a small multiple of the
sizes, so that products wrap and sums of in-range values do not.  In `db` the
starting file has a chain of two, an empty chain and a free record of one of the
two data lengths; from there three calls reach each path of `db_store` (append,
reuse, replace in place, delete and append), two appends at once, and the pointer
limit.  In `printd` one end of the daemon is enough to give a number out twice, the
second lets a daemon end while it rebuilds the queue.  In `sessions` two workers
at once show the fault of the list and a third, later, that it is sound otherwise.
In `streams` a line is shorter than the program's buffer and longer than the
connection's, so reads and writes are split everywhere.  In `tcpserv` three clients
on two slots, or on a pool of two, make one wait; a table with a freed entry below
a used one occurs.  In `dgram` one fault already shifts replies for the programs
without sequence numbers, two datagrams fill the ring and the third finds it full;
two routers separate "time exceeded" from "port unreachable".  In `apue` the
third client makes the tables grow and leaves a gap when an earlier one ends.

Some properties carry a condition, which is where the code stops keeping them
(section 6 has the reasons):

- `ReturnsAfterReading`: unless `io_uring_submit` failed; `EventuallyCopied`: behaviours
  without a failure, and not the bytes of a write cancelled at the exit (`LostAtExit`);
- `OnlyRequested`, `WritesCopies`: the sector engines only from offset 0 (`Exact`), the
  second without short writes; `CoversRange`: offsets that are not negative;
- `DirectAligned`: the spellings `d` and `direct`, not the other words that begin with d;
  `TransfersRange`: block size times count below the modulus;
- `Ends`: `aio_epoll` unless a reap overtook the eventfd, the `pwrite` engines unless the
  string is empty, the libaio engine if `io_submit` took every iocb;
- `ProducersStop`, `LastSendWakes`: unless a consumer that never received an item
  dereferenced null;
- `ListsSound`: not the chain of a delete that is between rewriting its record and
  relinking the chain, or ended there; `ScanSeesWhole` likewise;
- `ImplementsStore`: until the first process ends inside a call; `CallsReturn`: unless
  one ended while it relinked a chain;
- `AcceptedKept`, `PrintsOwn`: not the jobs whose number was given to two clients
  or, for the first, whose request could not be read; `QueuedOnce` and
  `AcceptedPrinted`: only behaviours in which no number was given out twice, and for
  the second in which every file could be opened and read;
- `WorkersListed`: while no two workers were listed at once; `JobWhole`: unless the
  command was interrupted or a pause of 20 seconds taken for the end of the file;
  `TableWhole`: unless a truncation fell into a store, a creator between its two opens
  removed the data of one, or a creator died between truncation and table;
- `EchoComplete`: not `strcliselect01` and `strclinonb`, nor a server that died;
  `BothEnd`: or it hangs as `Hangs` says: on a server that keeps its
  answers, on a child that a reset ended, or with both ends blocked in `write` (`Jammed`); `WebEnds`: not `web03` joining under its lock
  nor `web02` with an overwritten flag; `SockEnds`: unless both ends block in `write`;
- `RepliesOwn`, `EveryClientServed`: not `tcpservselect03`, and for the second not a
  server that ended, of ECONNABORTED among others, or blocks in an `accept` whose
  connection was reset; `ZombiesReaped`: while the server is up;
- `RepliesMatch`: always for `dg_send_recv`, for the others until a duplicate,
  a stranger or a late reply; `WaitsEnd`: unless the alarm came between the test and
  the call it should interrupt, or the only reply was lost and there is no alarm;
- `NoFalseDeath`: network delays with `2 * Delay + 1 <= maxnprobes`; a handler may end its
  process when two probes came together; `RegisteredSound`: a new client may be refused
  when an error for the entry's previous owner arrives first;
- `RecvOobReady`: not the two handlers of `tcprecv01` and `tcprecv05`; `CountsSane`: not a summary
  printed by a handler inside `pr_pack`;
- `OwnPipeOnly`: a popen child may hold the pipe of a popen that failed in `fork` or
  `fdopen`, and lacks its own where the caller has another stream on descriptor 0 or 1;
- `OpensOwn`: as long as no request is longer than `MAXLINE`; `AllEnd`: not the
  programs of `MayHang`.

## 4. Fairness

Weak fairness of every thread or process: the scheduler runs a thread that can run.
Weak fairness of kernel completions (`Complete`, `Post`, `Signal`, `Kernel`) and of
what the kernel delivers (`Arrive`, `Answer`, `Fin`, pending signals): a request
submitted to a working device completes, a byte sent over a connection arrives.
An armed timer goes off (`Tick`, `Alarms`, and the alarm inside `Client`).
Locks in `Db` need no more, because the number of calls is bounded and a lock is
always released.  `SpuriousWake` of `Channel` and of `ApueThreads` is an action without
fairness, outside those of the threads: a wake-up may come or not, and no property
relies on one.

Strong fairness is used in three places.  `Send` and `UnlinkData` of `Printd`: a
printer that is tried for ever is reached, and reports success, again and again.
The threads of `WebGet` and of `ApueThreads`: a mutex that is released again and
again is granted in the end to each thread that waits for it, which every
implementation of POSIX threads the programs run on does for threads of one priority;
that does not hold for the writer of a read-write lock, and nothing live is
claimed of `rwlock`.
`Start` of `Printd` is weakly fair: a daemon that ended is started again, which is
up to the system and not to `printd.c`; without it an accepted job stays spooled.
Losses, failures, user signals, kills and the end of the daemon have no fairness
at all.  `MCSessions` states none and checks safety only.

## 5. Proofs

All theorems hold for every value of the constants that satisfies the named
assumptions of the module (positive sizes and counts, a counter wider than the
number of events, distinct markers, and for `Db` files to start from such as complete
calls leave: `FilesAssumption`).  Each follows the same argument: an inductive
invariant `IInv` holds initially, every action keeps it, it implies the property.

| Module | Theorems | Inductive invariant and why it is needed |
| --- | --- | --- |
| `IoUringCopy_proofs` | `TypeCorrect`, `SlotsAlwaysAccounted`, `AssertHolds`, `AlwaysReturnsAfterReading` | types, `Layout` (the read position separates blocks handed out from unused ones; no completion exceeds its request), `NoAbort`, `SlotsAccounted`. A ring of `QD` entries has room for a requeue because queued entries are among the at most `QD` live requests, and the one being handled is not queued. `Exit` keeps the counts: a request it cancels stays allocated. For the return value also `Returns`: `insize` and `write_left` are what is still to be read and to be queued for writing, block by block |
| `IotoolWrite_proofs` | `ByteChunksFit`, `BytesOnlyRequested`, `AlwaysNearRange`, `AlwaysCoversRange`, `AlwaysWritesCopies` | `Prefix`: new bytes are exactly those from the start of the range to `wr_offset`; `Covered`: all of those are written; `Contents` and `InStep`: the buffer holds whole copies of the string and every chunk starts a whole number of copies into the range, so the copies meet at the seams. `AlwaysNearRange` bounds the last chunk of the sector engines, which is not cut, by the buffer. The arithmetic rests on three lemmas about `\div` and `%` |
| `AioThreads_proofs` | (lemmas) | `ArrInv` of `atomic_arr`: cells from `max_change_items` on are never set, so the decreaser stops there although its bound may be larger. `EpollInv` of `aio_epoll`: every request is in one place, and a posted event not yet seen keeps the edge armed or the reader awake. `SubmitInv` of the asynchronous engine of iotool: what each position says of the iocbs; the counter is the cardinality of the delivered ones |
| `MCAio_proofs` | `SlotsAlwaysAccounted`, `CountAlwaysExact`, `NoEventLost`, `OvertakenLoops`, `TestAlwaysHolds`, `RangeAlwaysCovered`, `NeverFreedInKernel`, `CountAlwaysDelivered`, `PartialIsNotDone` | `INV`: the invariants of the five programs together. Each step is a step of one program and a stutter of the others, so the lemmas of the modules above apply through the instances of `MCAio` |
| `Channel_proofs` | `NeverOverfull`, `NeverPopsEmpty`, `ImplementsBoundedFifo` | types, mutual exclusion by position (`HoldsMutex`), and `Foresight`: what a thread tested under the mutex still holds at the step that relies on it. The refinement maps each push and pop to a step of `BoundedFifo`, everything else to a stutter |
| `Printd_proofs` | `TypeCorrect`, `SpoolAlwaysSound` | the type, `AcceptedKept`, `PrintsOwn` and eleven more conjuncts on the spool directory, the queue and the positions of the threads. A number can be given out twice, after an end of the daemon before the job file is written; `Clash` names such numbers, and all that is said of a file, a queue entry or the printer's job is said of the others (`Named`, `Held`, `Unique`, `Spooling`, `OnDisk`, `Sending`). `Numbers` counts the clients yet to come, so that the numbers never run out |
| `Db_inv`, `Db_proofs` | `FilesStaySound`, `NoFailureSound`, `TypesKept` | `IInv` is about `chain`, the ptrs as they will be when the delete under way has taken its record off its chain: with those, every chain and the free list is sound at every step (`Chains`). `Exclusive` and `Locked` say which locks each position holds, so that one process works on a list; `Walking` that a search has not passed its key, `Owning` that a record taken off the free list or appended is on no list and belongs to one process (`Apart`), `Records` that index records do not share data. `OthersKeep` is the lemma that makes the steps short: what a step leaves of the lists and records it has not locked keeps all that is said of the other processes |

The theorems of `MCAio_proofs`, `Printd_proofs`, `Channel_proofs` and `Db_proofs` state
properties of the runs `aio`, `printd`, `channel` and `db`, under the names the runs use.  Those of
the other modules are about one program's own definitions.

Only model-checked: all liveness (fairness is beyond the prover); what the reading
and the easy engines of iotool show and transfer (`ShowsRange`, `TransfersRange`: they
are checked with the constants `MCAio` gives them, and the first is about `String`, a
search in a sequence); `ImplementsStore` of `Db`; all of `DbOpen`, `PrintSession`,
`StoreOrder`, and of the modules for `unpv13e` and `apue.3e` (`StrCli`, `WebGet`, `SockTool`, `TcpServ`,
`DgExchange`, `Heartbeat`, `Oob`, `Icmp`, `Icmpd`, `ApueThreads`, `ApueProc`, `OpenServ`).

The theorems about `Db` have a hypothesis that the run `db` does not need.  A process
that ends inside `_db_dodelete`, after the record's ptr has been turned to the free list
(`d_head`, `d_chain`), leaves its chain leading into the free list.  `FilesStaySound` says
nothing of what comes after that; it covers a failure at every other call, any number of
them, and `NoFailureSound` every behaviour without one.  The run checks `FilesSound` after
a process has ended there too, but with one failure only; what several leave behind is
neither checked nor claimed: a chain that leads into the free list is shared with every
list that takes a record from it, and the invariant says that lists share nothing.
That the calls take effect one at a time (`ImplementsStore`) is
model-checked only: the map to `KvStore` says when each call is decided, and its proof
would need that map as a function of the lists.

## 6. What the models show about the code

Findings (runs that end in a violation):

1. `iouringcp.c:182`: a short transfer is requeued with `iov_base` advanced but the
   file offset not, so the rest of the block comes from, or goes to, its start.
2. `atomic_arr.c:65`: the decreaser re-reads its loop bound while the increaser
   goes on counting, so `assert(a_arr[i] == 1)` fails.
3. `printd.c:547`: `add_worker` links a new node in front of the head without moving
   the head, so `kill_workers`, said to "Cancel (kill) all outstanding workers",
   misses every worker but the first, and unlinking the first loses the others.

Observations made while modelling, which conditions of the properties reflect or
which lie outside them.

The programs of the notes:

- `iouringcp.c`: an entry requeued after a short transfer or EAGAIN is submitted
  only by the next submit; if none follows, the copy waits for ever.  `write_left` counts
  writes queued, not done, so `main` may leave the ring with writes in flight, which
  the kernel then cancels: the copy is reported complete and has a hole.
- `chan.cpp`: after `close`, `>>` returns without data and the consumer prints its
  previous item, or dereferences null if it never had one.
- `aio_epoll.c`: a reap that overtakes the eventfd makes the unsigned
  `finished_aio` wrap, and the loop never ends.
- `iotool.c`: the sector engines compare chunk ends with the length of the range
  and leave out its start, so from an offset other than 0 they send chunks longer than
  the buffer or run past the range; a negative offset can print "Write Done" unwritten;
  `W` takes a short `pwrite` for success; a failed `aligned_alloc` in the aio engine
  leaks its iocb; `rdbytes` at the end of the volume stores before its buffer;
  `wrbytesstr` writes the terminator and bytes never set; `W` leaves gaps
  (`offset += bs * i`); every page heading shows the same sector, narrowed to `unsigned` from 4 GiB on; an empty string
  or `-bs 0` is not refused; any word that begins with d opens with O_DIRECT, but only `d` and
  `direct` have the block size checked; a partial `io_submit` waits for events that never come.
- `release.c`: `b` may be stored before `a`, so a reader that spins on `b` may see
  `a` unset; with optimisation the load of a spin loop is hoisted.  The plain Go
  version may miss both stores, the one with `atomic` never does.

The larger programs of `apue.3e`:

- `db.c`: creating a database truncates both files before any lock is taken, so it
  can cut another process's store, and between its two opens remove the data of a
  record that stays in the index; `O_CREAT` without `O_TRUNC` creates an index that
  has no table, a plain `db_open` of an empty index succeeds, and the first call on
  either dumps core; `db_nextrec`
  needs `db_rewind` after every other call, not only before its first; a record
  appended beyond `PTR_MAX` stays unlinked, seen by `db_nextrec` only; a process
  that ends inside `_db_dodelete` leaves its chain leading into the free list;
  `_db_dodelete` has `sprintf` print `idxbuf` into itself, which C leaves undefined
  and the model takes to copy in place.
- `printd.c`: the job file is written only when the printer thread takes a job, so
  after a restart numbers of jobs still spooled are given out again and `creat`
  empties their data; `build_qonstart` unlinks a whole request when `read` fails;
  `nextjob` overflows before it is tested; a failed `malloc` or `pthread_create`
  leaves a client without an answer.
- `print.c` never shuts down its sending side, so the daemon sees the end of a file
  only by its 20-second time-out, and a file whose sender pauses that long is accepted
  cut short.
- `opend`: a request longer than a buffer is answered twice and shifts the client's
  later answers; `loop.poll.c` packs `pollfd[]` but not `client[]`, which
  it indexes alike, and so logs a wrong uid;
  a failed `serv_accept`, a reset connection or SIGPIPE ends the whole server.
- Threads and processes: `rwlock` can keep its master waiting behind readers; `getenv1`
  returns one buffer to all threads; a popen child closes its own new standard
  descriptor when an earlier stream has descriptor 0 or 1, and a failed `fork` or `fdopen`
  leaks the pipe, which every later child inherits; `sleep1` and `read1` pause for ever when the alarm comes first; `sleep2`
  jumps out of another handler and leaves signals blocked; `devzero` with the signal
  version of `TELL_WAIT` may deadlock; `system` of `proc` loses its status to a SIGCHLD
  handler; `lib/sleep.c` gives an alarm that is pending to the old action; a
  coprocess that uses stdio (`add2stdio`) hangs with its parent.

The programs of `unpv13e`:

- Echo clients: `strclinonb` returns at the socket's end with `fr` not written;
  `strclithread2` shuts down before it sets `done`, so the end of the connection can
  be reported as "server terminated prematurely"; the child of `strclifork` that fails
  in `Readline` sends no signal and its parent pauses for ever; stdio's buffer hides
  lines from `select` in `strcliselect01`, and a client that waits for each line deadlocks
  with `str_echo_stdio02`; a client that blocks in `write` while the server does too (two
  full buffers) never reads again; at the end of the file after a part of a line
  `server/readline.c` and `readline_r.c` return one more than `lib/readline.c`.
- Servers: `tcpservselect03` shares one `Readline` buffer among its clients, which
  mixes and blocks them (`tcpcli06.c` says so of `tcpservselect01`); its `Accept`
  blocks when the waiting connection was reset; `tcpservselect01` dies of a reset; the
  servers that call `accept` themselves, with a test for EINTR only, quit when it returns
  ECONNABORTED; `tcpservpoll01` tests `revents` of entries that `poll` was not asked about;
  `tcpserv02` and `tcpserv03` leave zombies when signals merge.
- Web: `web03` joins a thread while it holds the mutex this thread needs; `web02`
  overwrites the flag of a thread that has already ended.
- `sock`: the `-c` conversion is off by one at the end of its buffer; from its
  second connection on, the parent of `-F` has the signal unblocked and may lose it
  between its test and its pause; two ends that both write more than the buffers hold
  block each other; `loop_udp` has a `servaddr` of its own that hides the one
  `cliopen` filled in.
- Datagrams: `dgclitimeo3` and `dgclibcast1` to `3` block when the alarm comes between the
  test and `recvfrom`; a late reply shifts all later lines for everyone but
  `dg_send_recv`; `rtt_timeout` lets the timer exceed `RTT_RXTMAX`, and the alarm is armed
  before `sigsetjmp`; `dgecho01` quits with "receive overflow" when the ring is
  exactly full.
- Heartbeat and urgent data: the client stops its probes at the end of its input
  while the server still counts them, and may be given up on before it has every line; two probes that come together make the
  second `recv` fail, which ends the process; a delay both ways of more than `maxnprobes`
  seconds makes a live peer look dead; the SIGURG
  handlers of `tcprecv01` and `tcprecv05` may run before the byte is there, or after
  it was read.
- ICMP: `recv_v6` of `traceroute` lacks braces around what its condition should guard, and a
  `gotalarm` set between its test and `recvfrom` is not seen; a summary of `bsdping`
  printed by a handler can see `nreceived` between its increment and decrement;
  `icmpd` keeps `lport` when a client leaves, so an error for the previous one may come in
  place of the "1" the next one in that entry waits for, and it quits; writing to a dead client ends the
  daemon.

## 7. Not modelled

- Formatting and layout of printed output everywhere.
- Time is not modelled but in `Heartbeat`: an armed alarm may go off at any moment.
- In `Db` a `writev` is done in full or fails: after a short one `db.c` dumps core with a
  part of the record at the end of the file, which the model leaves out.  `db_open` and
  `db_close` are the initial and final state, `DbOpen` has their
  steps; keys of spaces only, which look deleted, are left out.
- In `Printd` the IPP and HTTP headers and the answer parser: an answer is success or
  not.  `nextjob` does not wrap: that takes 2^31 jobs.
- In `StoreOrder` only x86 and the compiler; a weaker processor allows more.  The
  other files of `atomic_barrier` are straight-line and made to be disassembled.
- In `SockTool` the reading of the command line, urgent data, source routes and
  pauses; in `OpenServ` the bounds `maxi` and `maxfd`, which only save the loop empty
  entries, and the uid that `loop.poll.c` logs; in `TcpServ` resets of Unix domain
  connections, which have none; in `Oob` any kernel but Linux; in `Icmp` the parsing of options and the fields shown for a packet; in
  `DgExchange` the SIGINT handlers that count datagrams in the `dgecholoop` programs.
- The libevent server: its callbacks keep no state, everything they change is
  libevent's.  `sync_buf`: two threads and one unsynchronised `int`, of which the
  program promises nothing.
- `misc`, `std_libs`, `io_patterns`, `cmisc`, `bdev`, `mytemplate`, `gomisc`,
  `pythonmisc`, `leveldb`, the other `aio` programs: demonstrations, one call or one
  language feature each, without state between operations.
- `unpv13e`: SCTP (the echo programs repeat those over TCP and UDP, the rest is the
  kernel's SCTP), routing and key sockets, STREAMS, name service (one request and the
  decoding of its answer), socket options, interfaces and raw packets, trial
  programs, wrappers that call one function and quit if it fails.
- `apue.3e`: the pseudo-terminal program (the line discipline is the kernel's), the
  socket examples (designs that `TcpServ` and `DgExchange` have), error reporting and
  wrappers, and the figures that show one call each.

`PROJECT.json` lists these groups with their sources and reasons.

## 8. What would come next

1. The refinement of `KvStore` by `Db` as a theorem: from `IInv`, each call changes the
   map at the step that decides it.
2. Proofs about the tables of `TcpServ` and `Icmpd` for any number of clients, and
   about the reference counts of `ApueThreads`.
3. A composition of `PrintSession` and `Printd` in which the answer to a client and the
   queue of the printer are one state.
