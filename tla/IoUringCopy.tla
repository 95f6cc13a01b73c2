---------------------------- MODULE IoUringCopy ----------------------------
(***************************************************************************)
(* copy_file of io_uring/iouringcp.c: a single-threaded copy loop that     *)
(* keeps up to QD requests in an io_uring ring, the kernel that completes  *)
(* them, and main, which closes the files and tears the ring down as soon  *)
(* as copy_file returns.                                                   *)
(*                                                                         *)
(* A struct io_data is named by its first_offset, the position where its   *)
(* block begins (positions inside a block stay unused).  The byte at       *)
(* position p of the input file is represented by p itself, so a correct   *)
(* copy is the identity on 0 .. Size-1.  The submission and completion     *)
(* rings are sets of requests: io_uring orders neither execution nor       *)
(* completion.                                                             *)
(*                                                                         *)
(* Everything that can go wrong outside the program (failed malloc, failed *)
(* or partial io_uring_submit, failed wait, short or failed request) takes *)
(* one unit of the budget `faults', at most MaxFaults in a behaviour.      *)
(***************************************************************************)
EXTENDS IoUringCopyParams

EAGAIN == -11      \* the one error copy_file retries
EIO == -5          \* stands for every other error
Hole == -1         \* a byte nobody has written

Positions == 0 .. Size - 1
Offsets == Positions

VARIABLES pc,          \* where copy_file is
          got_comp,    \* a completion was found in this round
          had_reads,   \* reads at the top of this round
          insize,      \* bytes for which no read is queued yet
          write_left,  \* bytes for which no write is queued yet
          offset,      \* position of the next read
          reads,       \* reads outstanding
          writes,      \* writes outstanding
          data,        \* struct io_data by first_offset
          where,       \* the place of each io_data
          res,         \* cqe->res of a completed request
          out,         \* the output file
          faults       \* failures still to come

progVars == <<pc, got_comp, had_reads, insize, write_left, offset, reads, writes>>
vars == <<pc, got_comp, had_reads, insize, write_left, offset, reads, writes,
          data, where, res, out, faults>>

PCs == {"loop", "fill", "submit", "reap", "done", "failed", "exited", "aborted"}
Places == {"unused", "queued", "inflight", "complete", "freed", "cancelled"}

FirstLen(o) == IF Size - o > BS THEN BS ELSE Size - o

\* an io_data made ready for a transfer of its first n bytes
Prepared(d, read, n) == [read |-> read, base |-> 0, len |-> n, buf |-> d.buf]

\* the same after n bytes were transferred: iov moves on, data->offset does not
Resumed(d, n) == [read |-> d.read, base |-> d.base + n, len |-> d.len - n, buf |-> d.buf]

In(place) == {o \in Offsets : where[o] = place}

\* io_uring_get_sqe returns NULL exactly when QD entries await submission
SQFull == Cardinality(In("queued")) >= QD

Fault == faults > 0 /\ faults' = faults - 1

Init ==
  /\ pc = "loop"
  /\ got_comp = FALSE
  /\ had_reads = 0
  /\ insize = Size
  /\ write_left = Size
  /\ offset = 0
  /\ reads = 0
  /\ writes = 0
  /\ data = [o \in Offsets |-> [read |-> TRUE, base |-> 0, len |-> FirstLen(o),
                                buf |-> [j \in 0 .. BS - 1 |-> Hole]]]
  /\ where = [o \in Offsets |-> "unused"]
  /\ res = [o \in Offsets |-> 0]
  /\ out = [p \in Positions |-> Hole]
  /\ faults = MaxFaults

-----------------------------------------------------------------------------
(* The outer loop and the reads it queues *)

\* mutation: the loop ends with the last read queued
MoreReads == insize # 0

MoreToDo == insize # 0 \/ write_left # 0

Outer ==
  /\ pc = "loop"
  /\ IF MoreToDo
       THEN pc' = "fill" /\ had_reads' = reads
       ELSE pc' = "done" /\ UNCHANGED had_reads
  /\ UNCHANGED <<got_comp, insize, write_left, offset, reads, writes,
                 data, where, res, out, faults>>

\* mutation: one request too many
OneTooMany == reads + writes <= QD

\* the break of the queueing loop, negated
HasRoom == reads + writes < QD

QueueRead ==
  /\ pc = "fill" /\ insize # 0 /\ HasRoom
  /\ ~SQFull
  /\ data' = [data EXCEPT ![offset] = Prepared(@, TRUE, FirstLen(offset))]
  /\ where' = [where EXCEPT ![offset] = "queued"]
  /\ insize' = insize - FirstLen(offset)
  /\ offset' = offset + FirstLen(offset)
  /\ reads' = reads + 1
  /\ UNCHANGED <<pc, got_comp, had_reads, write_left, writes, res, out, faults>>

\* queue_read returns 1: malloc failed, or the submission ring is full
QueueReadFails ==
  /\ pc = "fill" /\ insize # 0 /\ HasRoom
  /\ IF SQFull THEN UNCHANGED faults ELSE Fault
  /\ pc' = "submit"
  /\ UNCHANGED <<got_comp, had_reads, insize, write_left, offset, reads, writes,
                 data, where, res, out>>

EndFill ==
  /\ pc = "fill" /\ (insize = 0 \/ ~HasRoom)
  /\ pc' = "submit"
  /\ UNCHANGED <<got_comp, had_reads, insize, write_left, offset, reads, writes,
                 data, where, res, out, faults>>

-----------------------------------------------------------------------------
(* io_uring_submit: the kernel takes every queued entry; when it fails it   *)
(* takes some of them, and returns an error when it took none.              *)

Taken(W, T) == [o \in Offsets |-> IF o \in T THEN "inflight" ELSE W[o]]

SubmitOutcome(W, T) ==
  LET queued == {o \in Offsets : W[o] = "queued"} IN
  /\ T \subseteq queued
  /\ IF T = queued THEN UNCHANGED faults ELSE Fault
  /\ where' = Taken(W, T)

Submit ==
  /\ pc = "submit" /\ had_reads # reads
  /\ \E T \in SUBSET In("queued") :
       /\ SubmitOutcome(where, T)
       /\ IF T = {} THEN pc' = "done" /\ UNCHANGED got_comp
                    ELSE pc' = "reap" /\ got_comp' = FALSE
  /\ UNCHANGED <<had_reads, insize, write_left, offset, reads, writes, data, res, out>>

NoSubmit ==
  /\ pc = "submit" /\ had_reads = reads
  /\ pc' = "reap" /\ got_comp' = FALSE
  /\ UNCHANGED <<had_reads, insize, write_left, offset, reads, writes,
                 data, where, res, out, faults>>

-----------------------------------------------------------------------------
(* The completion loop *)

\* while (write_left) ends, or nothing to peek at after the first completion
EndReap ==
  /\ pc = "reap"
  /\ write_left = 0 \/ (got_comp /\ In("complete") = {})
  /\ pc' = "loop"
  /\ UNCHANGED <<got_comp, had_reads, insize, write_left, offset, reads, writes,
                 data, where, res, out, faults>>

WaitFails ==
  /\ pc = "reap" /\ write_left # 0 /\ ~got_comp
  /\ Fault
  /\ pc' = "failed" /\ got_comp' = TRUE
  /\ UNCHANGED <<had_reads, insize, write_left, offset, reads, writes,
                 data, where, res, out>>

Reaped(o) == pc = "reap" /\ write_left # 0 /\ where[o] = "complete" /\ got_comp' = TRUE

\* queue_prepped: assert(sqe), then the request is back in the ring
QueuePrepped(o) ==
  IF SQFull THEN pc' = "aborted" /\ UNCHANGED where
            ELSE pc' = pc /\ where' = [where EXCEPT ![o] = "queued"]

Retry(o) ==
  /\ Reaped(o) /\ res[o] = EAGAIN
  /\ QueuePrepped(o)
  /\ UNCHANGED <<had_reads, insize, write_left, offset, reads, writes,
                 data, res, out, faults>>

RequestFails(o) ==
  /\ Reaped(o) /\ res[o] < 0 /\ res[o] # EAGAIN
  /\ pc' = "failed"
  /\ UNCHANGED <<had_reads, insize, write_left, offset, reads, writes,
                 data, where, res, out, faults>>

RequeueShort(o) ==
  /\ Reaped(o) /\ res[o] >= 0 /\ res[o] # data[o].len
  /\ data' = [data EXCEPT ![o] = Resumed(@, res[o])]
  /\ QueuePrepped(o)
  /\ UNCHANGED <<had_reads, insize, write_left, offset, reads, writes, res, out, faults>>

\* the result of io_uring_submit is ignored here
QueueWrite(o) ==
  /\ data' = [data EXCEPT ![o] = Prepared(@, FALSE, FirstLen(o))]
  /\ IF SQFull
       THEN pc' = "aborted" /\ UNCHANGED <<where, faults>>
       ELSE /\ pc' = pc
            /\ \E T \in SUBSET (In("queued") \cup {o}) :
                 SubmitOutcome([where EXCEPT ![o] = "queued"], T)

ReadDone(o) ==
  /\ Reaped(o) /\ res[o] = data[o].len /\ data[o].read
  /\ QueueWrite(o)
  /\ write_left' = write_left - FirstLen(o)
  /\ reads' = reads - 1
  /\ writes' = writes + 1
  /\ UNCHANGED <<had_reads, insize, offset, res, out>>

WriteDone(o) ==
  /\ Reaped(o) /\ res[o] = data[o].len /\ ~data[o].read
  /\ where' = [where EXCEPT ![o] = "freed"]
  /\ writes' = writes - 1
  /\ UNCHANGED <<pc, had_reads, insize, write_left, offset, reads, data, res, out, faults>>

-----------------------------------------------------------------------------
(* The kernel: request o transfers its first n bytes and completes *)

Transfer(o, n) ==
  LET d == data[o] IN
  IF d.read
    THEN /\ data' = [data EXCEPT ![o].buf =
                       [j \in 0 .. BS - 1 |-> IF j \in d.base .. d.base + n - 1
                                                THEN o + j - d.base ELSE @[j]]]
         /\ out' = out
    ELSE /\ out' = [p \in Positions |-> IF p \in o .. o + n - 1
                                          THEN d.buf[d.base + p - o] ELSE out[p]]
         /\ data' = data

Complete(o) ==
  /\ where[o] = "inflight"
  /\ where' = [where EXCEPT ![o] = "complete"]
  /\ \/ \E n \in 1 .. data[o].len :
          /\ Transfer(o, n)
          /\ res' = [res EXCEPT ![o] = n]
          /\ IF n = data[o].len THEN UNCHANGED faults ELSE Fault
     \/ \E e \in {EAGAIN, EIO} :
          /\ res' = [res EXCEPT ![o] = e]
          /\ Fault
          /\ UNCHANGED <<data, out>>
  /\ UNCHANGED progVars

-----------------------------------------------------------------------------
(* main after copy_file: close(outfd), io_uring_queue_exit and the end of   *)
(* the process.  Nothing waits for the writes still in flight: the kernel   *)
(* cancels those it has not started and finishes the others.                *)

Exit ==
  /\ pc \in {"done", "failed"}
  /\ pc' = "exited"
  /\ \E C \in SUBSET In("inflight") :
       where' = [o \in Offsets |-> IF o \in C THEN "cancelled" ELSE where[o]]
  /\ UNCHANGED <<got_comp, had_reads, insize, write_left, offset, reads, writes,
                 data, res, out, faults>>

\* the process has ended, and so has the kernel's work for it
Finished == pc \in {"exited", "aborted"} /\ In("inflight") = {} /\ UNCHANGED vars

Program ==
  \/ Outer \/ QueueRead \/ QueueReadFails \/ EndFill \/ Submit \/ NoSubmit
  \/ EndReap \/ WaitFails \/ Exit
  \/ \E o \in Offsets :
       Retry(o) \/ RequestFails(o) \/ RequeueShort(o) \/ ReadDone(o) \/ WriteDone(o)

Kernel == \E o \in Offsets : Complete(o)

Next == Program \/ Kernel \/ Finished

Fairness == WF_vars(Program) /\ \A o \in Offsets : WF_vars(Complete(o))

Spec == Init /\ [][Next]_vars /\ Fairness

-----------------------------------------------------------------------------
(* What is checked *)

\* the io_data allocated and not freed, by direction
Live == Offsets \ (In("unused") \cup In("freed"))
LiveReads == {o \in Live : data[o].read}
LiveWrites == {o \in Live : ~data[o].read}

\* Every variable of copy_file and every io_data has its type; a transfer
\* never leaves the io_data's buffer.
TypeOK ==
  /\ pc \in PCs
  /\ got_comp \in BOOLEAN
  /\ had_reads \in Nat /\ insize \in Nat /\ write_left \in Int
  /\ offset \in Nat /\ reads \in Nat /\ writes \in Nat
  /\ data \in [Offsets -> [read : BOOLEAN, base : 0 .. BS, len : 0 .. BS,
                           buf : [0 .. BS - 1 -> Positions \cup {Hole}]]]
  /\ where \in [Offsets -> Places]
  /\ res \in [Offsets -> Nat \cup {EAGAIN, EIO}]
  /\ out \in [Positions -> Positions \cup {Hole}]
  /\ faults \in 0 .. MaxFaults

\* reads and writes count exactly the io_data that are allocated, by
\* direction, through retries, short transfers and partial submissions, and
\* together never exceed the queue depth.
SlotsAccounted ==
  pc # "aborted" =>
    /\ reads = Cardinality(LiveReads)
    /\ writes = Cardinality(LiveWrites)
    /\ reads + writes <= QD

\* What makes the accounting inductive: the read position splits the file
\* into blocks handed out and blocks not yet used, and no completion reports
\* more than was asked for.
Layout ==
  /\ offset <= Size /\ insize = Size - offset
  /\ \A o \in Offsets : o >= offset => where[o] = "unused"
  /\ \A o \in Offsets : /\ data[o].base + data[o].len <= FirstLen(o)
                        /\ where[o] = "complete" => res[o] <= data[o].len

\* assert(sqe) in queue_prepped never fails: whenever a completion is
\* requeued or turned into a write the submission ring has a free entry,
\* although earlier requeued entries may not have been submitted.
NoAbort == pc # "aborted"

\* When copy_file returns 0 the write of every block has at least been
\* queued, unless io_uring_submit failed and left entries in the ring.  (The
\* code promises no more: write_left is decremented when a write is queued,
\* not when it is done.)
ReturnsAfterReading ==
  pc = "done" => \/ offset = Size /\ LiveReads = {}
                 \/ In("queued") # {} /\ faults < MaxFaults

\* "All done": a block whose write has completed in full is, byte for byte,
\* the block of the input file, and no byte of the output is ever wrong.
CopyExact ==
  /\ \A p \in Positions : out[p] \in {Hole, p}
  /\ \A o \in In("freed") : \A p \in o .. o + FirstLen(o) - 1 : out[p] = p

\* position p is in the block of o, which has been handed to the kernel to be
\* written with the right byte and was cancelled when the ring went away
LostAtExit(p) ==
  \E o \in In("cancelled") :
    ~data[o].read /\ p \in o .. o + FirstLen(o) - 1 /\ data[o].buf[p - o] = p

\* With no failure the program ends and the output is the input for good, but
\* for the writes that were in flight when main tore the ring down: each byte
\* is either copied or lost with a request that held it and was never waited for.
EventuallyCopied ==
  [](faults = MaxFaults) =>
    <>[](pc = "exited" /\ \A p \in Positions : out[p] = p \/ LostAtExit(p))
=============================================================================
