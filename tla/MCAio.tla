------------------------------- MODULE MCAio -------------------------------
(***************************************************************************)
(* The input/output programs written for this repository, checked          *)
(* together: the io_uring copy, the eventfd reader, the two-thread array   *)
(* test and the engines of iotool.  which says the one that runs; the      *)
(* others stay in an initial state.                                        *)
(***************************************************************************)
EXTENDS AioThreads_proofs, IoUringCopyParams

VARIABLES which,
          cp_pc, cp_got_comp, cp_had_reads, cp_insize, cp_write_left, cp_offset, cp_reads,
          cp_writes, cp_data, cp_where, cp_res, cp_out, cp_faults,
          wr_engine, wr_off, wr_cnt, wr_str_len, wr_pc, wr_buf, wr_wr_offset, wr_dev, wr_faults,
          ea_op, ea_flag, ea_bs, ea_sectors, ea_counts, ea_empty, ea_pc, ea_i, ea_offset,
          ea_touched, ea_last, ea_faults,
          rd_engine, rd_off, rd_cnt, rd_pc, rd_i, rd_buf, rd_shown, rd_faults

cp_vars == <<cp_pc, cp_got_comp, cp_had_reads, cp_insize, cp_write_left, cp_offset, cp_reads,
             cp_writes, cp_data, cp_where, cp_res, cp_out, cp_faults>>
wr_vars == <<wr_engine, wr_off, wr_cnt, wr_str_len, wr_pc, wr_buf, wr_wr_offset, wr_dev, wr_faults>>
ea_vars == <<ea_op, ea_flag, ea_bs, ea_sectors, ea_counts, ea_empty, ea_pc, ea_i, ea_offset,
             ea_touched, ea_last, ea_faults>>
rd_vars == <<rd_engine, rd_off, rd_cnt, rd_pc, rd_i, rd_buf, rd_shown, rd_faults>>
vars == <<which, cp_vars, ep_vars, ar_vars, wr_vars, su_vars, ea_vars, rd_vars>>

\* The two modules instantiated with their proofs have theorems MCAio_proofs
\* cites; for model checking they are the components they extend.
Copy == INSTANCE IoUringCopy_proofs WITH
  pc <- cp_pc, got_comp <- cp_got_comp, had_reads <- cp_had_reads, insize <- cp_insize,
  write_left <- cp_write_left, offset <- cp_offset, reads <- cp_reads, writes <- cp_writes,
  data <- cp_data, where <- cp_where, res <- cp_res, out <- cp_out, faults <- cp_faults
Writer == INSTANCE IotoolWrite_proofs WITH
  engine <- wr_engine, off <- wr_off, cnt <- wr_cnt, str_len <- wr_str_len, pc <- wr_pc,
  buf <- wr_buf, wr_offset <- wr_wr_offset, dev <- wr_dev, faults <- wr_faults
Easy == INSTANCE IotoolEasy WITH
  Ops <- {"W", "R"}, Flags <- {"direct", "dio", "buffer"}, Sizes <- {0, 1, 2, 3, 4, 6}, MaxOff <- 2,
  Counts <- {0, 1, 2, 3, 16, 22, 33}, sector_size <- 2, BLOCK_SIZE_MAX <- 5, Word <- 64,
  DevSize <- 16, MaxFaults <- 1, op <- ea_op, flag <- ea_flag, bs <- ea_bs, sectors <- ea_sectors,
  counts <- ea_counts, empty <- ea_empty, pc <- ea_pc, i <- ea_i, offset <- ea_offset,
  touched <- ea_touched, last <- ea_last, faults <- ea_faults
Reader == INSTANCE IotoolRead WITH
  Engines <- {"rdsects", "rdonesect", "rdonepage", "rdpages", "rdbytes"}, Offs <- {0, 1, 3, 4, 9},
  Counts <- {0, 1, 2, 3}, SECTOR_SIZE <- 3, PAGE_SIZE <- 6, Line <- 1, UInt <- 12, VolSize <- 17,
  MaxFaults <- 2, engine <- rd_engine, off <- rd_off, cnt <- rd_cnt, pc <- rd_pc, i <- rd_i,
  buf <- rd_buf, shown <- rd_shown, faults <- rd_faults

Init ==
  /\ which \in {"copy", "epoll", "arr", "write", "aio", "easy", "read"}
  /\ which # "arr" => ar_max_change_items = 0
  /\ which # "write" => wr_engine = "wrbyteschar" /\ wr_off = 0 /\ wr_cnt = 1
  /\ which # "easy" => /\ ea_op = "R" /\ ea_flag = "buffer" /\ ea_bs = 1 /\ ea_sectors = 0
                       /\ ea_counts = 1 /\ ea_empty = FALSE
  /\ which # "read" => rd_engine = "rdsects" /\ rd_off = 0 /\ rd_cnt = 1
  /\ Copy!Init /\ Epoll!Init /\ Arr!Init /\ Writer!Init /\ Submit!Init /\ Easy!Init /\ Reader!Init

Next ==
  /\ UNCHANGED which
  /\ \/ /\ which = "copy" /\ Copy!Next
        /\ UNCHANGED <<ep_vars, ar_vars, wr_vars, su_vars, ea_vars, rd_vars>>
     \/ /\ which = "epoll" /\ Epoll!Next
        /\ UNCHANGED <<cp_vars, ar_vars, wr_vars, su_vars, ea_vars, rd_vars>>
     \/ /\ which = "arr" /\ Arr!Next
        /\ UNCHANGED <<cp_vars, ep_vars, wr_vars, su_vars, ea_vars, rd_vars>>
     \/ /\ which = "write" /\ Writer!Next
        /\ UNCHANGED <<cp_vars, ep_vars, ar_vars, su_vars, ea_vars, rd_vars>>
     \/ /\ which = "aio" /\ Submit!Next
        /\ UNCHANGED <<cp_vars, ep_vars, ar_vars, wr_vars, ea_vars, rd_vars>>
     \/ /\ which = "easy" /\ Easy!Next
        /\ UNCHANGED <<cp_vars, ep_vars, ar_vars, wr_vars, su_vars, rd_vars>>
     \/ /\ which = "read" /\ Reader!Next
        /\ UNCHANGED <<cp_vars, ep_vars, ar_vars, wr_vars, su_vars, ea_vars>>

\* Each module's own fairness, for the program that runs.
Fairness ==
  /\ WF_cp_vars(which = "copy" /\ Copy!Program)
  /\ \A o \in Copy!Offsets : WF_cp_vars(which = "copy" /\ Copy!Complete(o))
  /\ WF_ep_vars(which = "epoll" /\ Epoll!Submit)
  /\ WF_ep_vars(which = "epoll" /\ Epoll!EpollAdd)
  /\ WF_ep_vars(which = "epoll" /\ Epoll!EpollWait)
  /\ WF_ep_vars(which = "epoll" /\ Epoll!ReadEfd)
  /\ WF_ep_vars(which = "epoll" /\ Epoll!Reap)
  /\ WF_ep_vars(which = "epoll" /\ Epoll!ReapDone)
  /\ WF_ep_vars(which = "epoll" /\ Epoll!Return)
  /\ WF_ep_vars(which = "epoll" /\ Epoll!Post)
  /\ WF_ep_vars(which = "epoll" /\ Epoll!Signal)
  /\ WF_ar_vars(which = "arr" /\ Arr!Increaser)
  /\ WF_ar_vars(which = "arr" /\ Arr!Decreaser)
  /\ WF_ar_vars(which = "arr" /\ Arr!Joined)
  /\ WF_wr_vars(which = "write" /\ Writer!Step)
  /\ WF_su_vars(which = "aio" /\ Submit!Main)
  /\ WF_su_vars(which = "aio" /\ Submit!Kernel)

Spec == Init /\ [][Next]_vars /\ Fairness

-----------------------------------------------------------------------------
(* What is checked *)

\* copy_file: reads and writes count exactly the requests that are allocated, together never
\* more than the queue depth, so assert(sqe) never fails; and it returns 0 only when the write
\* of every block has been queued, unless io_uring_submit failed.
SlotsAccounted == Copy!SlotsAccounted /\ Copy!NoAbort /\ Copy!ReturnsAfterReading

\* iouringcp: with no failure it ends and the output is the input for good, but for the writes in
\* flight when main tears the ring down, which the kernel may cancel.
EventuallyCopied == which = "copy" => Copy!EventuallyCopied

\* aio_epoll: finished_aio plus what the eventfd has still to deliver is the number of events in
\* the ring, exactly or off by one wrap of the counter; and no announced completion is missed,
\* although epoll is edge-triggered.
CountExact == Epoll!CountExact /\ Epoll!NoLostEdge

\* atomic_arr: what a thread tested still holds when it acts on it, and the decreaser never
\* indexes past the array.
TestStillHolds == Arr!TestStillHolds /\ Arr!InBounds

\* iotool's pwrite engines: "Write Done" means that every byte of the range was written; nothing
\* before the range ever is, nor anything a buffer or more behind it; and the byte engines, and
\* the sector engines from sector 0, write nothing outside the range and, without short writes,
\* leave in it the string over and over.
CoversRange ==
  Writer!CoversRange /\ Writer!NearRange /\ Writer!OnlyRequested /\ Writer!WritesCopies

\* aio_epoll's main returns unless a reap overtook the eventfd, the array test ends, an engine
\* that writes ends unless its string is empty, and aiowrbytesstr ends if io_submit took every
\* iocb.
Ends ==
  /\ which = "epoll" => Epoll!EndsUnlessOvertaken
  /\ which = "arr" => Arr!Ends
  /\ which = "write" => Writer!Ends
  /\ which = "aio" => Submit!EndsIfAllTaken

\* aiowrbytesstr: no iocb or buffer is released while the kernel may use it, nothing stays
\* allocated, and "all io done" means that the event of every iocb was delivered.
NotFreedInKernel ==
  Submit!NotFreedInKernel /\ Submit!EverythingFreed /\ Submit!DoneMeansAllDelivered

\* The easy engines transfer the blocks asked for and, opened as "d" or "direct", ask only for
\* whole sectors.
TransfersRange == Easy!TransfersRange /\ Easy!DirectAligned

\* The reading engines show the range in order, each sector under its number and with its own
\* bytes, and a page that cannot be read costs no other page.
ShowsRange == Reader!ShowsRange /\ Reader!PagesIndependent
=============================================================================
