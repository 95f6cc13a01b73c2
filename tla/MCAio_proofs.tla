---------------------------- MODULE MCAio_proofs ----------------------------
(***************************************************************************)
(* The invariants of MCAio for every value of its constants.  The proofs   *)
(* about the programs are in their own modules; here they are put          *)
(* together: a step of MCAio is a step of one program and a stutter of the *)
(* others.                                                                 *)
(***************************************************************************)
EXTENDS MCAio, TLAPS

-----------------------------------------------------------------------------
(* The five programs together *)

INV == Copy!Full /\ EpollInv /\ ArrInv /\ Writer!Full /\ SubmitInv

\* The lemmas of an instance hold under the assumptions of its module.
LEMMA Components ==
  /\ Copy!Init => Copy!Full
  /\ Copy!Full /\ [Copy!Next]_(Copy!vars) => Copy!Full'
  /\ Writer!Init => Writer!Full
  /\ Writer!Full /\ [Writer!Next]_(Writer!vars) => Writer!Full'
<1>1. /\ Copy!Init => Copy!Full
      /\ Copy!Full /\ [Copy!Next]_(Copy!vars) => Copy!Full'
  BY QDAssumption, BSAssumption, SizeAssumption, FaultsAssumption,
     Copy!InitFull, Copy!NextFull, ZenonT(30)
<1>2. /\ Writer!Init => Writer!Full
      /\ Writer!Full /\ [Writer!Next]_(Writer!vars) => Writer!Full'
  BY EnginesAssumption, SizesAssumption, WordAssumption, CntAssumption,
     Writer!InitFull, Writer!NextFull, ZenonT(30)
  DEF ByteEngines, SectEngines, Writer!ByteEngines, Writer!SectEngines
<1> QED  BY <1>1, <1>2, ZenonT(30)

LEMMA InitINV == Init => INV
  BY Components, EpollInit, ArrInit, SubmitInit, ZenonT(30) DEF Init, INV

\* A step of one program leaves the variables of the others alone.
LEMMA OneMoves ==
  ASSUME [Next]_vars
  PROVE  /\ [Copy!Next]_(Copy!vars) /\ [Epoll!Next]_(Epoll!vars) /\ [Arr!Next]_(Arr!vars)
         /\ [Writer!Next]_(Writer!vars) /\ [Submit!Next]_(Submit!vars)
<1>1. /\ Copy!Next \/ UNCHANGED cp_vars
      /\ Epoll!Next \/ UNCHANGED ep_vars
      /\ Arr!Next \/ UNCHANGED ar_vars
      /\ Writer!Next \/ UNCHANGED wr_vars
      /\ Submit!Next \/ UNCHANGED su_vars
  BY ZenonT(30) DEF Next, vars
<1>2. UNCHANGED cp_vars => UNCHANGED Copy!vars
  BY ZenonT(30) DEF cp_vars, Copy!vars
<1>3. UNCHANGED ep_vars => UNCHANGED Epoll!vars
  BY ZenonT(30) DEF ep_vars, Epoll!vars
<1>4. UNCHANGED ar_vars => UNCHANGED Arr!vars
  BY ZenonT(30) DEF ar_vars, Arr!vars, Arr!incVars, Arr!decVars
<1>5. UNCHANGED wr_vars => UNCHANGED Writer!vars
  BY ZenonT(30) DEF wr_vars, Writer!vars, Writer!command
<1>6. UNCHANGED su_vars => UNCHANGED Submit!vars
  BY ZenonT(30) DEF su_vars, Submit!vars
<1> QED  BY <1>1, <1>2, <1>3, <1>4, <1>5, <1>6, ZenonT(30)

LEMMA NextINV == INV /\ [Next]_vars => INV'
  BY OneMoves, Components, EpollNext, ArrNext, SubmitNext, ZenonT(30) DEF INV

LEMMA AlwaysINV == Spec => []INV
  BY InitINV, NextINV, PTL DEF Spec

\* copy_file: for every queue depth, block size, file and number of failures, reads and writes
\* count the allocated requests, assert(sqe) holds, and 0 is returned only after the reads.
THEOREM SlotsAlwaysAccounted == Spec => []SlotsAccounted
<1>1. INV => SlotsAccounted
  BY ZenonT(30) DEF INV, SlotsAccounted, Copy!Full, Copy!IInv, Copy!Returns
<1> QED  BY <1>1, AlwaysINV, PTL

\* aio_epoll: for any number of reads, finished_aio and the eventfd together count the ring
\* exactly or one wrap ahead, and edge-triggered epoll misses no completion.
THEOREM CountAlwaysExact == Spec => []CountExact
<1>1. INV => CountExact
  BY ZenonT(30) DEF INV, CountExact, EpollInv
<1> QED  BY <1>1, AlwaysINV, PTL

\* aio_epoll: every submitted read is in flight, in the ring or reaped, exactly once, and the
\* read that follows a wake-up never finds the eventfd empty.
THEOREM NoEventLost == Spec => [](Epoll!EventsConserved /\ Epoll!ReadNeverEmpty)
<1>1. INV => Epoll!EventsConserved /\ Epoll!ReadNeverEmpty
  BY ZenonT(30) DEF INV, EpollInv
<1> QED  BY <1>1, AlwaysINV, PTL

\* aio_epoll: once a reap has overtaken the eventfd the inner loop never ends.
THEOREM OvertakenLoops == Spec => Epoll!OvertakenForEver
<1>1. INV /\ [Next]_vars => [Epoll!Overtaken /\ ep_pc = "reap" => ep_pc' = "reap"]_(Epoll!vars)
  BY OneMoves, EpollOvertaken, ZenonT(30) DEF INV
<1> QED  BY <1>1, AlwaysINV, PTL DEF Spec, Epoll!OvertakenForEver

\* atomic_arr: for every array and every interleaving, a thread's test of a cell still holds
\* when it writes the cell one step later, and the decreaser never leaves the array.
THEOREM TestAlwaysHolds == Spec => []TestStillHolds
<1>1. INV => TestStillHolds
  BY ArrInBounds, ZenonT(30) DEF INV, TestStillHolds, ArrInv
<1> QED  BY <1>1, AlwaysINV, PTL

\* iotool's pwrite engines: for every buffer, volume and range, "Write Done" means that the
\* range was written, and no engine writes before it or a whole buffer behind it; where the
\* chunks are computed from the start (the byte engines, and the sector engines from sector 0)
\* nothing outside the range is written and without short writes it holds the copies.
THEOREM RangeAlwaysCovered == Spec => []CoversRange
<1>1. INV => CoversRange
  BY EnginesAssumption, SizesAssumption, WordAssumption, CntAssumption,
     Writer!FullCovers, Writer!FullNear, Writer!FullOnlyRequested, Writer!FullCopies, ZenonT(30)
  DEF INV, CoversRange, ByteEngines, SectEngines, Writer!ByteEngines, Writer!SectEngines
<1> QED  BY <1>1, AlwaysINV, PTL

\* aiowrbytesstr: for any number of iocbs, nothing is released while the kernel may use it,
\* nothing stays allocated, and "all io done" means that every event was delivered.
THEOREM NeverFreedInKernel == Spec => []NotFreedInKernel
<1>1. INV => NotFreedInKernel
  BY ZenonT(30) DEF INV, NotFreedInKernel, SubmitInv
<1> QED  BY <1>1, AlwaysINV, PTL

\* aiowrbytesstr: total_io_done is exact for every number of iocbs and every way in which
\* the completions are spread over the calls of io_getevents.
THEOREM CountAlwaysDelivered == Spec => []Submit!CountIsDelivered
<1>1. INV => Submit!CountIsDelivered
  BY ZenonT(30) DEF INV, SubmitInv
<1> QED  BY <1>1, AlwaysINV, PTL

\* aiowrbytesstr: when io_submit took only some of the iocbs, "all io done" is never printed.
THEOREM PartialIsNotDone == Spec => []Submit!PartialNeverDone
<1>1. INV => Submit!PartialNeverDone
  BY ZenonT(30) DEF INV, SubmitInv
<1> QED  BY <1>1, AlwaysINV, PTL
=============================================================================
