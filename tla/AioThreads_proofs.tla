------------------------- MODULE AioThreads_proofs -------------------------
(***************************************************************************)
(* aio_epoll, atomic_arr and the aiowrbytesstr engine of iotool, the three *)
(* programs of MCAio in which a thread acts on what another, or the        *)
(* kernel, may have changed since: their state and, for every value of the *)
(* constants, their inductive invariants.                                  *)
(***************************************************************************)
EXTENDS AtomicArrParams, AioEpollParams, IotoolParams, FiniteSetTheorems, TLAPS

VARIABLES ep_pc, ep_i, ep_finished_aio, ep_inflight, ep_ring, ep_unsignalled, ep_efd, ep_armed,
          ep_ready,
          ar_a_arr, ar_change_items, ar_max_change_items, ar_inc, ar_inc_i, ar_inc_loop,
          ar_inc_w_cnt, ar_dec, ar_dec_i, ar_dec_loop, ar_dec_w_cnt, ar_process,
          su_pc, su_ctx, su_p_iocb_array, su_iocb, su_ret, su_total_io_done

ep_vars == <<ep_pc, ep_i, ep_finished_aio, ep_inflight, ep_ring, ep_unsignalled, ep_efd, ep_armed,
             ep_ready>>
ar_vars == <<ar_a_arr, ar_change_items, ar_max_change_items, ar_inc, ar_inc_i, ar_inc_loop,
             ar_inc_w_cnt, ar_dec, ar_dec_i, ar_dec_loop, ar_dec_w_cnt, ar_process>>
su_vars == <<su_pc, su_ctx, su_p_iocb_array, su_iocb, su_ret, su_total_io_done>>

Epoll == INSTANCE AioEpoll WITH
  pc <- ep_pc, i <- ep_i, finished_aio <- ep_finished_aio, inflight <- ep_inflight,
  ring <- ep_ring, unsignalled <- ep_unsignalled, efd <- ep_efd, armed <- ep_armed,
  ready <- ep_ready
Arr == INSTANCE AtomicArr WITH
  a_arr <- ar_a_arr, change_items <- ar_change_items, max_change_items <- ar_max_change_items,
  inc <- ar_inc, inc_i <- ar_inc_i, inc_loop <- ar_inc_loop, inc_w_cnt <- ar_inc_w_cnt,
  dec <- ar_dec, dec_i <- ar_dec_i, dec_loop <- ar_dec_loop, dec_w_cnt <- ar_dec_w_cnt,
  process <- ar_process
Submit == INSTANCE IotoolAio WITH
  pc <- su_pc, ctx <- su_ctx, p_iocb_array <- su_p_iocb_array, iocb <- su_iocb, ret <- su_ret,
  total_io_done <- su_total_io_done

-----------------------------------------------------------------------------
(* atomic_arr: for arrays of any length and any number of rounds *)

\* Cells from max_change_items on stay clear, so the decreaser, which passes
\* a cell only if it is set, stops there at the latest; a thread that has
\* not given up has waited at most WaitLimit times.
ArrReach ==
  /\ \A k \in Arr!Cells : k >= ar_max_change_items => ar_a_arr[k] = 0
  /\ ar_inc \in {"wait", "set", "count"} => ar_inc_i < ar_max_change_items
  /\ ar_inc # "end" => ar_inc_loop < TESTLOOPCNT
  /\ ar_dec # "end" => ar_dec_loop < TESTLOOPCNT
  /\ ar_dec_i <= ar_max_change_items
  /\ ar_process = "running" => ar_inc_w_cnt <= WaitLimit /\ ar_dec_w_cnt <= WaitLimit

ArrInv == Arr!TypeOK /\ ArrReach /\ Arr!TestStillHolds

LEMMA ArrInit == Arr!Init => ArrInv
<1> SUFFICES ASSUME Arr!Init PROVE ArrInv
  OBVIOUS
<1>1. ar_max_change_items \in 0 .. ARRLEN - 1
  BY DEF Arr!Init, Arr!Cells
<1>2. Arr!TypeOK
  BY <1>1, ArrLenAssumption, LoopAssumption, WaitAssumption DEF Arr!Init, Arr!TypeOK, Arr!Cells
<1> QED
  BY <1>1, <1>2, ArrLenAssumption, LoopAssumption, WaitAssumption, SMTT(30), Z3T(30)
  DEF Arr!Init, ArrInv, ArrReach, Arr!TestStillHolds, Arr!Cells

\* The increaser sets only cells below max_change_items, and nobody else
\* sets any.
LEMMA ArrIncreaser == ASSUME ArrInv, Arr!Increaser PROVE ArrInv'
<1> USE ArrLenAssumption, LoopAssumption, WaitAssumption
    DEF ArrInv, Arr!TypeOK, ArrReach, Arr!TestStillHolds, Arr!Cells
<1>1. CASE Arr!IncLoop
  BY <1>1 DEF Arr!IncLoop, Arr!IncMore, Arr!decVars
<1>2. CASE Arr!IncWait
  BY <1>2 DEF Arr!IncWait, Arr!Waited, Arr!GiveUpAfter, Arr!decVars
<1>3. CASE Arr!IncFound
  BY <1>3 DEF Arr!IncFound, Arr!IncReady, Arr!decVars
<1>4. CASE Arr!IncSet
  BY <1>4 DEF Arr!IncSet, Arr!decVars
<1>5. CASE Arr!IncCount
  BY <1>5, SMTT(30), Z3T(30) DEF Arr!IncCount, Arr!decVars
<1> QED  BY <1>1, <1>2, <1>3, <1>4, <1>5 DEF Arr!Increaser

\* The decreaser moves on only from a set cell.
LEMMA ArrDecreaser == ASSUME ArrInv, Arr!Decreaser PROVE ArrInv'
<1> USE ArrLenAssumption, LoopAssumption, WaitAssumption
    DEF ArrInv, Arr!TypeOK, ArrReach, Arr!TestStillHolds, Arr!Cells
<1>1. CASE Arr!DecWait
  BY <1>1 DEF Arr!DecWait, Arr!Waited, Arr!GiveUpAfter, Arr!incVars
<1>2. CASE Arr!DecFound
  BY <1>2 DEF Arr!DecFound, Arr!incVars
<1>3. CASE Arr!DecLoop
  BY <1>3 DEF Arr!DecLoop, Arr!incVars
<1>4. CASE Arr!DecCheck
  BY <1>4 DEF Arr!DecCheck, Arr!incVars
<1>5. CASE Arr!DecClear
  <2>1. ar_dec_i \in Arr!Cells /\ ar_dec_i < ar_max_change_items
    BY <1>5 DEF Arr!DecClear
  <2> QED  BY <1>5, <2>1 DEF Arr!DecClear, Arr!incVars
<1>6. CASE Arr!DecReset
  BY <1>6 DEF Arr!DecReset, Arr!incVars
<1> QED  BY <1>1, <1>2, <1>3, <1>4, <1>5, <1>6 DEF Arr!Decreaser

LEMMA ArrNext == ArrInv /\ [Arr!Next]_(Arr!vars) => ArrInv'
<1> SUFFICES ASSUME ArrInv, [Arr!Next]_(Arr!vars) PROVE ArrInv'
  OBVIOUS
<1>1. CASE Arr!Increaser
  BY <1>1, ArrIncreaser
<1>2. CASE Arr!Decreaser
  BY <1>2, ArrDecreaser
<1>3. CASE Arr!Joined
  BY <1>3 DEF Arr!Joined, Arr!incVars, Arr!decVars, ArrInv, Arr!TypeOK, ArrReach,
     Arr!TestStillHolds
<1>4. CASE UNCHANGED Arr!vars
  BY <1>4 DEF Arr!vars, Arr!incVars, Arr!decVars, ArrInv, Arr!TypeOK, ArrReach,
     Arr!TestStillHolds
<1> QED  BY <1>1, <1>2, <1>3, <1>4 DEF Arr!Next, Arr!Exited

\* In the invariant the decreaser is inside the array.
LEMMA ArrInBounds == ArrInv => Arr!InBounds
  BY ArrLenAssumption DEF ArrInv, Arr!TypeOK, ArrReach, Arr!InBounds, Arr!Cells

-----------------------------------------------------------------------------
(* aio_epoll: for any number of reads and any counter width above it *)

USE NumEventsAssumption, WidthAssumption

\* The wrap of an unsigned subtraction.
LEMMA EpollWrap ==
  ASSUME NEW a \in Int, -Width < a, a < Width
  PROVE  a % Width = IF a >= 0 THEN a ELSE a + Width
<1>1. CASE a >= 0
  BY <1>1, SMT
<1>2. CASE a < 0
  BY <1>2, SMT
<1> QED BY <1>1, <1>2

\* The inductive invariant.
EpollInv == /\ Epoll!TypeOK /\ Epoll!Phases /\ Epoll!EventsConserved
            /\ Epoll!CountExact /\ Epoll!NoLostEdge /\ Epoll!ReadNeverEmpty

\* The program starts in the invariant.
LEMMA EpollInit == Epoll!Init => EpollInv
<1> SUFFICES ASSUME Epoll!Init PROVE EpollInv
  OBVIOUS
<1>1. ep_armed \in BOOLEAN /\ ep_ready \in BOOLEAN
  BY Zenon DEF Epoll!Init
<1>2. Epoll!TypeOK
  BY <1>1, SMTT(30) DEF Epoll!Init, Epoll!TypeOK
<1> QED
  BY <1>2 DEF Epoll!Init, EpollInv, Epoll!Phases, Epoll!EventsConserved, Epoll!CountExact,
     Epoll!Overtaken, Epoll!NoLostEdge, Epoll!ReadNeverEmpty

\* Every step of main and of the kernel keeps the invariant; the only step
\* that wraps the count is a reap.
LEMMA EpollNext == EpollInv /\ [Epoll!Next]_(Epoll!vars) => EpollInv'
<1> SUFFICES ASSUME EpollInv, [Epoll!Next]_(Epoll!vars) PROVE EpollInv'
  OBVIOUS
<1> USE DEF EpollInv, Epoll!TypeOK, Epoll!Phases, Epoll!EventsConserved, Epoll!CountExact,
            Epoll!Overtaken, Epoll!NoLostEdge, Epoll!ReadNeverEmpty, Epoll!kernelVars
<1>1. CASE Epoll!Post
  BY <1>1 DEF Epoll!Post
<1>2. CASE Epoll!Signal
  BY <1>2 DEF Epoll!Signal
<1>3. CASE Epoll!Submit
  BY <1>3 DEF Epoll!Submit
<1>4. CASE Epoll!EpollAdd
  <2>1. ep_ready' \in BOOLEAN /\ ep_armed' \in BOOLEAN
    <3>1. (ep_efd > 0) \in BOOLEAN
      OBVIOUS
    <3> QED  BY <1>4, <3>1, Zenon DEF Epoll!EpollAdd
  <2>2. Epoll!TypeOK'
    BY <1>4, <2>1 DEF Epoll!EpollAdd
  <2>3. Epoll!Phases' /\ Epoll!EventsConserved' /\ Epoll!CountExact' /\ Epoll!ReadNeverEmpty'
    BY <1>4 DEF Epoll!EpollAdd
  <2>4. Epoll!NoLostEdge'
    BY <1>4, Zenon DEF Epoll!EpollAdd
  <2> QED  BY <2>2, <2>3, <2>4, Zenon
<1>5. CASE Epoll!CallFails
  BY <1>5 DEF Epoll!CallFails, Epoll!AllReaped
<1>6. CASE Epoll!EpollWait
  BY <1>6, Zenon DEF Epoll!EpollWait, Epoll!AllReaped
<1>7. CASE Epoll!ReadEfd
  BY <1>7 DEF Epoll!ReadEfd
<1>8. CASE Epoll!ReapDone
  BY <1>8 DEF Epoll!ReapDone
<1>9. CASE Epoll!Return
  BY <1>9 DEF Epoll!Return, Epoll!AllReaped
<1>10. CASE Epoll!Reap
  <2>1. (ep_finished_aio - ep_ring) % Width =
          IF ep_finished_aio - ep_ring >= 0
            THEN ep_finished_aio - ep_ring ELSE ep_finished_aio - ep_ring + Width
    BY <1>10, EpollWrap DEF Epoll!Reap
  <2> QED  BY <1>10, <2>1 DEF Epoll!Reap
<1>11. CASE UNCHANGED Epoll!vars
  BY <1>11, Zenon DEF Epoll!vars
<1> QED
  BY <1>1, <1>2, <1>3, <1>4, <1>5, <1>6, <1>7, <1>8, <1>9, <1>10, <1>11, Zenon
  DEF Epoll!Next, Epoll!Main, Epoll!Idle

\* After a reap that overtook the eventfd the inner loop goes on.
LEMMA EpollOvertaken ==
  ASSUME EpollInv, Epoll!Next, Epoll!Overtaken, ep_pc = "reap"
  PROVE  ep_pc' = "reap"
<1>1. ep_finished_aio > 0
  BY DEF EpollInv, Epoll!TypeOK, Epoll!Phases, Epoll!CountExact, Epoll!Overtaken
<1> QED
  BY <1>1 DEF Epoll!Next, Epoll!Main, Epoll!Post, Epoll!Signal, Epoll!Submit, Epoll!EpollAdd,
     Epoll!CallFails, Epoll!EpollWait, Epoll!ReadEfd, Epoll!Reap, Epoll!ReapDone, Epoll!Return,
     Epoll!Idle, Epoll!Stopped, Epoll!vars

-----------------------------------------------------------------------------
(* aiowrbytesstr of iotool: for any number of iocbs *)

Before == {"open", "alloc", "prepare", "submit", "rejected", "aborted"}

\* What the program's position says about the iocbs.
SubmitShape ==
  /\ su_pc \in Before => su_total_io_done = 0
     /\ \A i \in Submit!Iocbs : su_iocb[i] \in {"none", "ready"}
  /\ su_pc \in {"open", "alloc"} => \A i \in Submit!Iocbs : su_iocb[i] = "none"
  /\ su_p_iocb_array \/ \A i \in Submit!Iocbs : su_iocb[i] \in {"none", "freed"}
  /\ su_pc \in {"prepare", "submit", "getevents", "destroy"} => su_p_iocb_array
  /\ su_pc \in {"getevents", "destroy"} =>
       \A i \in Submit!Iocbs : i >= su_ret => su_iocb[i] \notin {"kernel", "event", "returned"}

SubmitInv ==
  /\ Submit!TypeOK /\ SubmitShape
  /\ Submit!NotFreedInKernel /\ Submit!DoneMeansAllDelivered /\ Submit!CountIsDelivered
  /\ Submit!EverythingFreed /\ Submit!PartialNeverDone

\* The cardinality that the instance speaks of is the one of FiniteSets.
LEMMA SubmitCardinality == \A S : Submit!Cardinality(S) = Cardinality(S)
  BY Zenon DEF Submit!Cardinality, Cardinality, Submit!IsFiniteSet, IsFiniteSet

\* The sets of iocbs in a state are finite and no larger than the array.
LEMMA InFinite ==
  ASSUME NEW s
  PROVE  /\ IsFiniteSet(Submit!Iocbs) /\ Cardinality(Submit!Iocbs) = iocb_cnt
         /\ IsFiniteSet(Submit!In(s)) /\ Cardinality(Submit!In(s)) \in 0 .. iocb_cnt
         /\ (Cardinality(Submit!In(s)) = iocb_cnt => Submit!In(s) = Submit!Iocbs)
<1>1. IsFiniteSet(Submit!Iocbs) /\ Cardinality(Submit!Iocbs) = iocb_cnt
  <2>1. 0 \in Int /\ iocb_cnt - 1 \in Int /\ 0 <= iocb_cnt - 1
    BY CntAssumption
  <2> QED  BY <2>1, FS_Interval, CntAssumption DEF Submit!Iocbs
<1>2. Submit!In(s) \subseteq Submit!Iocbs
  BY DEF Submit!In
<1>3. /\ IsFiniteSet(Submit!In(s)) /\ Cardinality(Submit!In(s)) <= Cardinality(Submit!Iocbs)
      /\ (Cardinality(Submit!In(s)) = Cardinality(Submit!Iocbs) => Submit!In(s) = Submit!Iocbs)
  BY <1>1, <1>2, FS_Subset, Zenon
<1>4. Cardinality(Submit!In(s)) \in Nat
  BY <1>3, FS_CardinalityType
<1> QED  BY <1>1, <1>3, <1>4, CntAssumption

\* Nothing is allocated, and no iocb is anywhere, at first.
LEMMA SubmitInit == Submit!Init => SubmitInv
<1> SUFFICES ASSUME Submit!Init PROVE SubmitInv
  OBVIOUS
<1>1. Submit!TypeOK
  <2>1. su_ctx \in BOOLEAN /\ su_p_iocb_array \in BOOLEAN
    BY Zenon DEF Submit!Init
  <2>2. 0 \in 0 .. iocb_cnt
    BY CntAssumption
  <2> QED  BY <2>1, <2>2 DEF Submit!Init, Submit!TypeOK, Submit!States
<1>2. SubmitShape
  BY DEF Submit!Init, SubmitShape, Before
<1> QED
  BY <1>1, <1>2, CntAssumption DEF Submit!Init, SubmitInv, Submit!NotFreedInKernel,
     Submit!DoneMeansAllDelivered, Submit!CountIsDelivered,
     Submit!EverythingFreed, Submit!PartialNeverDone, Submit!In

\* One call of io_getevents moves the completed iocbs to the delivered ones
\* and adds their number.
LEMMA SubmitGetEvents == ASSUME SubmitInv, Submit!GetEvents PROVE SubmitInv'
<1> DEFINE R == Submit!In("returned")
           E == Submit!In("event")
<1>1. /\ su_pc = "getevents" /\ su_pc' \in {"getevents", "destroy"}
      /\ su_total_io_done' = su_total_io_done + Cardinality(E)
      /\ su_pc' = "destroy" <=> su_total_io_done' >= iocb_cnt
      /\ su_iocb' = [i \in Submit!Iocbs |-> IF su_iocb[i] = "event" THEN "returned" ELSE su_iocb[i]]
      /\ su_ctx' = su_ctx /\ su_p_iocb_array' = su_p_iocb_array /\ su_ret' = su_ret
  BY SubmitCardinality DEF Submit!GetEvents, Submit!Count, Submit!AllDone, Submit!In
<1>2. Submit!In("returned")' = R \cup E
  BY <1>1 DEF Submit!In
<1>3. R \cap E = {}
  BY DEF Submit!In
<1>4. Cardinality(R \cup E) = Cardinality(R) + Cardinality(E)
  <2>1. IsFiniteSet(R) /\ IsFiniteSet(E)
    BY InFinite
  <2>2. Cardinality(R \cup E) = Cardinality(R) + Cardinality(E) - Cardinality(R \cap E)
    BY <2>1, FS_Union, Zenon
  <2>3. Cardinality(R \cap E) = 0
    BY <1>3, FS_EmptySet, Zenon
  <2>4. Cardinality(R) \in Nat /\ Cardinality(E) \in Nat
    BY <2>1, FS_CardinalityType
  <2> QED  BY <2>2, <2>3, <2>4
<1>5. su_total_io_done' = Cardinality(R \cup E)
  BY <1>1, <1>4, SubmitCardinality DEF SubmitInv, Submit!CountIsDelivered, Submit!In
<1>6. /\ R \cup E \subseteq Submit!Iocbs
      /\ Cardinality(R \cup E) \in 0 .. iocb_cnt
      /\ (Cardinality(R \cup E) = iocb_cnt => R \cup E = Submit!Iocbs)
  <2>1. R \cup E \subseteq Submit!Iocbs
    BY DEF Submit!In
  <2>2. IsFiniteSet(Submit!Iocbs) /\ Cardinality(Submit!Iocbs) = iocb_cnt
    BY InFinite
  <2>3. /\ IsFiniteSet(R \cup E) /\ Cardinality(R \cup E) <= Cardinality(Submit!Iocbs)
        /\ (Cardinality(R \cup E) = Cardinality(Submit!Iocbs) => R \cup E = Submit!Iocbs)
    BY <2>1, <2>2, FS_Subset, Zenon
  <2>4. Cardinality(R \cup E) \in Nat
    BY <2>3, FS_CardinalityType
  <2> QED  BY <2>1, <2>2, <2>3, <2>4, CntAssumption
<1>7. Submit!TypeOK'
  BY <1>1, <1>5, <1>6 DEF SubmitInv, Submit!TypeOK, Submit!States
<1>8. SubmitShape'
  <2>1. \A i \in Submit!Iocbs : i >= su_ret => su_iocb'[i] \notin {"kernel", "event", "returned"}
    BY <1>1 DEF SubmitInv, SubmitShape
  <2>2. su_p_iocb_array \/ \A i \in Submit!Iocbs : su_iocb'[i] \in {"none", "freed"}
    BY <1>1, Zenon DEF SubmitInv, SubmitShape
  <2>3. su_p_iocb_array
    BY <1>1 DEF SubmitInv, SubmitShape
  <2> QED  BY <1>1, <2>1, <2>2, <2>3 DEF SubmitShape, Before
<1>9. Submit!CountIsDelivered'
  BY <1>2, <1>5, SubmitCardinality DEF Submit!CountIsDelivered, Submit!In
<1>10. su_pc' = "destroy" => Submit!In("returned")' = Submit!Iocbs
  BY <1>1, <1>2, <1>5, <1>6, CntAssumption
<1>11. Submit!DoneMeansAllDelivered' /\ Submit!NotFreedInKernel' /\ Submit!EverythingFreed'
  BY <1>1, <1>10 DEF Submit!DoneMeansAllDelivered, Submit!NotFreedInKernel, Submit!EverythingFreed
<1>12. Submit!PartialNeverDone'
  <2> SUFFICES ASSUME su_pc' = "destroy" PROVE su_ret' \notin 1 .. iocb_cnt - 1
    BY <1>1 DEF Submit!PartialNeverDone
  <2>1. iocb_cnt - 1 \in Submit!Iocbs /\ su_iocb'[iocb_cnt - 1] = "returned"
    <3>1. iocb_cnt - 1 \in Submit!Iocbs
      BY CntAssumption DEF Submit!Iocbs
    <3> QED  BY <3>1, <1>10 DEF Submit!In
  <2>2. ~(iocb_cnt - 1 >= su_ret')
    BY <2>1, <1>8, <1>1 DEF SubmitShape
  <2> QED  BY <2>2, <1>7, CntAssumption DEF Submit!TypeOK
<1> QED  BY <1>7, <1>8, <1>9, <1>11, <1>12 DEF SubmitInv

\* Up to io_submit nothing is with the kernel and nothing is counted.
LEMMA SubmitEarly ==
  ASSUME SubmitInv,
     Submit!OpenFails \/ Submit!Setup \/ Submit!AllocArrays \/ Submit!PrepareFails
        \/ Submit!SubmitFails
  PROVE  SubmitInv'
<1>1. /\ su_pc \in Before
      /\ su_pc' \in {"rejected", "alloc", "err_out", "prepare", "aborted", "destroy_err"}
      /\ su_iocb' = su_iocb /\ su_ret' = su_ret /\ su_total_io_done' = su_total_io_done
  BY DEF Submit!OpenFails, Submit!Setup, Submit!AllocArrays, Submit!PrepareFails,
     Submit!SubmitFails, Before
<1>2. su_ctx' \in BOOLEAN /\ su_p_iocb_array' \in BOOLEAN
  BY Zenon DEF SubmitInv, Submit!TypeOK, Submit!OpenFails, Submit!Setup, Submit!AllocArrays,
     Submit!PrepareFails, Submit!SubmitFails
<1>3. Submit!TypeOK'
  BY <1>1, <1>2 DEF SubmitInv, Submit!TypeOK
<1>4. \A i \in Submit!Iocbs : su_iocb[i] \in {"none", "ready"}
  BY <1>1 DEF SubmitInv, SubmitShape
<1>5. su_p_iocb_array' \/ \A i \in Submit!Iocbs : su_iocb[i] \in {"none", "freed"}
  <2>1. su_pc # "alloc" /\ su_p_iocb_array => su_p_iocb_array'
    BY Zenon DEF Submit!OpenFails, Submit!Setup, Submit!AllocArrays, Submit!PrepareFails,
       Submit!SubmitFails
  <2>2. su_pc = "alloc" => \A i \in Submit!Iocbs : su_iocb[i] = "none"
    BY DEF SubmitInv, SubmitShape
  <2>3. su_p_iocb_array \/ \A i \in Submit!Iocbs : su_iocb[i] \in {"none", "freed"}
    BY Zenon DEF SubmitInv, SubmitShape
  <2>4. CASE su_pc = "alloc"
    BY <2>2, <2>4
  <2>5. CASE su_pc # "alloc"
    BY <2>1, <2>3, <2>5, Zenon
  <2> QED  BY <2>4, <2>5
<1>6. SubmitShape'
  <2>1. su_pc' = "alloc" => \A i \in Submit!Iocbs : su_iocb[i] = "none"
    BY <1>1 DEF SubmitInv, SubmitShape, Submit!OpenFails, Submit!Setup, Submit!AllocArrays,
       Submit!PrepareFails, Submit!SubmitFails
  <2>2. su_pc' = "prepare" => su_p_iocb_array'
    BY <1>1, Zenon DEF Submit!OpenFails, Submit!Setup, Submit!AllocArrays, Submit!PrepareFails,
       Submit!SubmitFails
  <2> QED  BY <1>1, <1>4, <1>5, <2>1, <2>2 DEF SubmitInv, SubmitShape, Before
<1>7. Submit!In("kernel")' = {}
  BY <1>1, <1>4 DEF Submit!In
<1> QED
  BY <1>1, <1>3, <1>6, <1>7 DEF SubmitInv, Submit!NotFreedInKernel, Submit!DoneMeansAllDelivered,
     Submit!CountIsDelivered,
     Submit!EverythingFreed, Submit!PartialNeverDone

\* io_prep_pwrite readies the next iocb.
LEMMA SubmitPrepare == ASSUME SubmitInv, NEW k \in Submit!Iocbs,
   Submit!Prepare(k) PROVE SubmitInv'
<1>1. /\ su_pc = "prepare" /\ su_pc' \in {"prepare", "submit"}
      /\ su_iocb[k] = "none" /\ su_iocb' = [su_iocb EXCEPT ![k] = "ready"]
      /\ su_ctx' = su_ctx /\ su_p_iocb_array' = su_p_iocb_array /\ su_ret' = su_ret
      /\ su_total_io_done' = su_total_io_done
  BY DEF Submit!Prepare
<1>2. Submit!TypeOK'
  BY <1>1 DEF SubmitInv, Submit!TypeOK, Submit!States
<1>3. su_p_iocb_array
  BY <1>1 DEF SubmitInv, SubmitShape
<1>4. SubmitShape'
  BY <1>1, <1>3 DEF SubmitInv, SubmitShape, Submit!TypeOK, Before
<1> QED
  BY <1>1, <1>2, <1>4 DEF SubmitInv, Submit!NotFreedInKernel, Submit!DoneMeansAllDelivered,
     Submit!CountIsDelivered,
     Submit!EverythingFreed, Submit!PartialNeverDone

\* io_submit hands the first n iocbs to the kernel; none is delivered yet.
LEMMA SubmitTaken == ASSUME SubmitInv, NEW n \in 1 .. iocb_cnt, Submit!Submit(n) PROVE SubmitInv'
<1>1. /\ su_pc = "submit" /\ su_pc' = "getevents" /\ su_ret' = n
      /\ su_iocb' = [i \in Submit!Iocbs |-> IF i < n THEN "kernel" ELSE su_iocb[i]]
      /\ su_ctx' = su_ctx /\ su_p_iocb_array' = su_p_iocb_array
         /\ su_total_io_done' = su_total_io_done
  BY DEF Submit!Submit
<1>2. \A i \in Submit!Iocbs : su_iocb[i] \in {"none", "ready"}
  BY <1>1 DEF SubmitInv, SubmitShape, Before
<1>3. Submit!TypeOK'
  BY <1>1 DEF SubmitInv, Submit!TypeOK, Submit!States
<1>4. SubmitShape'
  <2>1. su_p_iocb_array
    BY <1>1 DEF SubmitInv, SubmitShape
  <2>2. \A i \in Submit!Iocbs : i >= n => su_iocb'[i] \notin {"kernel", "event", "returned"}
    BY <1>1, <1>2, CntAssumption DEF Submit!Iocbs
  <2> QED  BY <1>1, <2>1, <2>2 DEF SubmitShape, Before
<1>5. Submit!CountIsDelivered'
  <2>1. Submit!In("returned")' = {}
    BY <1>1, <1>2 DEF Submit!In
  <2>2. su_total_io_done' = 0
    BY <1>1 DEF SubmitInv, SubmitShape, Before
  <2>3. Cardinality({}) = 0
    BY FS_EmptySet, Zenon
  <2> QED  BY <2>1, <2>2, <2>3, SubmitCardinality DEF Submit!CountIsDelivered
<1> QED
  BY <1>1, <1>3, <1>4, <1>5 DEF SubmitInv, Submit!NotFreedInKernel, Submit!DoneMeansAllDelivered,
     Submit!EverythingFreed,
     Submit!PartialNeverDone

\* A failed io_getevents leads to io_destroy.
LEMMA SubmitGetEventsFails == ASSUME SubmitInv, Submit!GetEventsFails PROVE SubmitInv'
<1>1. /\ su_pc' = "destroy_err"
      /\ UNCHANGED <<su_ctx, su_p_iocb_array, su_iocb, su_ret, su_total_io_done>>
  BY DEF Submit!GetEventsFails
<1>2. Submit!TypeOK' /\ SubmitShape'
  <2>1. Submit!TypeOK'
    BY <1>1 DEF SubmitInv, Submit!TypeOK
  <2>2. su_p_iocb_array \/ \A i \in Submit!Iocbs : su_iocb[i] \in {"none", "freed"}
    BY Zenon DEF SubmitInv, SubmitShape
  <2> QED  BY <1>1, <2>1, <2>2 DEF SubmitShape, Before
<1> QED
  BY <1>1, <1>2 DEF SubmitInv, Submit!NotFreedInKernel, Submit!DoneMeansAllDelivered,
     Submit!CountIsDelivered,
     Submit!EverythingFreed, Submit!PartialNeverDone

\* The loop that fills a buffer with an empty string goes on for ever.
LEMMA SubmitFillForever == ASSUME SubmitInv, Submit!FillForever PROVE SubmitInv'
<1>1. /\ su_pc' = "filling"
      /\ UNCHANGED <<su_ctx, su_p_iocb_array, su_iocb, su_ret, su_total_io_done>>
  BY DEF Submit!FillForever
<1>2. Submit!TypeOK' /\ SubmitShape'
  <2>1. Submit!TypeOK'
    BY <1>1 DEF SubmitInv, Submit!TypeOK
  <2>2. su_p_iocb_array \/ \A i \in Submit!Iocbs : su_iocb[i] \in {"none", "freed"}
    BY Zenon DEF SubmitInv, SubmitShape
  <2> QED  BY <1>1, <2>1, <2>2 DEF SubmitShape, Before
<1> QED
  BY <1>1, <1>2 DEF SubmitInv, Submit!NotFreedInKernel, Submit!DoneMeansAllDelivered,
     Submit!CountIsDelivered,
     Submit!EverythingFreed, Submit!PartialNeverDone

\* io_destroy waits until the kernel has no request left.
LEMMA SubmitDestroy == ASSUME SubmitInv, Submit!IoDestroy PROVE SubmitInv'
<1>1. /\ \/ su_pc = "destroy" /\ su_pc' = "all_done"
         \/ su_pc = "destroy_err" /\ su_pc' = "err_out"
      /\ Submit!In("kernel") = {} /\ su_ctx' = FALSE
      /\ UNCHANGED <<su_p_iocb_array, su_iocb, su_ret, su_total_io_done>>
  BY DEF Submit!IoDestroy
<1>2. Submit!TypeOK' /\ SubmitShape'
  <2>1. su_ctx' \in BOOLEAN
    BY <1>1, Zenon
  <2>2. Submit!TypeOK'
    BY <1>1, <2>1 DEF SubmitInv, Submit!TypeOK
  <2>3. su_p_iocb_array \/ \A i \in Submit!Iocbs : su_iocb[i] \in {"none", "freed"}
    BY Zenon DEF SubmitInv, SubmitShape
  <2> QED  BY <1>1, <2>2, <2>3 DEF SubmitShape, Before
<1>3. Submit!In("kernel")' = {} /\ Submit!In("returned")' = Submit!In("returned")
  BY <1>1 DEF Submit!In
<1>4. Submit!DoneMeansAllDelivered' /\ Submit!PartialNeverDone'
  BY <1>1, <1>3 DEF SubmitInv, Submit!DoneMeansAllDelivered, Submit!PartialNeverDone
<1> QED
  BY <1>1, <1>2, <1>3, <1>4 DEF SubmitInv, Submit!NotFreedInKernel, Submit!CountIsDelivered,
     Submit!EverythingFreed

\* err_out releases what is in the array.
LEMMA SubmitErrOut == ASSUME SubmitInv, Submit!ErrOut PROVE SubmitInv'
<1>1. /\ \/ su_pc = "all_done" /\ su_pc' = "returned"
         \/ su_pc = "err_out" /\ su_pc' = "failed"
      /\ UNCHANGED <<su_ctx, su_ret, su_total_io_done>> /\ su_p_iocb_array' = FALSE
      /\ su_iocb' = [i \in Submit!Iocbs |-> IF su_p_iocb_array /\ su_iocb[i] # "none"
                                    THEN "freed" ELSE su_iocb[i]]
  BY DEF Submit!ErrOut
<1>2. \A i \in Submit!Iocbs : su_iocb'[i] \in {"none", "freed"}
  <2>1. su_p_iocb_array \/ \A i \in Submit!Iocbs : su_iocb[i] \in {"none", "freed"}
    BY Zenon DEF SubmitInv, SubmitShape
  <2> QED  BY <1>1, <2>1
<1>3. Submit!TypeOK'
  <2>1. su_p_iocb_array' \in BOOLEAN
    BY <1>1, Zenon
  <2> QED  BY <1>1, <2>1 DEF SubmitInv, Submit!TypeOK, Submit!States
<1>4. SubmitShape'
  BY <1>1, <1>2 DEF SubmitShape, Before
<1>5. Submit!In("kernel")' = {}
  BY <1>2 DEF Submit!In
<1>6. Submit!PartialNeverDone'
  BY <1>1 DEF SubmitInv, Submit!PartialNeverDone
<1> QED
  BY <1>1, <1>2, <1>3, <1>4, <1>5, <1>6 DEF SubmitInv, Submit!NotFreedInKernel,
     Submit!DoneMeansAllDelivered,
     Submit!CountIsDelivered, Submit!EverythingFreed

\* A completion takes one request out of the kernel.
LEMMA SubmitComplete == ASSUME SubmitInv, NEW k \in Submit!Iocbs,
   Submit!Complete(k) PROVE SubmitInv'
<1>1. /\ su_iocb[k] = "kernel" /\ su_iocb' = [su_iocb EXCEPT ![k] = "event"]
      /\ UNCHANGED <<su_pc, su_ctx, su_p_iocb_array, su_ret, su_total_io_done>>
  BY DEF Submit!Complete
<1>2. su_iocb \in [Submit!Iocbs -> Submit!States]
  BY DEF SubmitInv, Submit!TypeOK
<1>3. Submit!TypeOK'
  BY <1>1, <1>2 DEF SubmitInv, Submit!TypeOK, Submit!States
<1>4. Submit!In("returned")' = Submit!In("returned")
   /\ Submit!In("kernel")' \subseteq Submit!In("kernel")
  BY <1>1, <1>2 DEF Submit!In
<1>5. su_p_iocb_array
  <2>1. su_p_iocb_array \/ \A i \in Submit!Iocbs : su_iocb[i] \in {"none", "freed"}
    BY Zenon DEF SubmitInv, SubmitShape
  <2> QED  BY <1>1, <2>1
<1>6. SubmitShape'
  BY <1>1, <1>2, <1>5 DEF SubmitInv, SubmitShape, Before
<1>7. Submit!EverythingFreed'
  BY <1>1, <1>2 DEF SubmitInv, Submit!EverythingFreed
<1> QED
  BY <1>1, <1>3, <1>4, <1>6, <1>7 DEF SubmitInv, Submit!NotFreedInKernel,
     Submit!DoneMeansAllDelivered,
     Submit!CountIsDelivered, Submit!PartialNeverDone

\* Every step of aiowrbytesstr and of the kernel keeps the invariant.
LEMMA SubmitNext == SubmitInv /\ [Submit!Next]_(Submit!vars) => SubmitInv'
<1> SUFFICES ASSUME SubmitInv, [Submit!Next]_(Submit!vars) PROVE SubmitInv'
  OBVIOUS
<1>1. CASE Submit!OpenFails \/ Submit!Setup \/ Submit!AllocArrays \/ Submit!PrepareFails
   \/ Submit!SubmitFails
  BY <1>1, SubmitEarly
<1>2. CASE \E i \in Submit!Iocbs : Submit!Prepare(i)
  BY <1>2, SubmitPrepare
<1>3. CASE \E n \in 1 .. iocb_cnt : Submit!Submit(n)
  BY <1>3, SubmitTaken
<1>4. CASE Submit!GetEvents
  BY <1>4, SubmitGetEvents
<1>5. CASE Submit!GetEventsFails
  BY <1>5, SubmitGetEventsFails
<1>6. CASE Submit!IoDestroy
  BY <1>6, SubmitDestroy
<1>7. CASE Submit!ErrOut
  BY <1>7, SubmitErrOut
<1>8. CASE Submit!Kernel
  BY <1>8, SubmitComplete DEF Submit!Kernel
<1>9. CASE UNCHANGED Submit!vars
  BY <1>9 DEF Submit!vars, SubmitInv, Submit!TypeOK, SubmitShape, Submit!NotFreedInKernel,
     Submit!DoneMeansAllDelivered, Submit!CountIsDelivered,
     Submit!EverythingFreed, Submit!PartialNeverDone, Submit!In
<1> QED
  BY <1>1, <1>2, <1>3, <1>4, <1>5, <1>6, <1>7, <1>8, <1>9, SubmitFillForever
  DEF Submit!Next, Submit!Main, Submit!Exited
=============================================================================
