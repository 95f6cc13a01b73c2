----------------------------- MODULE IotoolAio -----------------------------
(***************************************************************************)
(* The aiowrbytesstr engine of iotool_cpp/iotool.c: prepare one iocb for   *)
(* each (offset, size) pair, submit them all with one io_submit, and call  *)
(* io_getevents until as many events were returned as there are iocbs.     *)
(*                                                                         *)
(* The kernel takes the iocbs in order, possibly not all of them, and      *)
(* completes them in any order.  io_destroy returns when no request of the *)
(* context is left in the kernel.                                          *)
(***************************************************************************)
EXTENDS IotoolParams

Iocbs == 0 .. iocb_cnt - 1

VARIABLES pc,
          ctx,            \* an io context exists
          p_iocb_array,   \* allocated
          iocb,           \* what became of each iocb and its buffer
          ret,            \* iocbs the kernel took in io_submit
          total_io_done

vars == <<pc, ctx, p_iocb_array, iocb, ret, total_io_done>>

\* "none": not in the array; "ready": prepared; "kernel": submitted and not
\* completed; "event": completed; "returned": its event was delivered;
\* "freed": iocb and buffer released
States == {"none", "ready", "kernel", "event", "returned", "freed"}

In(s) == {i \in Iocbs : iocb[i] = s}

Init ==
  /\ pc = "open" /\ ctx = FALSE /\ p_iocb_array = FALSE
  /\ iocb = [i \in Iocbs |-> "none"]
  /\ ret = 0 /\ total_io_done = 0

\* argument errors and do_open failing return before anything is allocated
OpenFails ==
  /\ pc = "open" /\ pc' = "rejected"
  /\ UNCHANGED <<ctx, p_iocb_array, iocb, ret, total_io_done>>

Setup ==
  /\ pc = "open"
  /\ \/ pc' = "alloc" /\ ctx' = TRUE
     \/ pc' = "err_out" /\ UNCHANGED ctx
  /\ UNCHANGED <<p_iocb_array, iocb, ret, total_io_done>>

\* the iocb array and the event array
AllocArrays ==
  /\ pc = "alloc"
  /\ \/ pc' = "err_out" /\ p_iocb_array' \in BOOLEAN
     \/ pc' = "prepare" /\ p_iocb_array' = TRUE
  /\ UNCHANGED <<ctx, iocb, ret, total_io_done>>

\* new iocb, aligned_alloc, io_prep_pwrite for the next pair
Prepare(i) ==
  /\ pc = "prepare" /\ iocb[i] = "none" /\ \A j \in 0 .. i - 1 : iocb[j] # "none"
  /\ iocb' = [iocb EXCEPT ![i] = "ready"]
  /\ pc' = IF i = iocb_cnt - 1 THEN "submit" ELSE pc
  /\ UNCHANGED <<ctx, p_iocb_array, ret, total_io_done>>

\* the loop that fills the first buffer never advances over an empty string
FillForever ==
  /\ pc \in {"prepare", "filling"} /\ In("none") = Iocbs
  /\ pc' = "filling"
  /\ UNCHANGED <<ctx, p_iocb_array, iocb, ret, total_io_done>>

\* one of the two allocations fails, or a number does not parse
PrepareFails ==
  /\ pc = "prepare" /\ pc' \in {"err_out", "aborted"}
  /\ UNCHANGED <<ctx, p_iocb_array, iocb, ret, total_io_done>>

\* io_submit takes the first n
Submit(n) ==
  /\ pc = "submit" /\ pc' = "getevents"
  /\ ret' = n
  /\ iocb' = [i \in Iocbs |-> IF i < n THEN "kernel" ELSE iocb[i]]
  /\ UNCHANGED <<ctx, p_iocb_array, total_io_done>>

SubmitFails ==
  /\ pc = "submit" /\ pc' = "destroy_err"
  /\ UNCHANGED <<ctx, p_iocb_array, iocb, ret, total_io_done>>

Count(n) == total_io_done + n

AllDone == total_io_done' >= iocb_cnt

\* io_getevents returns all of the events, or what there is after five
\* seconds, possibly nothing; the inner loop finds each in the array.
GetEvents ==
  /\ pc = "getevents"
  /\ iocb' = [i \in Iocbs |-> IF iocb[i] = "event" THEN "returned" ELSE iocb[i]]
  /\ total_io_done' = Count(Cardinality(In("event")))
  /\ pc' = IF AllDone THEN "destroy" ELSE "getevents"
  /\ UNCHANGED <<ctx, p_iocb_array, ret>>

\* mutation: the failed wait skips io_destroy
GetEventsFailsHard ==
  /\ pc = "getevents" /\ pc' = "err_out"
  /\ UNCHANGED <<ctx, p_iocb_array, iocb, ret, total_io_done>>

GetEventsFails ==
  /\ pc = "getevents" /\ pc' = "destroy_err"
  /\ UNCHANGED <<ctx, p_iocb_array, iocb, ret, total_io_done>>

IoDestroy ==
  /\ pc \in {"destroy", "destroy_err"} /\ In("kernel") = {}
  /\ ctx' = FALSE
  /\ pc' = IF pc = "destroy" THEN "all_done" ELSE "err_out"
  /\ UNCHANGED <<p_iocb_array, iocb, ret, total_io_done>>

\* err_out, which the successful path runs into
ErrOut ==
  /\ pc \in {"all_done", "err_out"}
  /\ iocb' = [i \in Iocbs |-> IF p_iocb_array /\ iocb[i] # "none" THEN "freed" ELSE iocb[i]]
  /\ p_iocb_array' = FALSE
  /\ pc' = IF pc = "all_done" THEN "returned" ELSE "failed"
  /\ UNCHANGED <<ctx, ret, total_io_done>>

\* the kernel completes a request
Complete(i) ==
  /\ iocb[i] = "kernel"
  /\ iocb' = [iocb EXCEPT ![i] = "event"]
  /\ UNCHANGED <<pc, ctx, p_iocb_array, ret, total_io_done>>

Ended == pc \in {"returned", "failed", "rejected", "aborted"}
Exited == Ended /\ UNCHANGED vars

Main == \/ OpenFails \/ Setup \/ AllocArrays \/ PrepareFails
        \/ \E i \in Iocbs : Prepare(i)
        \/ \E n \in 1 .. iocb_cnt : Submit(n)
        \/ SubmitFails \/ GetEvents \/ IoDestroy \/ ErrOut
Kernel == \E i \in Iocbs : Complete(i)

Next == Main \/ FillForever \/ GetEventsFails \/ Kernel \/ Exited

\* Main runs and a request in the kernel is completed in the end.  Nothing
\* makes io_getevents fail.
Spec == Init /\ [][Next]_vars /\ WF_vars(Main) /\ WF_vars(Kernel)

-----------------------------------------------------------------------------
(* What is checked *)

\* Every variable has its type.
TypeOK ==
  /\ pc \in {"open", "alloc", "prepare", "submit", "getevents", "destroy", "destroy_err",
             "all_done", "err_out", "returned", "failed", "rejected", "aborted", "filling"}
  /\ ctx \in BOOLEAN /\ p_iocb_array \in BOOLEAN
  /\ iocb \in [Iocbs -> States]
  /\ ret \in 0 .. iocb_cnt
  /\ total_io_done \in 0 .. iocb_cnt

\* No iocb or buffer is released while the kernel may still write from it,
\* on the path of a failed io_getevents as well.
NotFreedInKernel ==
  pc \in {"all_done", "err_out", "returned", "failed"} => In("kernel") = {}

\* "all io done" is printed only when the event of every iocb of the command
\* was delivered, also if io_submit took only some of them.
DoneMeansAllDelivered == pc \in {"destroy", "all_done"} => In("returned") = Iocbs

\* While events are collected total_io_done is the number of distinct iocbs
\* delivered, however the completions are spread over the calls.
CountIsDelivered ==
  pc \in {"getevents", "destroy"} => total_io_done = Cardinality(In("returned"))

\* Whatever ends the engine after preparing, nothing it put in the array
\* stays allocated.
EverythingFreed ==
  pc \in {"returned", "failed"} => \A i \in Iocbs : iocb[i] \in {"none", "freed"}

\* If io_submit took every iocb the engine ends.
EndsIfAllTaken == pc = "getevents" /\ ret = iocb_cnt ~> Ended

\* If it took fewer, the engine never prints "all io done": the calls of
\* io_getevents go on until one fails.
PartialNeverDone == ret \in 1 .. iocb_cnt - 1 => pc \notin {"destroy", "all_done", "returned"}
=============================================================================
