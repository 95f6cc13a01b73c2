----------------------------- MODULE AtomicArr -----------------------------
(***************************************************************************)
(* atomic_barrier/atomic_arr.c: an increaser thread sets the first         *)
(* max_change_items cells of an array and counts them in change_items; a   *)
(* decreaser thread clears as many cells as change_items says and then     *)
(* resets the count.  All accesses are sequentially consistent atomics, so *)
(* each load, store or increment is one step.                              *)
(*                                                                         *)
(* Either thread gives up, with the whole process, after waiting WaitLimit *)
(* (1000 in the code) times in a row.                                      *)
(***************************************************************************)
EXTENDS AtomicArrParams

Cells == 0 .. ARRLEN - 1

VARIABLES a_arr, change_items,
          max_change_items,   \* rand() % ARRLEN
          inc, inc_i, inc_loop, inc_w_cnt,
          dec, dec_i, dec_loop, dec_w_cnt,
          process             \* "running", "stuck" (exit(1)), "aborted", "done"

incVars == <<inc, inc_i, inc_loop, inc_w_cnt>>
decVars == <<dec, dec_i, dec_loop, dec_w_cnt>>
vars == <<a_arr, change_items, max_change_items, incVars, decVars, process>>

Init ==
  /\ a_arr = [k \in Cells |-> 0]
  /\ change_items = 0
  /\ max_change_items \in Cells
  /\ inc = "for" /\ inc_i = 0 /\ inc_loop = 0 /\ inc_w_cnt = 0
  /\ dec = "wait" /\ dec_i = 0 /\ dec_loop = 0 /\ dec_w_cnt = 0
  /\ process = "running"

\* *_wait_timeout: one more wait
Waited(n) == n + 1

\* *_wait_timeout: exit(1) after too many waits
GiveUpAfter(n) == process' = IF n > WaitLimit THEN "stuck" ELSE process

-----------------------------------------------------------------------------
(* increaser_main *)

IncMore == inc_i < max_change_items

IncLoop ==
  /\ process = "running" /\ inc = "for"
  /\ IF IncMore
       THEN inc' = "wait" /\ UNCHANGED <<inc_i, inc_loop>>
       ELSE /\ inc_i' = 0
            /\ inc_loop' = inc_loop + 1
            /\ inc' = IF inc_loop + 1 < TESTLOOPCNT THEN "for" ELSE "end"
  /\ UNCHANGED <<a_arr, change_items, max_change_items, inc_w_cnt, decVars, process>>

IncWait ==
  /\ process = "running" /\ inc = "wait" /\ a_arr[inc_i] # 0
  /\ inc_w_cnt' = Waited(inc_w_cnt)
  /\ GiveUpAfter(inc_w_cnt')
  /\ UNCHANGED <<a_arr, change_items, max_change_items, inc, inc_i, inc_loop, decVars>>

\* mutation: the cell is not waited for
IncReadyAlways == inc = "wait"

IncReady == inc = "wait" /\ a_arr[inc_i] = 0

IncFound ==
  /\ process = "running" /\ IncReady
  /\ inc' = "set" /\ inc_w_cnt' = 0
  /\ UNCHANGED <<a_arr, change_items, max_change_items, inc_i, inc_loop, decVars, process>>

IncSet ==
  /\ process = "running" /\ inc = "set"
  /\ a_arr' = [a_arr EXCEPT ![inc_i] = 1]
  /\ inc' = "count"
  /\ UNCHANGED <<change_items, max_change_items, inc_i, inc_loop, inc_w_cnt, decVars, process>>

IncCount ==
  /\ process = "running" /\ inc = "count"
  /\ change_items' = change_items + 1
  /\ inc' = "for" /\ inc_i' = inc_i + 1
  /\ UNCHANGED <<a_arr, max_change_items, inc_loop, inc_w_cnt, decVars, process>>

-----------------------------------------------------------------------------
(* decreaser_main *)

DecWait ==
  /\ process = "running" /\ dec = "wait" /\ change_items = 0
  /\ dec_w_cnt' = Waited(dec_w_cnt)
  /\ GiveUpAfter(dec_w_cnt')
  /\ UNCHANGED <<a_arr, change_items, max_change_items, incVars, dec, dec_i, dec_loop>>

DecFound ==
  /\ process = "running" /\ dec = "wait" /\ change_items # 0
  /\ dec' = "for" /\ dec_i' = 0 /\ dec_w_cnt' = 0
  /\ UNCHANGED <<a_arr, change_items, max_change_items, incVars, dec_loop, process>>

\* change_items is read again in every turn of the loop
DecLoop ==
  /\ process = "running" /\ dec = "for"
  /\ dec' = IF dec_i < change_items THEN "check" ELSE "reset"
  /\ UNCHANGED <<a_arr, change_items, max_change_items, incVars, dec_i, dec_loop,
                 dec_w_cnt, process>>

\* assert(a_arr[i] == 1)
DecCheck ==
  /\ process = "running" /\ dec = "check"
  /\ IF a_arr[dec_i] = 1 THEN dec' = "clear" /\ UNCHANGED process
                         ELSE process' = "aborted" /\ UNCHANGED dec
  /\ UNCHANGED <<a_arr, change_items, max_change_items, incVars, dec_i, dec_loop, dec_w_cnt>>

DecClear ==
  /\ process = "running" /\ dec = "clear"
  /\ a_arr' = [a_arr EXCEPT ![dec_i] = 0]
  /\ dec' = "for" /\ dec_i' = dec_i + 1
  /\ UNCHANGED <<change_items, max_change_items, incVars, dec_loop, dec_w_cnt, process>>

\* change_items = 0: whatever was counted since the loop ended is forgotten
DecReset ==
  /\ process = "running" /\ dec = "reset"
  /\ change_items' = 0
  /\ dec_loop' = dec_loop + 1
  /\ dec' = IF dec_loop + 1 < TESTLOOPCNT THEN "wait" ELSE "end"
  /\ UNCHANGED <<a_arr, max_change_items, incVars, dec_i, dec_w_cnt, process>>

-----------------------------------------------------------------------------
\* main joins both threads
Joined ==
  /\ process = "running" /\ inc = "end" /\ dec = "end"
  /\ process' = "done"
  /\ UNCHANGED <<a_arr, change_items, max_change_items, incVars, decVars>>

Exited == process # "running" /\ UNCHANGED vars

Increaser == IncLoop \/ IncWait \/ IncFound \/ IncSet \/ IncCount
Decreaser == DecWait \/ DecFound \/ DecLoop \/ DecCheck \/ DecClear \/ DecReset

Next == Increaser \/ Decreaser \/ Joined \/ Exited

Fairness == WF_vars(Increaser) /\ WF_vars(Decreaser) /\ WF_vars(Joined)

Spec == Init /\ [][Next]_vars /\ Fairness

-----------------------------------------------------------------------------
(* What is checked *)

\* Every variable has its type.
TypeOK ==
  /\ a_arr \in [Cells -> {0, 1}]
  /\ change_items \in Nat
  /\ max_change_items \in Cells
  /\ inc \in {"for", "wait", "set", "count", "end"}
  /\ inc_i \in 0 .. max_change_items /\ inc_loop \in 0 .. TESTLOOPCNT
  /\ dec \in {"wait", "for", "check", "clear", "reset", "end"}
  /\ dec_i \in Nat /\ dec_loop \in 0 .. TESTLOOPCNT
  /\ inc_w_cnt \in 0 .. WaitLimit + 1 /\ dec_w_cnt \in 0 .. WaitLimit + 1
  /\ process \in {"running", "stuck", "aborted", "done"}

\* The cell the increaser is about to set is still clear and the cell the
\* decreaser is about to clear is still set, although each tested it one
\* step earlier and the other thread writes to the same array.
TestStillHolds ==
  /\ inc = "set" => a_arr[inc_i] = 0
  /\ dec = "clear" => a_arr[dec_i] = 1

\* change_items can exceed max_change_items, yet the decreaser never
\* indexes past the array: the cell after the last one the increaser uses
\* is never set, so the assertion stops it there.
InBounds == dec \in {"check", "clear"} => dec_i <= max_change_items

\* The program ends: both threads finish, one gives up, or the assertion
\* fails.
Ends == <>(process # "running")

\* assert(a_arr[i] == 1) of decreaser_main.
AssertHolds == process # "aborted"
=============================================================================
