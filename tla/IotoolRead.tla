----------------------------- MODULE IotoolRead -----------------------------
(***************************************************************************)
(* The reading engines of iotool_cpp/iotool.c.  A byte of the volume is    *)
(* represented by its position, so that what is shown tells where it came  *)
(* from; NUL is a terminator the code stores and Heap a byte nobody set.   *)
(* Sizes are scaled down.                                                  *)
(***************************************************************************)
EXTENDS Integers, Sequences

CONSTANTS Engines, Offs, Counts,
          SECTOR_SIZE, PAGE_SIZE,
          Line,       \* characters shown of a full sector (80)
          UInt,       \* unsigned int is 0 .. UInt - 1
          VolSize,    \* bytes of the volume
          MaxFaults   \* short or failed reads

NUL == -1
Heap == -2

VARIABLES engine, off, cnt,   \* the command
          pc, i,
          buf,                \* what the buffer holds, one element per byte
          shown,              \* [label, bytes] printed, in order
          faults

command == <<engine, off, cnt>>
vars == <<command, pc, i, buf, shown, faults>>

\* length of one buffer, and how many are read
buf_len == CASE engine \in {"rdsects", "rdonesect"} -> SECTOR_SIZE
             [] engine \in {"rdonepage", "rdpages"} -> PAGE_SIZE
             [] engine = "rdbytes" -> cnt
Reads == IF engine \in {"rdsects", "rdpages"} THEN cnt ELSE 1

Fresh == [j \in 1 .. buf_len |-> Heap]

Init ==
  /\ engine \in Engines /\ off \in Offs /\ cnt \in Counts
  /\ pc = "start" /\ i = 0 /\ buf = <<>> /\ shown = <<>> /\ faults = 0

\* too few arguments, do_open or the first aligned_alloc fails
Reject ==
  /\ pc = "start" /\ pc' = "failed"
  /\ UNCHANGED <<command, i, buf, shown, faults>>

\* a number does not parse
BadNumber ==
  /\ pc = "start" /\ pc' = "aborted"
  /\ UNCHANGED <<command, i, buf, shown, faults>>

\* a loop over no sectors or pages reads nothing; rdbytes reads once anyway
Allocate ==
  /\ pc = "start" /\ pc' = IF Reads = 0 THEN "done" ELSE "read"
  /\ buf' = Fresh
  /\ UNCHANGED <<command, i, shown, faults>>

-----------------------------------------------------------------------------
\* where the next read is
At == IF engine = "rdbytes" THEN off ELSE (off + i) * buf_len

\* the bytes there are at At
Available == IF At >= VolSize THEN 0
             ELSE IF VolSize - At < buf_len THEN VolSize - At ELSE buf_len

\* the buffer after reading n bytes
Got(n) == [j \in 1 .. buf_len |-> IF j <= n THEN At + j - 1 ELSE buf[j]]

\* buf[do_bytes] = '\0' or buf[80] = '\0'
Terminated(n) == [Got(n) EXCEPT ![IF n < SECTOR_SIZE THEN n + 1 ELSE Line + 1] = NUL]

\* printf's %s
String(b) ==
  LET end == CHOOSE j \in DOMAIN b : b[j] = NUL /\ \A k \in 1 .. j - 1 : b[k] # NUL
  IN  SubSeq(b, 1, end - 1)

\* the heading prt_sect_data computes from an unsigned int offset
Heading(p) == (p % UInt) \div SECTOR_SIZE

SectorsOf(b, p) ==
  [s \in 1 .. Len(b) \div SECTOR_SIZE |->
     [label |-> Heading(p), bytes |-> SubSeq(b, (s - 1) * SECTOR_SIZE + 1, s * SECTOR_SIZE)]]

\* what is printed after reading n bytes; rdbytes stores its terminator over
\* the last byte, or before the buffer if there is none
Output(n) ==
  CASE engine = "rdsects" -> <<[label |-> off + i, bytes |-> String(Terminated(n))]>>
    [] engine = "rdbytes" -> <<[label |-> off, 
                                bytes |-> IF n = 0 THEN buf ELSE SubSeq(Got(n), 1, n - 1)]>>
    [] OTHER -> SectorsOf(Got(n), At)

NextRead == IF i + 1 < Reads THEN "read" ELSE "done"

\* mutation: the buffer of a page is kept
ReuseAlways(b) == b

\* rdpages has a new buffer for every page, rdsects keeps its own
Reuse(b) == IF engine = "rdpages" THEN Fresh ELSE b

Show(n) ==
  /\ shown' = shown \o Output(n)
  /\ buf' = Reuse(IF engine = "rdsects" THEN Terminated(n) ELSE Got(n))
  /\ i' = i + 1 /\ pc' = NextRead
  /\ UNCHANGED command

Read == pc = "read" /\ Show(Available) /\ UNCHANGED faults

ReadShort ==
  /\ pc = "read" /\ faults < MaxFaults /\ faults' = faults + 1
  /\ \E n \in 1 .. Available - 1 : Show(n)

\* rdpages ignores the result of a page; the others stop
Fails == IF engine = "rdpages" THEN i' = i + 1 /\ pc' = NextRead
                               ELSE pc' = "failed" /\ UNCHANGED i

ReadFails ==
  /\ pc = "read" /\ faults < MaxFaults /\ faults' = faults + 1
  /\ Fails
  /\ UNCHANGED <<command, buf, shown>>

Ended == pc \in {"done", "failed", "aborted"}
Exited == Ended /\ UNCHANGED vars

Step == Reject \/ BadNumber \/ Allocate \/ Read \/ ReadShort \/ ReadFails
Next == Step \/ Exited

\* a sequential program that nothing stops
Spec == Init /\ [][Next]_vars /\ WF_vars(Step)

-----------------------------------------------------------------------------
(* What is checked *)

\* rdsects shows the sectors in order, each under its own number and with
\* its own bytes only, although one buffer serves them all and reads may be
\* short.  rdonesect, rdonepage and rdpages show the whole range in order, and
\* behind the end of the volume unset memory, never bytes of an earlier page.
ShowsRange ==
  /\ engine = "rdsects" =>
       \A s \in 1 .. Len(shown) :
         /\ shown[s].label = off + s - 1
         /\ \A j \in DOMAIN shown[s].bytes :
              shown[s].bytes[j] = shown[s].label * SECTOR_SIZE + j - 1
  /\ engine \in {"rdonesect", "rdonepage", "rdpages"} /\ pc = "done" /\ faults = 0 =>
       /\ Len(shown) * SECTOR_SIZE = Reads * buf_len
       /\ \A s \in 1 .. Len(shown), j \in 1 .. SECTOR_SIZE :
            LET p == off * buf_len + (s - 1) * SECTOR_SIZE + j - 1
            IN  shown[s].bytes[j] = IF p < VolSize THEN p ELSE Heap

\* rdpages passes over a page it cannot read: each failed read costs its own
\* page and no other.
PagesIndependent ==
  engine = "rdpages" /\ pc = "done" =>
    Len(shown) * SECTOR_SIZE >= (Reads - faults) * buf_len
=============================================================================
