---------------------------- MODULE IotoolWrite ----------------------------
(***************************************************************************)
(* The four pwrite engines of iotool_cpp/iotool.c.  Each fills a buffer of *)
(* at most MAX_BUF_LEN bytes with a character or with copies of a string   *)
(* and writes it to the volume, chunk after chunk, until the requested     *)
(* range is written.  The byte engines and the sector engines compute the  *)
(* length of a chunk differently.                                          *)
(*                                                                         *)
(* A byte is the index of a character of the given string, NUL, Heap (a    *)
(* byte of memory nobody wrote) or, on the volume, Old.  Sizes are scaled  *)
(* down; the arithmetic is that of size_t with Word for 2^64.              *)
(***************************************************************************)
EXTENDS IotoolParams

Offs == (-MaxOff) .. MaxOff

NUL == -1
Heap == -2
Old == -3
Bytes == {NUL, Heap} \cup Nat
Positions == 0 .. DevSize - 1

VARIABLES engine, off, cnt, str_len,  \* the command
          pc, buf, wr_offset, dev, faults

command == <<engine, off, cnt, str_len>>
vars == <<command, pc, buf, wr_offset, dev, faults>>

Unit == IF engine \in SectEngines THEN SECTOR_SIZE ELSE 1
start == off * Unit
data_len == cnt * Unit
buf_len == IF data_len > MAX_BUF_LEN THEN MAX_BUF_LEN ELSE data_len

\* A value as size_t; the operands keep it within one wrap.
U(x) == IF x < 0 THEN x + Word ELSE IF x >= Word THEN x - Word ELSE x

Requested == {p \in Positions : start <= p /\ p < start + data_len}

Init ==
  /\ engine \in Engines /\ off \in Offs /\ cnt \in Counts
  /\ str_len \in IF engine \in CharEngines THEN {1} ELSE StrLens
  /\ pc = "start"
  /\ buf = [j \in 0 .. MAX_BUF_LEN - 1 |-> Heap]
  /\ wr_offset = 0
  /\ dev = [p \in Positions |-> Old]
  /\ faults = 0

-----------------------------------------------------------------------------
\* do_wr_*: too few arguments
TooFewArguments ==
  /\ pc = "start" /\ pc' = "failed"
  /\ UNCHANGED <<command, buf, wr_offset, dev, faults>>

\* mystrtoull, mystrtoll: offset or size is not a number
BadNumber ==
  /\ pc = "start" /\ pc' = "aborted"
  /\ UNCHANGED <<command, buf, wr_offset, dev, faults>>

Parsed ==
  /\ pc = "start" /\ pc' = "open"
  /\ UNCHANGED <<command, buf, wr_offset, dev, faults>>

\* do_open finds no such flag, or open fails
DoOpen ==
  /\ pc = "open" /\ pc' \in {"alloc", "failed"}
  /\ UNCHANGED <<command, buf, wr_offset, dev, faults>>

\* aligned_alloc returns NULL
AllocFails ==
  /\ pc = "alloc" /\ pc' = "failed"
  /\ UNCHANGED <<command, buf, wr_offset, dev, faults>>

\* aligned_alloc succeeds; the character engines memset the whole buffer
Allocate ==
  /\ pc = "alloc"
  /\ IF engine \in CharEngines
       THEN /\ buf' = [j \in DOMAIN buf |-> IF j < buf_len THEN 0 ELSE Heap]
            /\ pc' = "write" /\ wr_offset' = start
       ELSE pc' = "fill" /\ wr_offset' = 0 /\ UNCHANGED buf
  /\ UNCHANGED <<command, dev, faults>>

AnotherCopy == wr_offset + str_len <= buf_len

\* strcpy(buf + wr_offset, str): the characters and the terminator, which
\* the next copy overwrites
Fill ==
  /\ pc = "fill" /\ AnotherCopy
  /\ buf' = [j \in DOMAIN buf |->
               IF j \in wr_offset .. wr_offset + str_len - 1 THEN j - wr_offset
               ELSE IF j = wr_offset + str_len /\ j < buf_len THEN NUL ELSE buf[j]]
  /\ wr_offset' = wr_offset + str_len
  /\ UNCHANGED <<command, pc, dev, faults>>

EndFill ==
  /\ pc = "fill" /\ ~AnotherCopy
  /\ pc' = "write" /\ wr_offset' = start
  /\ UNCHANGED <<command, buf, dev, faults>>

-----------------------------------------------------------------------------
\* mutation: the comparison is not strict
MoreOrEqual == U(wr_offset) <= U(data_len + start)

\* a signed offset compared with an unsigned end
More == U(wr_offset) < U(data_len + start)

\* mutation: the last chunk is not cut
ChunkUncut == buf_len

\* one_wr_len; the sector engines leave the start out of the comparison
Chunk ==
  LET rest == U(data_len + start - wr_offset)
      compared == IF engine \in SectEngines THEN U(data_len - wr_offset) ELSE rest
  IN  IF compared > buf_len THEN buf_len ELSE rest

\* what pwrite finds n bytes into the buffer
Sent(n) == IF n < buf_len THEN buf[n] ELSE Heap

\* pwrite transfers k bytes
Pwrite(k) ==
  /\ dev' = [p \in Positions |-> IF p \in wr_offset .. wr_offset + k - 1
                                   THEN Sent(p - wr_offset) ELSE dev[p]]
  /\ wr_offset' = wr_offset + k

\* the volume ends inside the chunk, or the chunk is longer than the buffer
MayFallShort == wr_offset + Chunk > DevSize \/ Chunk > buf_len

WriteChunk ==
  /\ pc = "write" /\ More
  /\ wr_offset >= 0 /\ wr_offset + Chunk <= DevSize
  /\ Pwrite(Chunk)
  /\ UNCHANGED <<command, pc, buf, faults>>

\* fewer bytes than asked for, which the loop makes up for
WriteShort ==
  /\ pc = "write" /\ More /\ wr_offset >= 0
  /\ \E k \in 1 .. Chunk - 1 :
        /\ wr_offset + k <= DevSize
        /\ Pwrite(k)
        /\ \/ MayFallShort /\ UNCHANGED faults
           \/ faults < MaxShort /\ faults' = faults + 1
  /\ UNCHANGED <<command, pc, buf>>

WriteFails ==
  /\ pc = "write" /\ More
  /\ \/ (wr_offset \notin Positions \/ MayFallShort) /\ UNCHANGED faults
     \/ faults < MaxShort /\ faults' = faults + 1
  /\ pc' = "failed"
  /\ UNCHANGED <<command, buf, wr_offset, dev>>

\* "Write Done"
Done ==
  /\ pc = "write" /\ ~More
  /\ pc' = "done"
  /\ UNCHANGED <<command, buf, wr_offset, dev, faults>>

Ended == pc \in {"done", "failed", "aborted"}
Exited == Ended /\ UNCHANGED vars

Step == \/ TooFewArguments \/ BadNumber \/ Parsed \/ DoOpen
        \/ AllocFails \/ Allocate \/ Fill \/ EndFill
        \/ WriteChunk \/ WriteShort \/ WriteFails \/ Done
Next == Step \/ Exited

\* a sequential program that nothing stops
Spec == Init /\ [][Next]_vars /\ WF_vars(Step)

-----------------------------------------------------------------------------
(* What is checked *)

\* Every variable has its type.
TypeOK ==
  /\ engine \in Engines /\ off \in Offs /\ cnt \in Counts /\ str_len \in Nat
  /\ pc \in {"start", "open", "alloc", "fill", "write", "done", "failed", "aborted"}
  /\ buf \in [0 .. MAX_BUF_LEN - 1 -> Bytes]
  /\ wr_offset \in Int /\ (pc = "fill" => wr_offset \in 0 .. buf_len)
  /\ dev \in [Positions -> Bytes \cup {Old}]
  /\ faults \in 0 .. MaxShort

\* Where the sector engines' comparison is the same as the byte engines'.  From
\* another start they send chunks longer than the buffer, and write past the
\* range.
Exact == engine \in ByteEngines \/ off = 0

\* No pwrite sends more bytes than the buffer holds, whatever part of the range
\* is left after short writes.
ChunkFits == Exact /\ pc = "write" /\ More => Chunk <= buf_len

\* The byte engines, and the sector engines from sector 0, never change a byte
\* outside the requested range, even if they fail half way.
OnlyRequested == Exact => \A p \in Positions : dev[p] # Old => p \in Requested

\* The sector engines from another start overrun the range, for their last
\* chunk is not cut; but no engine, whatever its start, changes a byte before
\* the range, or one a whole buffer or more behind it.
NearRange ==
  \A p \in Positions : dev[p] # Old => start <= p /\ p < start + data_len + buf_len

\* "Write Done" is printed only when every byte of the requested range has
\* been written (for an offset that is not negative).
CoversRange ==
  pc = "done" /\ off >= 0 =>
    /\ start + data_len <= DevSize \/ data_len = 0
    /\ \A p \in Requested : dev[p] # Old

\* byte j of the buffer: whole copies of the string, the terminator of the
\* last and, after it, whatever the allocation held
Filled(j) ==
  LET copied == IF engine \in CharEngines THEN buf_len
                ELSE (buf_len \div str_len) * str_len
  IN  IF j < copied THEN j % str_len
      ELSE IF j = copied /\ copied > 0 THEN NUL ELSE Heap

\* Without short writes the volume holds, from the start of the range on, the
\* string repeated up to the buffer's length and that repeated over the range:
\* the two loops compute what a direct definition says.
WritesCopies ==
  Exact /\ pc = "done" /\ faults = 0 /\ off >= 0 =>
    \A p \in Requested : dev[p] = Filled((p - start) % buf_len)

\* The engine ends unless the string is empty: every turn of the loops makes
\* progress, also where the unsigned arithmetic wraps.  With an empty string
\* the fill loop never advances.
Ends == str_len > 0 ~> Ended
=============================================================================
