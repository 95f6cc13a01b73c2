----------------------------- MODULE IotoolEasy -----------------------------
(***************************************************************************)
(* The "easy" engines W and R of iotool_cpp/iotool.c: CheckArgs, then      *)
(* WriteIO or ReadIO of counts blocks of bs bytes from a given sector.     *)
(* Sizes are scaled down; size_t arithmetic is modulo Word.                *)
(***************************************************************************)
EXTENDS Integers, FiniteSets

CONSTANTS Ops,              \* {"W", "R"} or one of them
          Flags,            \* spellings of the open flag: "direct" stands for the
                            \* two CheckArgs knows, "dio" for any other that
                            \* begins with d, "buffer" for the buffered one
          Sizes, MaxOff, Counts,  \* -bs, bound on offset, counts
          sector_size, BLOCK_SIZE_MAX, DevSize,
          Word,             \* size_t is 0 .. Word - 1: a multiple of 2 * sector_size
          MaxFaults         \* short or failed transfers

Positions == 0 .. DevSize - 1

VARIABLES op, flag, bs, sectors, counts, empty,  \* the command; empty: no characters in Str
          pc, i, offset,
          touched,    \* bytes of the volume transferred so far
          last,       \* position and length of the last transfer asked for
          faults

command == <<op, flag, bs, sectors, counts, empty>>
vars == <<command, pc, i, offset, touched, last, faults>>

Start == (sectors * sector_size) % Word
data_len == (bs * counts) % Word
blocks == data_len \div bs
rest == data_len % bs

Init ==
  /\ op \in Ops /\ flag \in Flags /\ bs \in Sizes
  /\ sectors \in (-MaxOff) .. MaxOff /\ counts \in Counts
  /\ empty \in BOOLEAN
  /\ pc = "check" /\ i = 0 /\ offset = 0
  /\ touched = {} /\ last = [pos |-> 0, len |-> 0] /\ faults = 0

-----------------------------------------------------------------------------
\* do_open compares prefixes: every argument that begins with d means O_DIRECT
DirectOpen == flag \in {"direct", "dio"}

\* CheckArgs takes only the two full spellings for direct
SizeAccepted == bs <= BLOCK_SIZE_MAX /\ (flag = "direct" => bs % sector_size = 0)

CheckArgs ==
  /\ pc = "check"
  /\ pc' = IF SizeAccepted THEN "open" ELSE "failed"
  /\ UNCHANGED <<command, i, offset, touched, last, faults>>

\* too few arguments, or a number that does not parse
BadArguments ==
  /\ pc = "check" /\ pc' \in {"failed", "aborted"}
  /\ UNCHANGED <<command, i, offset, touched, last, faults>>

\* do_open and aligned_alloc
OpenAndAllocate ==
  /\ pc = "open" /\ offset' = Start
  /\ pc' \in {"failed", IF op = "W" THEN "fill" ELSE "count"}
  /\ UNCHANGED <<command, i, touched, last, faults>>

\* copies of the string; without characters the loop does not advance
Fill ==
  /\ pc = "fill"
  /\ pc' = IF empty THEN "fill" ELSE "count"
  /\ UNCHANGED <<command, i, offset, touched, last, faults>>

\* data_len / bs
CountBlocks ==
  /\ pc = "count"
  /\ pc' = IF bs = 0 THEN "killed" ELSE "loop"
  /\ UNCHANGED <<command, i, offset, touched, last, faults>>

-----------------------------------------------------------------------------
\* the kernel refuses an O_DIRECT transfer that is not in whole sectors
Refused(p, n) == DirectOpen /\ ~(p % sector_size = 0 /\ n % sector_size = 0)

\* A transfer of n bytes at p, as off_t.  Past the end of the volume pread
\* returns nothing and pwrite fails.  A short transfer is not noticed.
Transferred(p, n) ==
  /\ last' = [pos |-> p, len |-> n]
  /\ p < Word \div 2 /\ ~Refused(p, n)
  /\ op = "W" => p < DevSize
  /\ \/ touched' = touched \cup (Positions \cap (p .. p + n - 1)) /\ UNCHANGED faults
     \/ /\ faults < MaxFaults /\ faults' = faults + 1
        /\ \E k \in 1 .. n - 1 : touched' = touched \cup (Positions \cap (p .. p + k - 1))

TransferFails(p, n) ==
  /\ last' = [pos |-> p, len |-> n]
  /\ \/ /\ p >= Word \div 2 \/ Refused(p, n) \/ (op = "W" /\ p >= DevSize)
        /\ UNCHANGED faults
     \/ faults < MaxFaults /\ faults' = faults + 1
  /\ pc' = "failed"
  /\ UNCHANGED <<command, i, touched>>

\* mutation: the write offset moves by a block less a byte
OverlappingBlock == IF op = "W" THEN (offset + (bs - 1) * i) % Word ELSE (bs * i + offset) % Word

\* where block i goes: WriteIO moves offset, ReadIO adds to it
Block == (offset + bs * i) % Word

Moved == IF op = "W" THEN Block ELSE offset

MoreBlocks == i < blocks

DoBlock ==
  /\ pc = "loop" /\ MoreBlocks
  /\ Transferred(Block, bs)
  /\ offset' = Moved /\ i' = i + 1
  /\ UNCHANGED <<command, pc>>

BlockFails ==
  /\ pc = "loop" /\ MoreBlocks
  /\ TransferFails(Block, bs)
  /\ offset' = Moved

EndBlocks ==
  /\ pc = "loop" /\ ~MoreBlocks
  /\ pc' = IF rest = 0 THEN "done" ELSE "rest"
  /\ UNCHANGED <<command, i, offset, touched, last, faults>>

\* WriteIO writes the rest over the last block; ReadIO reads it without the
\* offset
RestAt == IF op = "W" THEN offset ELSE (blocks * bs) % Word

DoRest ==
  /\ pc = "rest"
  /\ Transferred(RestAt, rest)
  /\ pc' = "done"
  /\ UNCHANGED <<command, i, offset>>

RestFails ==
  /\ pc = "rest"
  /\ TransferFails(RestAt, rest)
  /\ UNCHANGED offset

Ended == pc \in {"done", "failed", "aborted", "killed"}
Exited == Ended /\ UNCHANGED vars

Step == \/ CheckArgs \/ BadArguments \/ OpenAndAllocate \/ Fill \/ CountBlocks
        \/ DoBlock \/ BlockFails \/ EndBlocks \/ DoRest \/ RestFails
Next == Step \/ Exited

\* a sequential program that nothing stops
Spec == Init /\ [][Next]_vars /\ WF_vars(Step)

-----------------------------------------------------------------------------
(* What is checked *)

NoOverflow == bs * counts < Word /\ sectors >= 0
Range == {p \in Positions : sectors * sector_size <= p /\ p < sectors * sector_size + bs * counts}

\* R reads the sectors asked for and no other byte of the volume.  The blocks
\* W writes are disjoint and lie behind its offset, though with gaps, as the
\* offset moves by 0, 1, 2, ... blocks: no block overwrites an earlier one.
TransfersRange ==
  pc = "done" /\ NoOverflow /\ faults = 0 =>
    /\ op = "R" => touched = Range
    /\ op = "W" /\ offset + bs <= DevSize =>
         Cardinality(touched) = bs * counts /\ \A p \in touched : p >= Start

\* A volume opened as "d" or "direct" is only accessed at multiples of the
\* sector size and in multiples of it, although the lengths wrap.  (Under any
\* other spelling do_open takes for O_DIRECT nothing checks the block size.)
DirectAligned ==
  flag = "direct" => last.pos % sector_size = 0 /\ last.len % sector_size = 0
=============================================================================
