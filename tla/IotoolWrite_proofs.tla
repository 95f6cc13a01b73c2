------------------------- MODULE IotoolWrite_proofs -------------------------
(***************************************************************************)
(* For every buffer, volume and range: a command that ends with "Write     *)
(* Done" has written all of the range; no engine writes before the range   *)
(* or a whole buffer behind it; and the byte engines, and the              *)
(* sector engines from sector 0, send no chunk longer than the buffer,     *)
(* write nothing outside the range and, without short writes, leave in it  *)
(* the copies of the string a direct definition says.                      *)
(***************************************************************************)
EXTENDS IotoolWrite, TLAPS

\* While chunks are written the volume holds new bytes exactly from the start
\* of the range up to wr_offset, and wr_offset stays inside range and volume.
Prefix ==
  /\ pc \in {"write", "done"} =>
       /\ start <= wr_offset /\ wr_offset <= start + data_len
       /\ wr_offset = start \/ wr_offset <= DevSize
       /\ \A p \in Positions : dev[p] # Old <=> start <= p /\ p < wr_offset
  /\ pc = "done" => ~More
  /\ pc \in {"start", "open", "alloc", "fill"} => \A p \in Positions : dev[p] = Old
  /\ OnlyRequested

\* The same from below, for every engine: what lies between the start of the
\* range and wr_offset has been written.
Covered ==
  /\ pc \in {"write", "done"} =>
       /\ start <= wr_offset /\ (wr_offset = start \/ wr_offset <= DevSize)
       /\ \A p \in Positions : start <= p /\ p < wr_offset => dev[p] # Old
  /\ pc = "done" => ~More

\* For every engine and start: nothing is written before the first chunk, a
\* negative offset never moves, and what is written lies near the range.
Near ==
  /\ pc \in {"start", "open", "alloc", "fill"} => \A p \in Positions : dev[p] = Old
  /\ pc = "write" /\ off < 0 => wr_offset = start
  /\ NearRange

\* Byte j of a buffer in which the copies of the string end at e.
FilledTo(e, j) == IF j < e THEN j % str_len ELSE IF j = e /\ e > 0 THEN NUL ELSE Heap

\* The fill loop leaves whole copies up to wr_offset; the buffer is the direct
\* definition's when the loop ends, which it never does for an empty string.
Contents ==
  /\ engine \in CharEngines => str_len = 1
  /\ pc \in {"start", "open", "alloc"} => \A j \in 0 .. buf_len - 1 : buf[j] = Heap
  /\ pc = "fill" =>
       /\ engine \notin CharEngines
       /\ str_len > 0 => /\ wr_offset % str_len = 0
                         /\ \A j \in 0 .. buf_len - 1 : buf[j] = FilledTo(wr_offset, j)
  /\ pc \in {"write", "done"} =>
       str_len > 0 /\ \A j \in 0 .. buf_len - 1 : buf[j] = Filled(j)

\* Without short writes every chunk starts a whole number of buffers after the
\* start of the range, so what is written is the buffer over and over.
InStep ==
  /\ pc \in {"write", "done"} /\ Exact /\ faults = 0 /\ off >= 0
  /\ start + data_len <= DevSize
  => /\ wr_offset = start + data_len \/ (wr_offset - start) % buf_len = 0
     /\ \A p \in Positions :
          start <= p /\ p < wr_offset => dev[p] = Filled((p - start) % buf_len)

IInv == TypeOK /\ (Exact => Prefix)

Full == IInv /\ (off >= 0 => Covered) /\ Near /\ Contents /\ InStep

\* Sizes and offsets are integers far from the end of size_t.
LEMMA Sizes ==
  ASSUME TypeOK
  PROVE  /\ start \in Int /\ data_len \in Nat /\ buf_len \in Nat
         /\ buf_len <= data_len /\ buf_len <= MAX_BUF_LEN
         /\ data_len > 0 => buf_len > 0
         /\ Word \in Nat /\ DevSize \in Nat
         /\ 4 * DevSize < Word
         /\ (off >= 0 => start >= 0) /\ (off < 0 => start < 0)
         /\ (-Word) < 4 * start /\ 4 * start < Word /\ 4 * data_len < Word
<1> USE SizesAssumption
<1>1. off \in Int /\ cnt \in Nat /\ (-MaxOff) <= off /\ off <= MaxOff /\ cnt \in Counts
  BY DEF TypeOK, Offs
<1>2. Unit \in Nat \ {0}
  BY DEF Unit
<1>3. start \in Int /\ data_len \in Nat
  BY <1>1, <1>2 DEF start, data_len
<1>4. 4 * (1 * MaxOff) < Word /\ 4 * (1 * DevSize) < Word /\ 4 * (1 * cnt) < Word
  BY <1>1, WordAssumption
<1>5. /\ (off >= 0 => start >= 0) /\ (off < 0 => start < 0)
      /\ (-Word) < 4 * start /\ 4 * start < Word /\ 4 * data_len < Word
  <2>1. 4 * (Unit * cnt) < Word /\ 4 * (Unit * MaxOff) < Word
    BY <1>1, WordAssumption DEF Unit
  <2>2. /\ (off >= 0 => off * Unit >= 0) /\ (off < 0 => off * Unit < 0)
        /\ off * Unit <= Unit * MaxOff /\ -(Unit * MaxOff) <= off * Unit
    BY <1>1, <1>2
  <2>3. Unit * MaxOff \in Nat /\ data_len = Unit * cnt /\ start = off * Unit
    BY <1>1, <1>2 DEF start, data_len
  <2> HIDE DEF start, data_len
  <2> QED  BY <1>3, <2>1, <2>2, <2>3
<1> HIDE DEF start, data_len
<1>6. /\ buf_len \in Nat /\ buf_len <= data_len /\ buf_len <= MAX_BUF_LEN
      /\ data_len > 0 => buf_len > 0
  BY <1>3 DEF buf_len
<1> QED  BY <1>1, <1>3, <1>4, <1>5, <1>6

\* The loop goes on exactly while part of the range is left, unless the
\* offset is negative, and a chunk is then the part of it that fits.
LEMMA ByteChunk ==
  ASSUME TypeOK, Exact, start <= wr_offset, wr_offset <= start + data_len,
         wr_offset = start \/ wr_offset <= DevSize
  PROVE  /\ Chunk \in Nat /\ Chunk <= buf_len /\ wr_offset + Chunk <= start + data_len
         /\ (off >= 0 /\ ~More => wr_offset = start + data_len)
<1> DEFINE rest == data_len + start - wr_offset
<1>1. /\ start \in Int /\ data_len \in Nat /\ buf_len \in Nat /\ Word \in Nat
      /\ 4 * start < Word /\ 4 * data_len < Word /\ (off >= 0 => start >= 0)
  BY Sizes
<1>2. wr_offset \in Int
  BY DEF TypeOK
<1> HIDE DEF start, data_len, buf_len
<1>3. rest \in 0 .. data_len /\ rest < Word
  BY <1>1, <1>2
<1>4. U(rest) = rest
  BY <1>1, <1>3 DEF U
<1>5. Chunk = IF rest > buf_len THEN buf_len ELSE rest
  <2>1. engine \in SectEngines => off = 0
    BY DEF Exact, ByteEngines, SectEngines
  <2>2. off = 0 => data_len - wr_offset = rest
    <3>1. off = 0 => start = 0
      <4>1. Unit \in Nat
        BY SizesAssumption DEF Unit
      <4> QED  BY <4>1 DEF start
    <3> QED  BY <1>1, <1>2, <3>1
  <2> QED  BY <2>1, <2>2, <1>4 DEF Chunk
<1>6. off >= 0 => (More <=> wr_offset < data_len + start)
  <2>1. off >= 0 => U(wr_offset) = wr_offset /\ U(data_len + start) = data_len + start
    BY <1>1, <1>2 DEF U
  <2> QED  BY <2>1 DEF More
<1> QED  BY <1>1, <1>2, <1>3, <1>5, <1>6

LEMMA InitIInv == Init => IInv
<1> SUFFICES ASSUME Init PROVE IInv
  OBVIOUS
<1>1. str_len \in Nat
  BY SizesAssumption DEF Init
<1>2. TypeOK
  BY <1>1, SizesAssumption DEF Init, TypeOK, Bytes
<1> QED
  BY <1>2 DEF Init, IInv, Prefix, OnlyRequested

\* The command, and with it the range, never changes.
LEMMA SameRange ==
  ASSUME UNCHANGED command
  PROVE  /\ engine' = engine /\ off' = off /\ cnt' = cnt /\ str_len' = str_len
         /\ start' = start /\ data_len' = data_len /\ buf_len' = buf_len
         /\ Requested' = Requested /\ (Exact' <=> Exact)
<1>1. engine' = engine /\ off' = off /\ cnt' = cnt /\ str_len' = str_len
  BY DEF command
<1>2. Unit' = Unit
  BY <1>1 DEF Unit
<1>3. start' = start /\ data_len' = data_len
  BY <1>1, <1>2 DEF start, data_len
<1>4. buf_len' = buf_len
  BY <1>3 DEF buf_len
<1> QED  BY <1>1, <1>3, <1>4 DEF Requested, Exact

\* Up to the first chunk the volume is untouched.
LEMMA EarlyIInv ==
  ASSUME IInv, \/ TooFewArguments \/ BadNumber \/ Parsed \/ DoOpen
               \/ AllocFails \/ Allocate \/ Fill \/ EndFill
  PROVE  IInv'
<1>1. /\ UNCHANGED command /\ dev' = dev /\ faults' = faults
      /\ pc \in {"start", "open", "alloc", "fill"}
      /\ pc' \in {"failed", "aborted", "open", "alloc", "fill", "write"}
      /\ pc' = "write" => wr_offset' = start
  BY DEF TooFewArguments, BadNumber, Parsed, DoOpen, AllocFails, Allocate, Fill, EndFill
<1>2. /\ start' = start /\ data_len' = data_len /\ buf_len' = buf_len
      /\ Requested' = Requested /\ (Exact' <=> Exact)
  BY <1>1, SameRange
<1>3. /\ start \in Int /\ data_len \in Nat /\ buf_len \in Nat /\ DevSize \in Nat
  BY Sizes DEF IInv
<1>4. TypeOK'
  <2>1. buf' \in [0 .. MAX_BUF_LEN - 1 -> Bytes]
    <3>1. CASE Fill
      <4>1. wr_offset \in Nat /\ str_len \in Nat
        BY <3>1, <1>3 DEF IInv, TypeOK, Fill
      <4> QED  BY <3>1, <4>1, SizesAssumption DEF IInv, TypeOK, Fill, Bytes
    <3>2. CASE Allocate
      BY <3>2 DEF IInv, TypeOK, Allocate, Bytes
    <3>3. CASE UNCHANGED buf
      BY <3>3 DEF IInv, TypeOK
    <3> QED  BY <3>1, <3>2, <3>3 DEF TooFewArguments, BadNumber, Parsed, DoOpen, AllocFails, EndFill
  <2>2. wr_offset' \in Int /\ (pc' = "fill" => wr_offset' \in 0 .. buf_len)
    <3>1. CASE Fill
      <4>1. wr_offset \in Nat /\ str_len \in Nat
        BY <3>1, <1>3 DEF IInv, TypeOK, Fill
      <4> QED  BY <3>1, <4>1, <1>3 DEF Fill, AnotherCopy
    <3>2. CASE Allocate
      BY <3>2, <1>3 DEF Allocate
    <3>3. CASE EndFill
      BY <3>3, <1>3 DEF EndFill
    <3>4. CASE TooFewArguments \/ BadNumber \/ Parsed \/ DoOpen \/ AllocFails
      BY <3>4 DEF IInv, TypeOK, TooFewArguments, BadNumber, Parsed, DoOpen, AllocFails
    <3> QED  BY <3>1, <3>2, <3>3, <3>4
  <2>3. engine' = engine /\ off' = off /\ cnt' = cnt /\ str_len' = str_len
    BY <1>1, SameRange
  <2> QED  BY Zenon, <1>1, <1>2, <2>1, <2>2, <2>3 DEF IInv, TypeOK
<1>5. ASSUME Exact PROVE Prefix'
  <2>1. \A p \in Positions : dev'[p] = Old
    BY <1>1, <1>5 DEF IInv, Prefix
  <2> HIDE DEF start, data_len
  <2>2. pc' = "write" =>
          /\ start <= wr_offset' /\ wr_offset' <= start + data_len
          /\ \A p \in Positions : dev'[p] # Old <=> start <= p /\ p < wr_offset'
    <3>1. \A p \in Positions : ~(start <= p /\ p < start)
      BY <1>3 DEF Positions
    <3> QED  BY <1>1, <1>3, <2>1, <3>1
  <2>3. OnlyRequested'
    BY <2>1 DEF OnlyRequested
  <2> QED  BY <1>1, <1>2, <2>1, <2>2, <2>3 DEF Prefix
<1> QED  BY <1>2, <1>4, <1>5 DEF IInv

\* A pwrite of k bytes, the whole chunk or less, extends the prefix by k.
LEMMA PwriteIInv ==
  ASSUME IInv, pc = "write", UNCHANGED <<command, pc, buf>>, faults' \in 0 .. MaxShort,
         NEW k \in Int, Exact => k >= 0, k <= Chunk,
         wr_offset >= 0, wr_offset + k <= DevSize, Pwrite(k)
  PROVE  IInv'
<1>1. /\ engine' = engine /\ off' = off /\ cnt' = cnt /\ str_len' = str_len
      /\ start' = start /\ data_len' = data_len /\ buf_len' = buf_len
      /\ Requested' = Requested /\ (Exact' <=> Exact)
  BY SameRange
<1>2. /\ start \in Int /\ data_len \in Nat /\ buf_len \in Nat /\ buf_len <= MAX_BUF_LEN
      /\ DevSize \in Nat /\ wr_offset \in Int
  BY Sizes DEF IInv, TypeOK
<1> HIDE DEF start, data_len, buf_len
<1>3. wr_offset' = wr_offset + k
  BY DEF Pwrite
<1>4. \A p \in Positions : p \in wr_offset .. wr_offset + k - 1 => Sent(p - wr_offset) \in Bytes
  <2> SUFFICES ASSUME NEW p \in Positions, p \in wr_offset .. wr_offset + k - 1
               PROVE  Sent(p - wr_offset) \in Bytes
    OBVIOUS
  <2>1. p - wr_offset \in Nat
    BY <1>2
  <2>2. CASE p - wr_offset < buf_len
    <3>1. p - wr_offset \in 0 .. MAX_BUF_LEN - 1
      BY <1>2, <2>1, <2>2, SizesAssumption
    <3> QED  BY <2>2, <3>1 DEF Sent, IInv, TypeOK
  <2>3. CASE ~(p - wr_offset < buf_len)
    BY <2>3 DEF Sent, Bytes
  <2> QED  BY <2>2, <2>3
<1>5. TypeOK'
  <2>1. dev' \in [Positions -> Bytes \cup {Old}]
    BY <1>4 DEF Pwrite, IInv, TypeOK
  <2> QED  BY <1>1, <1>2, <1>3, <2>1 DEF IInv, TypeOK
<1>6. ASSUME Exact PROVE Prefix'
  <2>1. /\ start <= wr_offset /\ wr_offset <= start + data_len
        /\ wr_offset = start \/ wr_offset <= DevSize
        /\ \A p \in Positions : dev[p] # Old <=> start <= p /\ p < wr_offset
    BY <1>6 DEF IInv, Prefix
  <2>2. Chunk \in Nat /\ wr_offset + Chunk <= start + data_len
    BY <1>6, <2>1, ByteChunk DEF IInv
  <2>3. /\ start <= wr_offset' /\ wr_offset' <= start + data_len
        /\ wr_offset' <= DevSize
    BY <1>2, <1>3, <1>6, <2>1, <2>2
  <2>4. ASSUME NEW p \in Positions
        PROVE  dev'[p] # Old <=> start <= p /\ p < wr_offset'
    <3>1. p \in Int
      BY <1>2 DEF Positions
    <3>2. CASE p \in wr_offset .. wr_offset + k - 1
      <4>1. dev'[p] \in Bytes
        BY <3>2, <1>4 DEF Pwrite
      <4>2. Old \notin Bytes
        BY DEF Old, Bytes, NUL, Heap
      <4> QED  BY <1>2, <1>3, <2>1, <3>1, <3>2, <4>1, <4>2
    <3>3. CASE p \notin wr_offset .. wr_offset + k - 1
      <4>1. dev'[p] = dev[p]
        BY <3>3 DEF Pwrite
      <4>2. p < wr_offset \/ p >= wr_offset + k
        BY <1>2, <3>1, <3>3
      <4> QED  BY <1>2, <1>3, <1>6, <2>1, <3>1, <4>1, <4>2
    <3> QED  BY <3>2, <3>3
  <2>5. OnlyRequested'
    BY <1>1, <1>2, <1>3, <2>3, <2>4 DEF OnlyRequested, Requested, Positions
  <2> QED  BY <1>1, <2>3, <2>4, <2>5 DEF Prefix
<1> QED  BY <1>1, <1>5, <1>6 DEF IInv

LEMMA NextIInv == IInv /\ [Next]_vars => IInv'
<1> SUFFICES ASSUME IInv, [Next]_vars PROVE IInv'
  OBVIOUS
<1>1. CASE \/ TooFewArguments \/ BadNumber \/ Parsed \/ DoOpen
           \/ AllocFails \/ Allocate \/ Fill \/ EndFill
  BY <1>1, EarlyIInv
<1>2. ASSUME IInv PROVE faults \in 0 .. MaxShort /\ MaxShort \in Nat
  BY SizesAssumption DEF IInv, TypeOK
<1>3. Chunk \in Int
  <2>1. /\ start \in Int /\ data_len \in Nat /\ buf_len \in Nat /\ Word \in Nat
        /\ wr_offset \in Int
    BY Sizes DEF IInv, TypeOK
  <2> HIDE DEF start, data_len, buf_len
  <2> QED  BY <2>1 DEF Chunk, U
<1>4. CASE WriteChunk
  <2>1. Exact => Chunk >= 0
    <3> SUFFICES ASSUME Exact PROVE Chunk >= 0
      OBVIOUS
    <3>1. /\ start <= wr_offset /\ wr_offset <= start + data_len
          /\ wr_offset = start \/ wr_offset <= DevSize
      BY <1>4 DEF IInv, Prefix, WriteChunk
    <3>2. Chunk \in Nat
      BY <3>1, ByteChunk DEF IInv
    <3> QED  BY <3>2
  <2>2. Chunk <= Chunk
    BY <1>3
  <2> QED  BY <1>2, <1>3, <1>4, <2>1, <2>2, PwriteIInv DEF WriteChunk
<1>5. CASE WriteShort
  <2>1. PICK k \in 1 .. Chunk - 1 :
          /\ wr_offset + k <= DevSize /\ Pwrite(k)
          /\ \/ UNCHANGED faults
             \/ faults < MaxShort /\ faults' = faults + 1
    BY <1>5 DEF WriteShort
  <2>2. faults' \in 0 .. MaxShort
    BY <1>2, <2>1
  <2>3. k \in Int /\ k >= 0 /\ k <= Chunk
    BY <1>3, <2>1
  <2> QED  BY <1>5, <2>1, <2>2, <2>3, PwriteIInv DEF WriteShort
<1>6. CASE WriteFails \/ Done
  <2>1. /\ UNCHANGED command /\ buf' = buf /\ wr_offset' = wr_offset /\ dev' = dev
        /\ pc = "write" /\ pc' \in {"failed", "done"} /\ (pc' = "done" => ~More)
    BY <1>6 DEF WriteFails, Done
  <2>2. faults' \in 0 .. MaxShort
    BY <1>2, <1>6 DEF WriteFails, Done
  <2>3. /\ engine' = engine /\ off' = off /\ cnt' = cnt /\ str_len' = str_len
        /\ start' = start /\ data_len' = data_len /\ buf_len' = buf_len
        /\ Requested' = Requested /\ (Exact' <=> Exact)
    BY <2>1, SameRange
  <2>4. TypeOK'
    BY <2>1, <2>2, <2>3 DEF IInv, TypeOK
  <2>5. More' <=> More
    BY <2>1, <2>3 DEF More, U
  <2>6. OnlyRequested' <=> OnlyRequested
    BY <2>1, <2>3 DEF OnlyRequested
  <2>7. Exact => Prefix'
    BY <2>1, <2>3, <2>5, <2>6 DEF IInv, Prefix
  <2> QED  BY <2>3, <2>4, <2>7 DEF IInv
<1>7. CASE UNCHANGED vars
  <2>1. /\ UNCHANGED command /\ buf' = buf /\ wr_offset' = wr_offset /\ dev' = dev
        /\ pc' = pc /\ faults' = faults
    BY <1>7 DEF vars
  <2>2. /\ engine' = engine /\ off' = off /\ cnt' = cnt /\ str_len' = str_len
        /\ start' = start /\ data_len' = data_len /\ buf_len' = buf_len
        /\ Requested' = Requested /\ (Exact' <=> Exact)
    BY <2>1, SameRange
  <2>3. TypeOK'
    BY <2>1, <2>2 DEF IInv, TypeOK
  <2>4. (More' <=> More) /\ (OnlyRequested' <=> OnlyRequested)
    BY <2>1, <2>2 DEF More, U, OnlyRequested
  <2> QED  BY <2>1, <2>2, <2>3, <2>4 DEF IInv, Prefix
<1> QED
  BY <1>1, <1>4, <1>5, <1>6, <1>7 DEF Next, Step, Exited

\* The loop goes on while part of the range is left, whatever the engine, and
\* a chunk is then not negative.
LEMMA AnyChunk ==
  ASSUME TypeOK, off >= 0, start <= wr_offset, wr_offset = start \/ wr_offset <= DevSize
  PROVE  /\ More <=> wr_offset < start + data_len
         /\ More => Chunk \in Nat /\ wr_offset + Chunk <= start + data_len + buf_len
<1>1. /\ start \in Nat /\ data_len \in Nat /\ buf_len \in Nat /\ Word \in Nat
      /\ DevSize \in Nat /\ 4 * DevSize < Word
      /\ 4 * start < Word /\ 4 * data_len < Word /\ wr_offset \in Nat
  BY Sizes DEF TypeOK
<1> HIDE DEF start, data_len, buf_len
<1>2. U(wr_offset) = wr_offset /\ U(data_len + start) = data_len + start
  BY <1>1 DEF U
<1>3. More <=> wr_offset < start + data_len
  BY <1>1, <1>2 DEF More
<1>4. wr_offset < start + data_len =>
        U(data_len + start - wr_offset) = data_len + start - wr_offset
  BY <1>1 DEF U
<1>5. Chunk \in {buf_len, U(data_len + start - wr_offset)}
  BY DEF Chunk
<1> QED  BY <1>1, <1>3, <1>4, <1>5

\* A pwrite of k bytes covers k more.
LEMMA PwriteCovers ==
  ASSUME IInv, off >= 0, Covered, pc = "write", UNCHANGED <<command, pc, buf>>,
         NEW k \in Nat, wr_offset >= 0, wr_offset + k <= DevSize, Pwrite(k)
  PROVE  Covered'
<1>1. start' = start /\ buf_len' = buf_len
  BY SameRange
<1>2. start \in Int /\ buf_len \in Nat /\ buf_len <= MAX_BUF_LEN /\ DevSize \in Nat
  BY Sizes DEF IInv
<1>3. wr_offset \in Int /\ dev \in [Positions -> Bytes \cup {Old}] /\ buf \in [0 .. MAX_BUF_LEN - 1 -> Bytes]
  BY DEF IInv, TypeOK
<1> HIDE DEF start, buf_len
<1>4. /\ wr_offset' = wr_offset + k
      /\ dev' = [p \in Positions |-> IF p \in wr_offset .. wr_offset + k - 1
                                       THEN Sent(p - wr_offset) ELSE dev[p]]
  BY DEF Pwrite
<1>5. /\ start <= wr_offset
      /\ \A p \in Positions : start <= p /\ p < wr_offset => dev[p] # Old
  BY DEF Covered
<1>6. ASSUME NEW n \in Nat PROVE Sent(n) # Old
  <2>1. CASE n < buf_len
    <3>1. n \in 0 .. MAX_BUF_LEN - 1
      BY <1>2, <2>1, SizesAssumption
    <3>2. buf[n] \in Bytes /\ Old \notin Bytes
      BY <1>3, <3>1 DEF Old, Bytes, NUL, Heap
    <3> QED  BY <2>1, <3>2 DEF Sent
  <2>2. CASE ~(n < buf_len)
    BY <2>2 DEF Sent, Heap, Old
  <2> QED  BY <2>1, <2>2
<1>7. ASSUME NEW p \in Positions, start <= p, p < wr_offset + k
      PROVE  dev'[p] # Old
  <2>1. p \in Int
    BY <1>2 DEF Positions
  <2>2. CASE p < wr_offset
    <3>1. p \notin wr_offset .. wr_offset + k - 1
      BY <1>3, <2>1, <2>2
    <3> QED  BY <1>4, <1>5, <1>7, <2>2, <3>1
  <2>3. CASE p >= wr_offset
    <3>1. p \in wr_offset .. wr_offset + k - 1 /\ p - wr_offset \in Nat
      BY <1>3, <1>7, <2>1, <2>3
    <3> QED  BY <1>4, <1>6, <3>1
  <2> QED  BY <1>3, <2>1, <2>2, <2>3
<1>8. start <= wr_offset' /\ wr_offset' <= DevSize
  BY <1>2, <1>3, <1>4, <1>5
<1>9. \A p \in Positions : start <= p /\ p < wr_offset' => dev'[p] # Old
  BY <1>4, <1>7
<1> QED  BY <1>1, <1>8, <1>9 DEF Covered

LEMMA CoveredKept ==
  ASSUME IInv, off >= 0, Covered, [Next]_vars
  PROVE  Covered'
<1> USE DEF IInv
<1>1. CASE \/ TooFewArguments \/ BadNumber \/ Parsed \/ DoOpen
           \/ AllocFails \/ Allocate \/ Fill \/ EndFill
  <2>1. /\ UNCHANGED command
        /\ pc' \in {"failed", "aborted", "open", "alloc", "fill", "write"}
        /\ pc' = "write" => wr_offset' = start
    BY <1>1 DEF TooFewArguments, BadNumber, Parsed, DoOpen, AllocFails, Allocate, Fill, EndFill
  <2>2. start' = start /\ start \in Int /\ DevSize \in Nat
    BY <2>1, SameRange, Sizes
  <2> HIDE DEF start
  <2>3. \A p \in Positions : ~(start <= p /\ p < start)
    BY <2>2 DEF Positions
  <2> QED  BY <2>1, <2>2, <2>3 DEF Covered
<1>2. pc = "write" /\ More => Chunk \in Nat
  BY AnyChunk DEF Covered
<1>3. CASE WriteChunk
  <2>1. /\ pc = "write" /\ wr_offset >= 0 /\ wr_offset + Chunk <= DevSize /\ Pwrite(Chunk)
        /\ UNCHANGED <<command, pc, buf>> /\ Chunk \in Nat
    BY <1>2, <1>3 DEF WriteChunk
  <2> QED  BY <2>1, PwriteCovers
<1>4. CASE WriteShort
  <2>1. PICK k \in 1 .. Chunk - 1 : wr_offset + k <= DevSize /\ Pwrite(k)
    BY <1>4 DEF WriteShort
  <2>2. /\ pc = "write" /\ wr_offset >= 0
        /\ UNCHANGED <<command, pc, buf>> /\ Chunk \in Nat
    BY <1>2, <1>4 DEF WriteShort
  <2>3. k \in Nat
    BY <2>1, <2>2
  <2> QED  BY <2>1, <2>2, <2>3, PwriteCovers
<1>5. CASE WriteFails \/ Done \/ UNCHANGED vars
  <2>1. /\ UNCHANGED command /\ wr_offset' = wr_offset /\ dev' = dev
        /\ pc' = pc \/ (pc = "write" /\ pc' \in {"failed", "done"} /\ (pc' = "done" => ~More))
    BY <1>5 DEF WriteFails, Done, vars
  <2>2. start' = start /\ data_len' = data_len
    BY <2>1, SameRange
  <2>3. More' <=> More
    BY <2>1, <2>2 DEF More, U
  <2> HIDE DEF start, More
  <2> QED  BY <2>1, <2>2, <2>3 DEF Covered
<1> QED  BY <1>1, <1>3, <1>4, <1>5 DEF Next, Step, Exited

\* A pwrite of part of a chunk stays near the range.
LEMMA PwriteNear ==
  ASSUME IInv, off >= 0 => Covered, Near, pc = "write", More, UNCHANGED <<command, pc>>,
         NEW k \in Int, k <= Chunk, wr_offset >= 0, Pwrite(k)
  PROVE  Near'
<1>1. off' = off /\ start' = start /\ data_len' = data_len /\ buf_len' = buf_len
  BY SameRange
<1>2. /\ start \in Int /\ data_len \in Nat /\ buf_len \in Nat /\ DevSize \in Nat
      /\ off \in Int /\ (off < 0 => start < 0) /\ wr_offset \in Int
  BY Sizes DEF IInv, TypeOK, Offs
<1>3. off >= 0
  BY <1>2 DEF Near
<1>4. start <= wr_offset /\ Chunk \in Nat /\ wr_offset + Chunk <= start + data_len + buf_len
  BY <1>3, AnyChunk DEF Covered, IInv
<1> HIDE DEF start, data_len, buf_len
<1>5. ASSUME NEW p \in Positions, dev'[p] # Old
      PROVE  start <= p /\ p < start + data_len + buf_len
  <2>1. CASE p \in wr_offset .. wr_offset + k - 1
    BY <1>2, <1>4, <2>1
  <2>2. CASE p \notin wr_offset .. wr_offset + k - 1
    <3>1. dev'[p] = dev[p]
      BY <2>2 DEF Pwrite
    <3> QED  BY <1>5, <3>1 DEF Near, NearRange
  <2> QED  BY <2>1, <2>2
<1>6. NearRange'
  BY <1>1, <1>5 DEF NearRange
<1> QED  BY <1>1, <1>2, <1>3, <1>6 DEF Near

LEMMA NearKept ==
  ASSUME IInv, off >= 0 => Covered, Near, [Next]_vars
  PROVE  Near'
<1>1. CASE \/ TooFewArguments \/ BadNumber \/ Parsed \/ DoOpen
           \/ AllocFails \/ Allocate \/ Fill \/ EndFill
  <2>1. /\ UNCHANGED command /\ dev' = dev /\ pc \in {"start", "open", "alloc", "fill"}
        /\ pc' = "write" => wr_offset' = start
    BY <1>1 DEF TooFewArguments, BadNumber, Parsed, DoOpen, AllocFails, Allocate, Fill, EndFill
  <2>2. start' = start
    BY <2>1, SameRange
  <2>3. \A p \in Positions : dev'[p] = Old
    BY <2>1 DEF Near
  <2> QED  BY <2>1, <2>2, <2>3, Zenon DEF Near, NearRange
<1>2. CASE WriteChunk
  <2>1. Chunk \in Int /\ Chunk <= Chunk
    <3>1. /\ start \in Int /\ data_len \in Nat /\ buf_len \in Nat /\ Word \in Nat
          /\ wr_offset \in Int
      BY Sizes DEF IInv, TypeOK
    <3> HIDE DEF start, data_len, buf_len
    <3>2. Chunk \in Int
      BY <3>1 DEF Chunk, U
    <3> QED  BY <3>2
  <2>2. pc = "write" /\ More /\ UNCHANGED <<command, pc>> /\ wr_offset >= 0 /\ Pwrite(Chunk)
    BY <1>2, Zenon DEF WriteChunk
  <2> QED  BY <2>1, <2>2, PwriteNear, Zenon
<1>3. CASE WriteShort
  <2>1. PICK k \in 1 .. Chunk - 1 : Pwrite(k)
    BY <1>3, Zenon DEF WriteShort
  <2>2. k \in Int /\ k <= Chunk
    <3>1. /\ start \in Int /\ data_len \in Nat /\ buf_len \in Nat /\ Word \in Nat
          /\ wr_offset \in Int
      BY Sizes DEF IInv, TypeOK
    <3> HIDE DEF start, data_len, buf_len
    <3>2. Chunk \in Int
      BY <3>1 DEF Chunk, U
    <3> QED  BY <2>1, <3>2
  <2>3. pc = "write" /\ More /\ UNCHANGED <<command, pc>> /\ wr_offset >= 0
    BY <1>3, Zenon DEF WriteShort
  <2> QED  BY <2>1, <2>2, <2>3, PwriteNear, Zenon
<1>4. CASE WriteFails \/ Done \/ UNCHANGED vars
  <2>1. /\ UNCHANGED command /\ wr_offset' = wr_offset /\ dev' = dev
        /\ pc' = pc \/ pc' \in {"failed", "done"}
    BY <1>4 DEF WriteFails, Done, vars
  <2>2. off' = off /\ start' = start /\ data_len' = data_len /\ buf_len' = buf_len
    BY <2>1, SameRange
  <2> HIDE DEF start, data_len, buf_len
  <2> QED  BY <2>1, <2>2 DEF Near, NearRange
<1> QED  BY <1>1, <1>2, <1>3, <1>4 DEF Next, Step, Exited

\* What \div and % are, for a divisor that is not zero.
LEMMA Quotient ==
  ASSUME NEW s \in Nat \ {0}, NEW x \in Int
  PROVE  x \div s \in Int /\ x % s \in 0 .. s - 1 /\ x = s * (x \div s) + (x % s)
  OBVIOUS

LEMMA QuotientUnique ==
  ASSUME NEW s \in Nat \ {0}, NEW m \in Int, NEW r \in 0 .. s - 1
  PROVE  (m * s + r) \div s = m /\ (m * s + r) % s = r
<1> DEFINE x == m * s + r
           q == x \div s
           t == x % s
<1>1. x \in Int /\ x = m * s + r
  OBVIOUS
<1>2. q \in Int /\ t \in 0 .. s - 1 /\ x = s * q + t
  BY <1>1, Quotient
<1> HIDE DEF x, q, t
<1>3. s * (m - q) = t - r
  BY <1>1, <1>2
<1>4. (m - q >= 1 => s * (m - q) >= s) /\ (m - q <= -1 => s * (m - q) <= -s)
  BY <1>2
<1>5. m - q = 0
  BY <1>2, <1>3, <1>4
<1>6. q = m /\ t = r
  BY <1>1, <1>2, <1>3, <1>5
<1> QED  BY <1>6 DEF x, q, t

\* Counting on from a multiple of s.
LEMMA FromMultiple ==
  ASSUME NEW s \in Nat \ {0}, NEW a \in Int, a % s = 0
  PROVE  /\ (a + s) % s = 0
         /\ \A r \in 0 .. s - 1 : (a + r) % s = r /\ ((a + r) \div s) * s = a
<1> DEFINE m == a \div s
<1>1. m \in Int /\ a = m * s
  BY Quotient
<1> HIDE DEF m
<1>2. ASSUME NEW r \in 0 .. s - 1 PROVE (a + r) % s = r /\ ((a + r) \div s) * s = a
  BY <1>1, QuotientUnique
<1>3. (a + s) % s = 0
  <2>1. m + 1 \in Int /\ 0 \in 0 .. s - 1 /\ a + s = (m + 1) * s + 0
    BY <1>1
  <2>2. ((m + 1) * s + 0) % s = 0
    BY <2>1, QuotientUnique, Zenon
  <2> QED  BY <2>1, <2>2, Zenon
<1> QED  BY <1>2, <1>3

\* The fill loop computes what Filled says.
LEMMA ContentsKept ==
  ASSUME IInv, Contents, [Next]_vars
  PROVE  Contents'
<1> USE DEF IInv
<1>1. /\ engine' = engine /\ str_len' = str_len /\ buf_len' = buf_len
      /\ \A j : FilledTo(wr_offset, j)' = FilledTo(wr_offset', j)
      /\ \A j : Filled(j)' = Filled(j)
  <2>1. UNCHANGED command
    BY DEF Next, Step, Exited, TooFewArguments, BadNumber, Parsed, DoOpen, AllocFails, Allocate,
       Fill, EndFill, WriteChunk, WriteShort, WriteFails, Done, vars
  <2>2. engine' = engine /\ str_len' = str_len /\ buf_len' = buf_len
    BY <2>1, SameRange
  <2> QED  BY <2>2 DEF Filled, FilledTo
<1>2. /\ buf_len \in Nat /\ buf_len <= MAX_BUF_LEN /\ MAX_BUF_LEN \in Nat
      /\ str_len \in Nat /\ wr_offset \in Int /\ buf \in [0 .. MAX_BUF_LEN - 1 -> Bytes]
  BY Sizes, SizesAssumption DEF TypeOK
<1> HIDE DEF buf_len
<1>3. CASE Allocate
  <2>1. CASE engine \in CharEngines
    <3>1. str_len = 1 /\ pc' = "write" /\ buf' = [j \in DOMAIN buf |-> IF j < buf_len THEN 0 ELSE Heap]
      BY <1>3, <2>1 DEF Allocate, Contents
    <3>2. ASSUME NEW j \in 0 .. buf_len - 1 PROVE buf'[j] = Filled(j)
      <4>1. j \in DOMAIN buf /\ j < buf_len /\ j \in Int
        BY <1>2
      <4>2. j % 1 = 0
        BY <4>1
      <4> QED  BY <2>1, <3>1, <4>1, <4>2 DEF Filled
    <3> QED  BY <1>1, <3>1, <3>2, <2>1 DEF Contents
  <2>2. CASE engine \notin CharEngines
    <3>1. pc = "alloc" /\ pc' = "fill" /\ wr_offset' = 0 /\ buf' = buf
      BY <1>3, <2>2 DEF Allocate
    <3>2. ASSUME NEW j \in 0 .. buf_len - 1 PROVE buf'[j] = FilledTo(0, j)
      <4>1. buf[j] = Heap /\ ~(j < 0)
        BY <1>2, <3>1 DEF Contents
      <4> QED  BY <3>1, <4>1 DEF FilledTo
    <3>3. str_len > 0 => 0 % str_len = 0
      BY <1>2
    <3> QED  BY <1>1, <2>2, <3>1, <3>2, <3>3 DEF Contents
  <2> QED  BY <2>1, <2>2
<1>4. CASE Fill
  <2>1. /\ pc = "fill" /\ pc' = "fill" /\ wr_offset' = wr_offset + str_len
        /\ buf' = [j \in DOMAIN buf |->
               IF j \in wr_offset .. wr_offset + str_len - 1 THEN j - wr_offset
               ELSE IF j = wr_offset + str_len /\ j < buf_len THEN NUL ELSE buf[j]]
        /\ wr_offset \in 0 .. buf_len
    BY <1>2, <1>4 DEF Fill, TypeOK
  <2>2. ASSUME str_len > 0
        PROVE  /\ wr_offset' % str_len = 0
               /\ \A j \in 0 .. buf_len - 1 : buf'[j] = FilledTo(wr_offset', j)
    <3>1. wr_offset % str_len = 0 /\ \A j \in 0 .. buf_len - 1 : buf[j] = FilledTo(wr_offset, j)
      BY <2>1, <2>2 DEF Contents
    <3>2. /\ (wr_offset + str_len) % str_len = 0
          /\ \A r \in 0 .. str_len - 1 : (wr_offset + r) % str_len = r
      <4>1. str_len \in Nat \ {0}
        BY <1>2, <2>2
      <4> QED  BY <1>2, <3>1, <4>1, FromMultiple, Zenon
    <3>3. ASSUME NEW j \in 0 .. buf_len - 1 PROVE buf'[j] = FilledTo(wr_offset + str_len, j)
      <4>1. j \in DOMAIN buf /\ j \in Int /\ j < buf_len
        BY <1>2
      <4>2. CASE j < wr_offset
        <5>1. buf'[j] = buf[j] /\ j < wr_offset + str_len
          BY <1>2, <2>1, <2>2, <4>1, <4>2
        <5> QED  BY <3>1, <4>2, <5>1 DEF FilledTo
      <4>3. CASE j \in wr_offset .. wr_offset + str_len - 1
        <5>1. buf'[j] = j - wr_offset /\ j < wr_offset + str_len
          BY <1>2, <2>1, <4>1, <4>3
        <5>2. j - wr_offset \in 0 .. str_len - 1 /\ wr_offset + (j - wr_offset) = j
          BY <1>2, <4>1, <4>3
        <5>3. j % str_len = j - wr_offset
          BY <3>2, <5>2
        <5> QED  BY <5>1, <5>3 DEF FilledTo
      <4>4. CASE j = wr_offset + str_len
        <5>1. buf'[j] = NUL /\ ~(j < wr_offset + str_len) /\ wr_offset + str_len > 0
          BY <1>2, <2>1, <2>2, <4>1, <4>4
        <5> QED  BY <4>4, <5>1 DEF FilledTo
      <4>5. CASE j > wr_offset + str_len
        <5>1. buf'[j] = buf[j] /\ ~(j < wr_offset) /\ j # wr_offset
              /\ ~(j < wr_offset + str_len) /\ j # wr_offset + str_len
          BY <1>2, <2>1, <4>1, <4>5
        <5> QED  BY <3>1, <5>1 DEF FilledTo
      <4> QED  BY <1>2, <4>1, <4>2, <4>3, <4>4, <4>5
    <3> QED  BY <2>1, <3>2, <3>3
  <2> QED  BY Zenon, <1>1, <2>1, <2>2 DEF Contents
<1>5. CASE EndFill
  <2>1. /\ pc = "fill" /\ pc' = "write" /\ buf' = buf
        /\ wr_offset \in 0 .. buf_len /\ buf_len < wr_offset + str_len
    BY <1>2, <1>5 DEF EndFill, AnotherCopy, TypeOK
  <2>2. str_len > 0 /\ buf_len - wr_offset \in 0 .. str_len - 1
    BY <1>2, <2>1
  <2>3. wr_offset % str_len = 0 /\ \A j \in 0 .. buf_len - 1 : buf[j] = FilledTo(wr_offset, j)
    BY <2>1, <2>2 DEF Contents
  <2>4. (buf_len \div str_len) * str_len = wr_offset
    <3>1. \A r \in 0 .. str_len - 1 : ((wr_offset + r) \div str_len) * str_len = wr_offset
      <4>1. str_len \in Nat \ {0}
        BY <1>2, <2>2
      <4> QED  BY <1>2, <2>3, <4>1, FromMultiple, Zenon
    <3>2. wr_offset + (buf_len - wr_offset) = buf_len
      BY <1>2
    <3> QED  BY <2>2, <3>1, <3>2
  <2>5. engine \notin CharEngines
    BY <2>1 DEF Contents
  <2>6. ASSUME NEW j \in 0 .. buf_len - 1 PROVE buf'[j] = Filled(j)
    BY <2>1, <2>3, <2>4, <2>5 DEF Filled, FilledTo
  <2> QED  BY <1>1, <2>1, <2>2, <2>5, <2>6 DEF Contents
<1>6. CASE ~(Allocate \/ Fill \/ EndFill)
  <2>1. /\ buf' = buf
        /\ \/ pc' = pc /\ pc # "fill"
           \/ pc' = pc /\ wr_offset' = wr_offset
           \/ pc \in {"start", "open"} /\ pc' \in {"open", "alloc"}
           \/ pc = "write" /\ pc' = "done"
           \/ pc' \in {"failed", "aborted"}
    BY <1>6 DEF Next, Step, Exited, TooFewArguments, BadNumber, Parsed, DoOpen, AllocFails,
       WriteChunk, WriteShort, WriteFails, Done, vars
  <2> QED  BY <1>1, <2>1 DEF Contents
<1> QED  BY <1>3, <1>4, <1>5, <1>6

\* A whole chunk sends the buffer from its first byte to an offset that is a
\* whole number of buffers into the range, and a short write that no fault
\* explains means that the volume ends before the range.
LEMMA InStepKept ==
  ASSUME IInv, Contents, InStep, [Next]_vars
  PROVE  InStep'
<1> USE DEF IInv
<1>1. UNCHANGED command
  BY DEF Next, Step, Exited, TooFewArguments, BadNumber, Parsed, DoOpen, AllocFails, Allocate,
     Fill, EndFill, WriteChunk, WriteShort, WriteFails, Done, vars
<1>2. /\ off' = off /\ start' = start /\ data_len' = data_len /\ buf_len' = buf_len
      /\ (Exact' <=> Exact) /\ \A j : Filled(j)' = Filled(j)
  <2>1. engine' = engine /\ str_len' = str_len /\ buf_len' = buf_len
    BY <1>1, SameRange
  <2>2. \A j : Filled(j)' = Filled(j)
    BY <2>1 DEF Filled
  <2> QED  BY <1>1, <2>2, SameRange
<1>3. /\ start \in Int /\ data_len \in Nat /\ buf_len \in Nat /\ DevSize \in Nat
      /\ wr_offset \in Int /\ faults \in Nat /\ (data_len > 0 => buf_len > 0)
  BY Sizes, SizesAssumption DEF TypeOK
<1> HIDE DEF start, data_len, buf_len
<1> SUFFICES ASSUME pc' \in {"write", "done"}, Exact, faults' = 0, off >= 0,
                    start + data_len <= DevSize
             PROVE  /\ wr_offset' = start + data_len \/ (wr_offset' - start) % buf_len = 0
                    /\ \A p \in Positions :
                         start <= p /\ p < wr_offset' => dev'[p] = Filled((p - start) % buf_len)
  BY <1>2 DEF InStep
<1>4. \A p \in Positions : p \in Int
  BY <1>3 DEF Positions
<1>5. CASE Allocate \/ Fill \/ EndFill
  <2>1. wr_offset' = start
    BY <1>5 DEF Allocate, Fill, EndFill
  <2>2. data_len = 0 \/ (start - start) % buf_len = 0
    <3>1. start - start = 0
      BY <1>3
    <3>2. buf_len \in Nat \ {0} => 0 % buf_len = 0
      OBVIOUS
    <3> QED  BY <1>3, <3>1, <3>2
  <2>3. data_len = 0 => start = start + data_len
    BY <1>3
  <2>4. \A p \in Positions : ~(start <= p /\ p < start)
    BY <1>3, <1>4
  <2> QED  BY <2>1, <2>2, <2>3, <2>4, Zenon
<1>6. ASSUME pc = "write", faults = 0
      PROVE  /\ start <= wr_offset /\ wr_offset <= start + data_len
             /\ Chunk \in Nat /\ Chunk <= buf_len /\ wr_offset + Chunk <= start + data_len
             /\ wr_offset = start + data_len \/ (wr_offset - start) % buf_len = 0
             /\ \A p \in Positions :
                  start <= p /\ p < wr_offset => dev[p] = Filled((p - start) % buf_len)
  <2>1. /\ start <= wr_offset /\ wr_offset <= start + data_len
        /\ wr_offset = start \/ wr_offset <= DevSize
    BY <1>6 DEF Prefix
  <2> QED  BY <1>6, <2>1, ByteChunk DEF InStep
<1>7. CASE WriteChunk
  <2>1. /\ pc = "write" /\ faults = 0 /\ wr_offset' = wr_offset + Chunk
        /\ dev' = [p \in Positions |-> IF p \in wr_offset .. wr_offset + Chunk - 1
                                         THEN Sent(p - wr_offset) ELSE dev[p]]
        /\ More
    BY <1>7 DEF WriteChunk, Pwrite
  <2>2. wr_offset < start + data_len
    <3>1. start <= wr_offset /\ (wr_offset = start \/ wr_offset <= DevSize)
      BY <2>1 DEF Prefix
    <3> QED  BY <2>1, <3>1, AnyChunk
  <2>3. /\ start <= wr_offset /\ Chunk \in Nat /\ Chunk <= buf_len
        /\ (wr_offset - start) % buf_len = 0 /\ buf_len \in Nat \ {0}
        /\ \A p \in Positions :
             start <= p /\ p < wr_offset => dev[p] = Filled((p - start) % buf_len)
    <3>1. wr_offset # start + data_len /\ data_len > 0 /\ buf_len \in Nat \ {0}
      BY <1>3, <1>6, <2>1, <2>2
    <3> QED  BY <1>6, <2>1, <3>1
  <2>4. /\ (wr_offset - start + buf_len) % buf_len = 0
        /\ \A r \in 0 .. buf_len - 1 : (wr_offset - start + r) % buf_len = r
    <3>1. wr_offset - start \in Int
      BY <1>3
    <3> QED  BY <2>3, <3>1, FromMultiple, Zenon
  <2>5. wr_offset' = start + data_len \/ (wr_offset' - start) % buf_len = 0
    <3>1. wr_offset + Chunk = start + data_len \/ Chunk = buf_len
      <4>1. Chunk = buf_len \/ Chunk = U(data_len + start - wr_offset)
        BY DEF Chunk
      <4>2. data_len + start - wr_offset \in Nat /\ data_len + start - wr_offset < Word /\ Word \in Nat
        BY <1>3, <2>2, <2>3, Sizes
      <4>3. U(data_len + start - wr_offset) = data_len + start - wr_offset
        BY <4>2 DEF U
      <4>4. Chunk = U(data_len + start - wr_offset) => wr_offset + Chunk = start + data_len
        BY <1>3, <4>3
      <4> QED  BY <4>1, <4>4
    <3>2. CASE Chunk = buf_len
      <4>1. wr_offset' - start = wr_offset - start + buf_len
        BY <1>3, <2>1, <3>2
      <4> QED  BY <2>4, <4>1, Zenon
    <3> QED  BY <2>1, <3>1, <3>2, Zenon
  <2>6. ASSUME NEW p \in Positions, start <= p, p < wr_offset'
        PROVE  dev'[p] = Filled((p - start) % buf_len)
    <3>1. CASE p < wr_offset
      <4>1. p \notin wr_offset .. wr_offset + Chunk - 1
        BY <1>3, <1>4, <3>1
      <4> QED  BY <2>1, <2>3, <2>6, <3>1, <4>1
    <3>2. CASE p >= wr_offset
      <4>1. /\ p \in wr_offset .. wr_offset + Chunk - 1 /\ p - wr_offset \in 0 .. buf_len - 1
            /\ p - wr_offset < buf_len /\ p - start = wr_offset - start + (p - wr_offset)
        BY <1>3, <1>4, <2>1, <2>3, <2>6, <3>2
      <4>2. dev'[p] = buf[p - wr_offset]
        BY <2>1, <4>1 DEF Sent
      <4>3. buf[p - wr_offset] = Filled(p - wr_offset)
        BY <2>1, <4>1 DEF Contents
      <4>4. (p - start) % buf_len = p - wr_offset
        BY <2>4, <4>1, Zenon
      <4> QED  BY <4>2, <4>3, <4>4, Zenon
    <3> QED  BY <1>3, <1>4, <3>1, <3>2
  <2> QED  BY <2>5, <2>6
<1>8. CASE WriteShort
  <2>1. pc = "write" /\ faults = 0 /\ MayFallShort
    BY <1>3, <1>8 DEF WriteShort
  <2>2. /\ Chunk \in Nat /\ Chunk <= buf_len /\ wr_offset + Chunk <= start + data_len
    BY <1>6, <2>1
  <2> QED  BY <1>3, <2>1, <2>2 DEF MayFallShort
<1>9. CASE WriteFails \/ Done \/ UNCHANGED vars
  <2>1. pc \in {"write", "done"} /\ faults = 0 /\ wr_offset' = wr_offset /\ dev' = dev
    BY <1>9 DEF WriteFails, Done, vars
  <2> QED  BY <2>1 DEF InStep
<1>10. CASE TooFewArguments \/ BadNumber \/ Parsed \/ DoOpen \/ AllocFails
  BY <1>10 DEF TooFewArguments, BadNumber, Parsed, DoOpen, AllocFails
<1> QED  BY <1>5, <1>7, <1>8, <1>9, <1>10 DEF Next, Step, Exited

LEMMA InitFull == Init => Full
<1> SUFFICES ASSUME Init PROVE Full
  OBVIOUS
<1>1. IInv
  BY InitIInv
<1>2. buf_len \in Nat /\ buf_len <= MAX_BUF_LEN /\ MAX_BUF_LEN \in Nat
  BY <1>1, Sizes, SizesAssumption DEF IInv
<1> HIDE DEF buf_len
<1>3. /\ pc = "start" /\ (engine \in CharEngines => str_len = 1)
      /\ \A j \in 0 .. buf_len - 1 : buf[j] = Heap
  BY <1>2 DEF Init
<1>4. \A p \in Positions : dev[p] = Old
  BY DEF Init
<1> QED  BY <1>1, <1>3, <1>4 DEF Full, Covered, Near, NearRange, Contents, InStep

LEMMA NextFull == Full /\ [Next]_vars => Full'
<1> SUFFICES ASSUME Full, [Next]_vars PROVE Full'
  OBVIOUS
<1>1. IInv' /\ Near' /\ Contents' /\ InStep'
  BY NextIInv, NearKept, ContentsKept, InStepKept DEF Full
<1>2. off' = off
  BY DEF command, Next, Step, Exited, TooFewArguments, BadNumber, Parsed, DoOpen, AllocFails,
     Allocate, Fill, EndFill, WriteChunk, WriteShort, WriteFails, Done, vars
<1>3. off >= 0 => Covered'
  BY CoveredKept DEF Full
<1> QED  BY <1>1, <1>2, <1>3 DEF Full

LEMMA AlwaysFull == Spec => []Full
  BY InitFull, NextFull, PTL DEF Spec

\* No chunk of a byte engine, or of a sector engine from sector 0, exceeds its
\* buffer, for every buffer size, range and sequence of short writes.
THEOREM ByteChunksFit == Spec => []ChunkFits
<1>1. Full => ChunkFits
  <2> SUFFICES ASSUME Full, Exact, pc = "write" PROVE Chunk <= buf_len
    BY DEF ChunkFits
  <2>1. /\ start <= wr_offset /\ wr_offset <= start + data_len
        /\ wr_offset = start \/ wr_offset <= DevSize
    BY DEF Full, IInv, Prefix
  <2> QED  BY <2>1, ByteChunk DEF Full, IInv
<1> QED  BY <1>1, AlwaysFull, PTL

LEMMA FullOnlyRequested == Full => OnlyRequested
  BY DEF Full, IInv, Prefix, OnlyRequested

\* Such an engine never changes a byte outside the range it was asked for.
THEOREM BytesOnlyRequested == Spec => []OnlyRequested
  BY FullOnlyRequested, AlwaysFull, PTL

LEMMA FullNear == Full => NearRange
  BY DEF Full, Near

\* No engine, from whatever start, changes a byte before the range or a whole
\* buffer or more behind it.
THEOREM AlwaysNearRange == Spec => []NearRange
  BY FullNear, AlwaysFull, PTL

LEMMA FullCovers == Full => CoversRange
<1> SUFFICES ASSUME Full, pc = "done", off >= 0
             PROVE  /\ start + data_len <= DevSize \/ data_len = 0
                    /\ \A p \in Requested : dev[p] # Old
  BY DEF CoversRange
<1>1. /\ start <= wr_offset /\ ~More
      /\ wr_offset = start \/ wr_offset <= DevSize
      /\ \A p \in Positions : start <= p /\ p < wr_offset => dev[p] # Old
  BY DEF Full, Covered
<1>2. start \in Int /\ data_len \in Nat /\ wr_offset \in Int /\ DevSize \in Nat
  BY Sizes DEF Full, IInv, TypeOK
<1>3. ~(wr_offset < start + data_len)
  BY <1>1, AnyChunk DEF Full, IInv
<1> HIDE DEF start, data_len
<1>4. start + data_len <= DevSize \/ data_len = 0
  BY <1>1, <1>2, <1>3
<1> QED  BY <1>1, <1>2, <1>3, <1>4 DEF Requested, Positions

\* When an engine prints "Write Done" the whole range has been written, also
\* by the sector engines that send chunks longer than their buffer.
THEOREM AlwaysCoversRange == Spec => []CoversRange
  BY FullCovers, AlwaysFull, PTL

LEMMA FullCopies == Full => WritesCopies
<1> SUFFICES ASSUME Full, Exact, pc = "done", faults = 0, off >= 0, NEW p \in Requested
             PROVE  dev[p] = Filled((p - start) % buf_len)
  BY DEF WritesCopies
<1>1. /\ start <= wr_offset /\ ~More
      /\ wr_offset = start \/ wr_offset <= DevSize
  BY DEF Full, Covered
<1>2. start \in Int /\ data_len \in Nat /\ wr_offset \in Int /\ DevSize \in Nat
  BY Sizes DEF Full, IInv, TypeOK
<1>3. ~(wr_offset < start + data_len)
  BY <1>1, AnyChunk DEF Full, IInv
<1> HIDE DEF start, data_len, buf_len
<1>4. p \in Positions /\ p \in Int /\ start <= p /\ p < start + data_len
  BY <1>2 DEF Requested, Positions
<1>5. start + data_len <= DevSize /\ p < wr_offset
  BY <1>1, <1>2, <1>3, <1>4
<1> QED  BY <1>4, <1>5 DEF Full, InStep

\* And without short writes the range then holds the buffer over and over.
THEOREM AlwaysWritesCopies == Spec => []WritesCopies
  BY FullCopies, AlwaysFull, PTL
=============================================================================
