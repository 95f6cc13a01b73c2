------------------------- MODULE IoUringCopy_proofs -------------------------
(***************************************************************************)
(* For every queue depth, block size, file size and number of failures:    *)
(* the slot accounting of copy_file is exact, assert(sqe) in queue_prepped *)
(* never fails, and it returns 0 only after all reads are done.            *)
(***************************************************************************)
EXTENDS IoUringCopy, FiniteSetTheorems, TLAPS

USE QDAssumption, BSAssumption, SizeAssumption, FaultsAssumption

\* The inductive invariant.
IInv == TypeOK /\ Layout /\ NoAbort /\ SlotsAccounted

\* Every set of io_data is finite and its size is a number.
LEMMA FiniteOffsets ==
  ASSUME NEW S \in SUBSET Offsets
  PROVE  IsFiniteSet(S) /\ Cardinality(S) \in Nat
<1>1. IsFiniteSet(Offsets)
  BY FS_Interval DEF Offsets, Positions
<1> QED
  BY Zenon, <1>1, FS_Subset, FS_CardinalityType

\* A block is never empty and never reaches past the end of the file or of
\* its buffer.
LEMMA FirstLenBounds ==
  ASSUME NEW o \in Offsets
  PROVE  /\ FirstLen(o) \in 1 .. BS
         /\ o + FirstLen(o) <= Size
BY DEF FirstLen, Offsets, Positions

\* While a completed request is being handled the submission ring has room:
\* the entries awaiting submission are among the other live requests, and
\* at most QD requests are live.
LEMMA RoomForCompleted ==
  ASSUME IInv, NEW o \in Offsets, where[o] = "complete"
  PROVE  ~SQFull
<1> DEFINE Q == In("queued")
<1>0. reads + writes <= QD /\ reads \in Nat /\ writes \in Nat
  BY Zenon DEF IInv, SlotsAccounted, NoAbort, TypeOK
<1>1. Q \subseteq (LiveReads \cup LiveWrites) \ {o}
  BY Zenon DEF In, LiveReads, LiveWrites, Live
<1>2. o \in LiveReads \cup LiveWrites
  BY Zenon DEF In, LiveReads, LiveWrites, Live
<1>3. /\ IsFiniteSet(LiveReads) /\ IsFiniteSet(LiveWrites)
      /\ Cardinality(LiveReads) \in Nat /\ Cardinality(LiveWrites) \in Nat
      /\ LiveReads \cap LiveWrites = {}
  <2>1. LiveReads \in SUBSET Offsets /\ LiveWrites \in SUBSET Offsets
    BY Zenon DEF LiveReads, LiveWrites, Live
  <2>2. LiveReads \cap LiveWrites = {}
    BY Zenon DEF LiveReads, LiveWrites
  <2> QED  BY <2>1, <2>2, FiniteOffsets
<1>4. /\ IsFiniteSet(LiveReads \cup LiveWrites)
      /\ Cardinality(LiveReads \cup LiveWrites) = reads + writes
  <2>1. Cardinality(LiveReads \cap LiveWrites) = 0
    BY Zenon, <1>3, FS_EmptySet
  <2>2. reads = Cardinality(LiveReads) /\ writes = Cardinality(LiveWrites)
    BY Zenon DEF IInv, SlotsAccounted, NoAbort
  <2>3. /\ IsFiniteSet(LiveReads \cup LiveWrites)
        /\ Cardinality(LiveReads \cup LiveWrites) =
             Cardinality(LiveReads) + Cardinality(LiveWrites)
               - Cardinality(LiveReads \cap LiveWrites)
    BY <1>3, FS_Union, Zenon
  <2> QED  BY <1>3, <2>1, <2>2, <2>3
<1>5. /\ IsFiniteSet((LiveReads \cup LiveWrites) \ {o})
      /\ Cardinality((LiveReads \cup LiveWrites) \ {o}) = reads + writes - 1
  <2> DEFINE L == LiveReads \cup LiveWrites
  <2>1. /\ IsFiniteSet(L \ {o})
        /\ Cardinality(L \ {o}) = IF o \in L THEN Cardinality(L) - 1 ELSE Cardinality(L)
    BY <1>4, FS_RemoveElement, Zenon
  <2>2. Cardinality(L \ {o}) = Cardinality(L) - 1
    BY <1>2, <2>1, Zenon
  <2> HIDE DEF L
  <2>3. Cardinality(L \ {o}) = reads + writes - 1
    BY <1>0, <1>4, <2>2 DEF L
  <2> QED  BY <2>1, <2>3 DEF L
<1>6. Cardinality(Q) <= reads + writes - 1
  BY <1>1, <1>5, FS_Subset
<1>7. Cardinality(Q) \in Nat
  BY Zenon, FiniteOffsets DEF In
<1> QED
  BY <1>0, <1>6, <1>7 DEF SQFull

\* The program starts in the invariant.
LEMMA InitIInv == Init => IInv
<1> SUFFICES ASSUME Init PROVE IInv
  BY Zenon
<1>1. TypeOK
  <2>1. data \in [Offsets -> [read : BOOLEAN, base : 0 .. BS, len : 0 .. BS,
                              buf : [0 .. BS - 1 -> Positions \cup {Hole}]]]
    BY FirstLenBounds DEF Init
  <2>2. where \in [Offsets -> Places]
    BY Zenon DEF Init, Places
  <2>3. res \in [Offsets -> Nat \cup {EAGAIN, EIO}]
    BY Zenon DEF Init
  <2>4. out \in [Positions -> Positions \cup {Hole}]
    BY Zenon DEF Init
  <2>5. faults \in 0 .. MaxFaults
    BY DEF Init
  <2>6. got_comp \in BOOLEAN
    BY Zenon DEF Init
  <2>7. pc \in PCs
    BY Zenon DEF Init, PCs
  <2>8. /\ had_reads \in Nat /\ insize \in Nat /\ write_left \in Int
        /\ offset \in Nat /\ reads \in Nat /\ writes \in Nat
    BY DEF Init
  <2> QED  BY <2>1, <2>2, <2>3, <2>4, <2>5, <2>6, <2>7, <2>8 DEF TypeOK
<1>2. Layout
  BY FirstLenBounds DEF Init, Layout, Offsets, Positions
<1>3. NoAbort
  BY Zenon DEF Init, NoAbort
<1>4. SlotsAccounted
  <2>1. LiveReads = {} /\ LiveWrites = {}
    BY Zenon DEF Init, LiveReads, LiveWrites, Live, In
  <2> QED  BY <2>1, FS_EmptySet DEF Init, SlotsAccounted
<1> QED
  BY Zenon, <1>1, <1>2, <1>3, <1>4 DEF IInv

\* The failure budget stays in range.
LEMMA FaultsInRange ==
  ASSUME faults \in 0 .. MaxFaults, Fault \/ UNCHANGED faults
  PROVE  faults' \in 0 .. MaxFaults
BY DEF Fault

\* Steps that only move control: nothing about the requests changes.
LEMMA ControlStep ==
  ASSUME IInv,
         UNCHANGED <<offset, insize, write_left, reads, writes, data, where, res, out>>,
         pc' \in PCs, pc' # "aborted", got_comp' \in BOOLEAN, had_reads' \in Nat,
         Fault \/ UNCHANGED faults
  PROVE  IInv'
<1>1. TypeOK'
  BY Zenon, FaultsInRange DEF IInv, TypeOK
<1>2. Layout'
  BY Zenon DEF IInv, Layout
<1>3. LiveReads' = LiveReads /\ LiveWrites' = LiveWrites
  BY Zenon DEF LiveReads, LiveWrites, Live, In
<1>4. SlotsAccounted'
  BY Zenon, <1>3 DEF IInv, SlotsAccounted, NoAbort
<1> QED
  BY Zenon, <1>1, <1>2, <1>4 DEF IInv, NoAbort

\* Steps that move requests between places without freeing or allocating
\* one or turning a read into a write.
LEMMA MoveStep ==
  ASSUME IInv,
         UNCHANGED <<had_reads, offset, insize, write_left, reads, writes, out>>,
         pc' \in PCs, pc' # "aborted", got_comp' \in BOOLEAN,
         Fault \/ UNCHANGED faults,
         where' \in [Offsets -> Places],
         \A o \in Offsets : /\ where'[o] = "unused" <=> where[o] = "unused"
                            /\ where'[o] = "freed" <=> where[o] = "freed"
                            /\ data'[o].read = data[o].read
  PROVE  NoAbort' /\ SlotsAccounted'
<1>1. LiveReads' = LiveReads /\ LiveWrites' = LiveWrites
  BY Zenon DEF LiveReads, LiveWrites, Live, In
<1> QED
  BY Zenon, <1>1 DEF IInv, SlotsAccounted, NoAbort

\* io_uring_submit moves some of the queued entries and nothing else.
LEMMA SubmitMoves ==
  ASSUME NEW W \in [Offsets -> Places], NEW T, SubmitOutcome(W, T)
  PROVE  /\ where' \in [Offsets -> Places]
         /\ Fault \/ UNCHANGED faults
         /\ \A o \in Offsets : \/ where'[o] = W[o]
                               \/ W[o] = "queued" /\ where'[o] = "inflight"
BY Zenon DEF SubmitOutcome, Taken, Places

-----------------------------------------------------------------------------
(* One lemma per action that touches the requests *)

\* queue_read takes a block nobody has used and counts it.
LEMMA QueueReadIInv == ASSUME IInv, QueueRead PROVE IInv'
<1>1. offset \in Offsets /\ where[offset] = "unused"
  BY DEF IInv, QueueRead, Layout, TypeOK, Offsets, Positions
<1>2. FirstLen(offset) \in 1 .. BS /\ offset + FirstLen(offset) <= Size
  BY Zenon, <1>1, FirstLenBounds
<1>3. data' \in [Offsets -> [read : BOOLEAN, base : 0 .. BS, len : 0 .. BS,
                             buf : [0 .. BS - 1 -> Positions \cup {Hole}]]]
  BY <1>1, <1>2 DEF IInv, QueueRead, TypeOK, Prepared
<1>4. TypeOK'
  <2>1. where' \in [Offsets -> Places]
    BY Zenon DEF IInv, TypeOK, QueueRead, Places
  <2>2. /\ had_reads' \in Nat /\ insize' \in Nat /\ write_left' \in Int
        /\ offset' \in Nat /\ reads' \in Nat /\ writes' \in Nat
    <3>1. insize = Size - offset /\ reads \in Nat /\ offset \in Nat
      BY Zenon DEF IInv, Layout, TypeOK
    <3> QED  BY <1>2, <3>1 DEF IInv, TypeOK, QueueRead
  <2>3. pc' \in PCs /\ got_comp' \in BOOLEAN /\ faults' \in 0 .. MaxFaults
    BY Zenon DEF IInv, TypeOK, QueueRead
  <2> QED  BY Zenon, <1>3, <2>1, <2>2, <2>3 DEF IInv, TypeOK, QueueRead
<1>5. Layout'
  <2>1. offset' <= Size /\ insize' = Size - offset' /\ offset' > offset
    BY <1>2 DEF IInv, TypeOK, QueueRead, Layout
  <2>2. \A o \in Offsets : o >= offset' => where'[o] = "unused"
    <3>1. \A o \in Offsets : o >= offset' => o >= offset /\ o # offset
      BY <1>1, <2>1 DEF IInv, TypeOK, QueueRead, Offsets, Positions
    <3> QED  BY <3>1 DEF IInv, TypeOK, QueueRead, Layout
  <2>3. \A o \in Offsets : o # offset => /\ data'[o] = data[o]
                                         /\ where'[o] = where[o] /\ res'[o] = res[o]
    BY Zenon DEF IInv, TypeOK, QueueRead
  <2>4. /\ data'[offset].base = 0 /\ data'[offset].len = FirstLen(offset)
        /\ where'[offset] = "queued"
    BY Zenon, <1>1 DEF IInv, TypeOK, QueueRead, Prepared
  <2>5. ASSUME NEW o \in Offsets
        PROVE  /\ data'[o].base + data'[o].len <= FirstLen(o)
               /\ where'[o] = "complete" => res'[o] <= data'[o].len
    BY <1>2, <2>3, <2>4 DEF IInv, Layout
  <2> QED  BY <2>1, <2>2, <2>5 DEF Layout, FirstLen
<1>6. NoAbort'
  BY Zenon DEF IInv, NoAbort, QueueRead
<1>7. SlotsAccounted'
  <2>1. LiveReads' = LiveReads \cup {offset} /\ LiveWrites' = LiveWrites
    BY Zenon, <1>1 DEF IInv, TypeOK, QueueRead, Prepared, LiveReads, LiveWrites, Live, In
  <2>2. offset \notin LiveReads /\ IsFiniteSet(LiveReads)
    BY Zenon, <1>1, FiniteOffsets DEF LiveReads, Live, In
  <2>3. Cardinality(LiveReads') = Cardinality(LiveReads) + 1
    BY Zenon, <2>1, <2>2, FS_AddElement
  <2> QED
    BY <2>1, <2>3 DEF IInv, TypeOK, SlotsAccounted, NoAbort, QueueRead, HasRoom
<1> QED
  BY Zenon, <1>4, <1>5, <1>6, <1>7 DEF IInv

\* io_uring_submit after the reads of a round.
LEMMA SubmitIInv == ASSUME IInv, Submit PROVE IInv'
<1>1. PICK T \in SUBSET In("queued") :
        /\ SubmitOutcome(where, T)
        /\ IF T = {} THEN pc' = "done" /\ UNCHANGED got_comp
                     ELSE pc' = "reap" /\ got_comp' = FALSE
  BY Zenon DEF Submit
<1>2. /\ where' \in [Offsets -> Places]
      /\ Fault \/ UNCHANGED faults
      /\ \A o \in Offsets : \/ where'[o] = where[o]
                            \/ where[o] = "queued" /\ where'[o] = "inflight"
  BY Zenon, <1>1, SubmitMoves DEF IInv, TypeOK
<1>3. pc' \in PCs /\ pc' # "aborted" /\ got_comp' \in BOOLEAN
  BY Zenon, <1>1 DEF IInv, TypeOK, PCs
<1>4. TypeOK'
  BY Zenon, <1>2, <1>3, FaultsInRange DEF IInv, TypeOK, Submit
<1>5. Layout'
  BY Zenon, <1>2 DEF IInv, Layout, Submit
<1>6. NoAbort' /\ SlotsAccounted'
  BY Zenon, <1>2, <1>3, MoveStep DEF Submit
<1> QED
  BY Zenon, <1>4, <1>5, <1>6 DEF IInv

\* A completion with EAGAIN goes back into the ring.
LEMMA RetryIInv == ASSUME IInv, NEW o \in Offsets, Retry(o) PROVE IInv'
<1>1. pc' = pc /\ where' = [where EXCEPT ![o] = "queued"] /\ where[o] = "complete"
  BY Zenon, RoomForCompleted DEF Retry, Reaped, QueuePrepped
<1>2. /\ where' \in [Offsets -> Places]
      /\ \A x \in Offsets : 
           where'[x] = where[x] \/ (where[x] = "complete" /\ where'[x] = "queued")
  BY Zenon, <1>1 DEF IInv, TypeOK, Places
<1>3. pc' \in PCs /\ pc' # "aborted" /\ got_comp' \in BOOLEAN
  BY Zenon, <1>1 DEF IInv, TypeOK, NoAbort, Retry, Reaped
<1>4. TypeOK'
  BY Zenon, <1>2, <1>3 DEF IInv, TypeOK, Retry
<1>5. Layout'
  BY Zenon, <1>2 DEF IInv, Layout, Retry
<1>6. NoAbort' /\ SlotsAccounted'
  BY Zenon, <1>2, <1>3, MoveStep DEF Retry
<1> QED
  BY Zenon, <1>4, <1>5, <1>6 DEF IInv

\* A short completion goes back with what is left of its buffer.
LEMMA RequeueShortIInv == ASSUME IInv, NEW o \in Offsets, RequeueShort(o) PROVE IInv'
<1>1. pc' = pc /\ where' = [where EXCEPT ![o] = "queued"] /\ where[o] = "complete"
  BY Zenon, RoomForCompleted DEF RequeueShort, Reaped, QueuePrepped
<1>2. /\ where' \in [Offsets -> Places]
      /\ \A x \in Offsets : 
           where'[x] = where[x] \/ (where[x] = "complete" /\ where'[x] = "queued")
  BY <1>1 DEF IInv, TypeOK, Places
<1>3. pc' \in PCs /\ pc' # "aborted" /\ got_comp' \in BOOLEAN
  BY Zenon, <1>1 DEF IInv, TypeOK, NoAbort, RequeueShort, Reaped
<1>4. res[o] \in 0 .. data[o].len
  <2>1. res[o] \in Nat \cup {-11, -5} /\ data[o].len \in 0 .. BS
    BY Zenon DEF IInv, TypeOK, EAGAIN, EIO
  <2>2. res[o] >= 0 /\ res[o] <= data[o].len
    BY Zenon, <1>1 DEF IInv, Layout, RequeueShort
  <2> QED  BY <2>1, <2>2
<1>5. /\ data[o].base \in Nat /\ data[o].len \in Nat
      /\ data[o].base + data[o].len <= FirstLen(o) /\ FirstLen(o) \in 1 .. BS
  BY FirstLenBounds DEF IInv, TypeOK, Layout
<1>6. data' \in [Offsets -> [read : BOOLEAN, base : 0 .. BS, len : 0 .. BS,
                             buf : [0 .. BS - 1 -> Positions \cup {Hole}]]]
  <2>1. data[o].base + res[o] \in 0 .. BS /\ data[o].len - res[o] \in 0 .. BS
    BY <1>4, <1>5
  <2>2. Resumed(data[o], res[o]) \in
          [read : BOOLEAN, base : 0 .. BS, len : 0 .. BS,
           buf : [0 .. BS - 1 -> Positions \cup {Hole}]]
    BY Zenon, <2>1 DEF IInv, TypeOK, Resumed
  <2> QED  BY <2>2 DEF IInv, TypeOK, RequeueShort
<1>7. TypeOK'
  BY Zenon, <1>2, <1>3, <1>6 DEF IInv, TypeOK, RequeueShort
<1>8. \A x \in Offsets : x # o => data'[x] = data[x]
  BY Zenon DEF IInv, TypeOK, RequeueShort
<1>9. /\ data'[o].read = data[o].read
      /\ data'[o].base + data'[o].len = data[o].base + data[o].len
  BY <1>4, <1>5 DEF IInv, TypeOK, RequeueShort, Resumed
<1>10. Layout'
  <2>1. ASSUME NEW x \in Offsets
        PROVE  /\ data'[x].base + data'[x].len <= FirstLen(x)
               /\ where'[x] = "complete" => res'[x] <= data'[x].len
    BY Zenon, <1>1, <1>2, <1>5, <1>8, <1>9 DEF IInv, Layout, TypeOK, RequeueShort
  <2>2. \A x \in Offsets : x >= offset' => where'[x] = "unused"
    BY Zenon, SMTT(30), <1>2 DEF IInv, Layout, RequeueShort
  <2> QED  BY <2>1, <2>2 DEF IInv, Layout, RequeueShort, FirstLen
<1>11. NoAbort' /\ SlotsAccounted'
  <2>1. \A x \in Offsets : data'[x].read = data[x].read
    BY Zenon, <1>8, <1>9
  <2> QED  BY <1>2, <1>3, <2>1, MoveStep DEF RequeueShort
<1> QED
  BY <1>7, <1>10, <1>11 DEF IInv

\* A finished read becomes a write: one slot moves from reads to writes.
LEMMA ReadDoneIInv == ASSUME IInv, NEW o \in Offsets, ReadDone(o) PROVE IInv'
<1> DEFINE W == [where EXCEPT ![o] = "queued"]
<1>1. /\ where[o] = "complete" /\ data[o].read /\ pc' = pc /\ got_comp' = TRUE
      /\ data' = [data EXCEPT ![o] = Prepared(@, FALSE, FirstLen(o))]
      /\ \E T \in SUBSET (In("queued") \cup {o}) : SubmitOutcome(W, T)
  BY Zenon, RoomForCompleted DEF ReadDone, Reaped, QueueWrite
<1>2. W \in [Offsets -> Places] /\ W[o] = "queued"
      /\ \A x \in Offsets : x # o => W[x] = where[x]
  BY Zenon DEF IInv, TypeOK, Places
<1>3. /\ where' \in [Offsets -> Places]
      /\ Fault \/ UNCHANGED faults
      /\ \A x \in Offsets : \/ where'[x] = W[x]
                            \/ W[x] = "queued" /\ where'[x] = "inflight"
  BY Zenon, <1>1, <1>2, SubmitMoves
<1> HIDE DEF W
<1>4. FirstLen(o) \in 1 .. BS
  BY Zenon, FirstLenBounds
<1>5. data' \in [Offsets -> [read : BOOLEAN, base : 0 .. BS, len : 0 .. BS,
                             buf : [0 .. BS - 1 -> Positions \cup {Hole}]]]
  BY <1>1, <1>4 DEF IInv, TypeOK, Prepared
<1>6. /\ ~data'[o].read /\ data'[o].base = 0 /\ data'[o].len = FirstLen(o)
      /\ \A x \in Offsets : x # o => data'[x] = data[x]
  BY Zenon, <1>1 DEF IInv, TypeOK, Prepared
<1>7. LiveReads' = LiveReads \ {o} /\ LiveWrites' = LiveWrites \cup {o}
  <2>1. \A x \in Offsets : x # o => /\ where'[x] = "unused" <=> where[x] = "unused"
                                    /\ where'[x] = "freed" <=> where[x] = "freed"
    BY Zenon, <1>2, <1>3
  <2>2. where'[o] # "unused" /\ where'[o] # "freed"
    BY Zenon, <1>2, <1>3
  <2>3. LiveReads' = LiveReads \ {o}
    BY Zenon, <1>1, <1>6, <2>1, <2>2 DEF LiveReads, Live, In
  <2>4. LiveWrites' = LiveWrites \cup {o}
    BY ZenonT(30), <1>1, <1>6, <2>1, <2>2 DEF LiveWrites, Live, In
  <2> QED  BY <2>3, <2>4
<1>8. o \in LiveReads /\ o \notin LiveWrites
  BY Zenon, <1>1 DEF LiveReads, LiveWrites, Live, In
<1>9. /\ Cardinality(LiveReads') = Cardinality(LiveReads) - 1
      /\ Cardinality(LiveWrites') = Cardinality(LiveWrites) + 1
      /\ Cardinality(LiveReads') \in Nat
  <2>1. /\ IsFiniteSet(LiveReads) /\ IsFiniteSet(LiveWrites)
        /\ LiveReads \ {o} \in SUBSET Offsets
    BY Zenon, FiniteOffsets DEF LiveReads, LiveWrites, Live
  <2> QED  BY Zenon, <1>7, <1>8, <2>1, FiniteOffsets, FS_AddElement, FS_RemoveElement
<1>10. SlotsAccounted' /\ NoAbort' /\ reads' \in Nat /\ writes' \in Nat
  BY SMTT(30), <1>1, <1>9 DEF IInv, TypeOK, SlotsAccounted, NoAbort, ReadDone
<1>11. TypeOK'
  <2>1. write_left' \in Int
    BY <1>4 DEF IInv, TypeOK, ReadDone
  <2>2. faults' \in 0 .. MaxFaults
    BY Zenon, <1>3, FaultsInRange DEF IInv, TypeOK
  <2> QED  BY Zenon, <1>1, <1>3, <1>5, <1>10, <2>1, <2>2 DEF IInv, TypeOK, ReadDone
<1>12. Layout'
  <2>1. ASSUME NEW x \in Offsets
        PROVE  /\ data'[x].base + data'[x].len <= FirstLen(x)
               /\ where'[x] = "complete" => res'[x] <= data'[x].len
    BY <1>2, <1>3, <1>4, <1>6 DEF IInv, Layout, ReadDone
  <2>2. \A x \in Offsets : x >= offset' => where'[x] = "unused"
    BY Zenon, <1>1, <1>2, <1>3 DEF IInv, Layout, ReadDone
  <2> QED  BY <2>1, <2>2 DEF IInv, Layout, ReadDone, FirstLen
<1> QED
  BY Zenon, SMTT(30), <1>10, <1>11, <1>12 DEF IInv

\* A finished write frees its slot.
LEMMA WriteDoneIInv == ASSUME IInv, NEW o \in Offsets, WriteDone(o) PROVE IInv'
<1>1. where[o] = "complete" /\ ~data[o].read /\ got_comp' = TRUE
  BY Zenon DEF WriteDone, Reaped
<1>2. /\ where' \in [Offsets -> Places] /\ where'[o] = "freed"
      /\ \A x \in Offsets : x # o => where'[x] = where[x]
  BY Zenon DEF IInv, TypeOK, WriteDone, Places
<1>3. LiveReads' = LiveReads /\ LiveWrites' = LiveWrites \ {o}
  BY Zenon, <1>1, <1>2 DEF WriteDone, LiveReads, LiveWrites, Live, In
<1>4. o \in LiveWrites
  BY Zenon, <1>1 DEF LiveWrites, Live, In
<1>5. Cardinality(LiveWrites') = Cardinality(LiveWrites) - 1 /\ Cardinality(LiveWrites') \in Nat
  <2>1. IsFiniteSet(LiveWrites) /\ LiveWrites \ {o} \in SUBSET Offsets
    BY Zenon, FiniteOffsets DEF LiveWrites, Live
  <2> QED  BY <1>3, <1>4, <2>1, FiniteOffsets, FS_RemoveElement
<1>6. SlotsAccounted' /\ NoAbort' /\ writes' \in Nat
  BY <1>3, <1>5 DEF IInv, TypeOK, SlotsAccounted, NoAbort, WriteDone
<1>7. TypeOK'
  BY Zenon, SMTT(30), <1>1, <1>2, <1>6 DEF IInv, TypeOK, WriteDone
<1>8. Layout'
  BY Zenon, <1>1, <1>2 DEF IInv, Layout, WriteDone
<1> QED
  BY Zenon, <1>6, <1>7, <1>8 DEF IInv

\* The kernel transfers at most what was asked for, inside the io_data's
\* buffer and the block's part of the file.
LEMMA TransferTypes ==
  ASSUME IInv, NEW o \in Offsets, NEW n \in 1 .. data[o].len, Transfer(o, n)
  PROVE  /\ data' \in [Offsets -> [read : BOOLEAN, base : 0 .. BS, len : 0 .. BS,
                                   buf : [0 .. BS - 1 -> Positions \cup {Hole}]]]
         /\ out' \in [Positions -> Positions \cup {Hole}]
         /\ \A x \in Offsets : /\ data'[x].read = data[x].read
                               /\ data'[x].base = data[x].base
                               /\ data'[x].len = data[x].len
<1> DEFINE d == data[o]
           B == [j \in 0 .. BS - 1 |-> IF j \in d.base .. d.base + n - 1
                                         THEN o + j - d.base ELSE d.buf[j]]
<1>1. /\ d \in [read : BOOLEAN, base : 0 .. BS, len : 0 .. BS,
                buf : [0 .. BS - 1 -> Positions \cup {Hole}]]
      /\ d.base + d.len <= FirstLen(o)
  BY Zenon DEF IInv, TypeOK, Layout
<1>2. FirstLen(o) \in 1 .. BS /\ o + FirstLen(o) <= Size /\ o \in 0 .. Size - 1
  BY Zenon, FirstLenBounds DEF Offsets, Positions
<1>3. n \in Nat /\ n <= d.len /\ d.base \in Nat /\ d.len \in Nat
  BY <1>1
<1>4. CASE d.read
  <2>1. ASSUME NEW j \in 0 .. BS - 1
        PROVE  B[j] \in Positions \cup {Hole}
    <3>1. ASSUME j \in d.base .. d.base + n - 1
          PROVE  o + j - d.base \in Positions
      <4> HIDE DEF d
      <4>1. o + (j - d.base) >= o /\ o + (j - d.base) < o + n
        BY <1>2, <1>3, <3>1
      <4>2. o + n <= Size
        BY <1>1, <1>2, <1>3
      <4> QED  BY <1>2, <1>3, <4>1, <4>2 DEF Positions
    <3>2. d.buf[j] \in Positions \cup {Hole}
      BY Zenon, <1>1
    <3> QED  BY <3>1, <3>2
  <2>2. B \in [0 .. BS - 1 -> Positions \cup {Hole}]
    BY Zenon, <2>1
  <2>3. data' = [data EXCEPT ![o].buf = B] /\ out' = out
    BY Zenon, <1>4 DEF Transfer
  <2> HIDE DEF B
  <2> QED  BY ZenonT(60), <2>2, <2>3 DEF IInv, TypeOK
<1>5. CASE ~d.read
  <2>1. ASSUME NEW p \in Positions, p \in o .. o + n - 1
        PROVE  d.buf[d.base + p - o] \in Positions \cup {Hole}
    <3>1. d.base + p - o \in 0 .. BS - 1
      <4> HIDE DEF d
      <4>1. p \in Int /\ o \in Int /\ BS \in Int /\ FirstLen(o) \in Int
        BY <1>2, BSAssumption DEF Positions
      <4>2. o <= p /\ p < o + n
        BY <2>1, <1>3, <4>1
      <4>3. d.base + n <= BS
        BY <1>1, <1>2, <1>3, <4>1
      <4> QED  BY <1>3, <4>1, <4>2, <4>3
    <3> QED  BY <1>1, <3>1
  <2>2. data' = data /\ out' = [p \in Positions |-> IF p \in o .. o + n - 1
                                  THEN d.buf[d.base + p - o] ELSE out[p]]
    BY Zenon, <1>5 DEF Transfer
  <2>3. out' \in [Positions -> Positions \cup {Hole}]
    BY Zenon, <2>1, <2>2 DEF IInv, TypeOK
  <2> QED  BY <2>2, <2>3 DEF IInv, TypeOK
<1> QED
  BY Zenon, <1>4, <1>5

\* A completion by the kernel moves one request and reports at most its
\* length.
LEMMA CompleteIInv == ASSUME IInv, NEW o \in Offsets, Complete(o) PROVE IInv'
<1>1. /\ where[o] = "inflight" /\ where' \in [Offsets -> Places]
      /\ where'[o] = "complete" /\ \A x \in Offsets : x # o => where'[x] = where[x]
  BY Zenon DEF IInv, TypeOK, Complete, Places
<1>2. PICK r \in Int : /\ res' = [res EXCEPT ![o] = r] /\ r <= data[o].len
                       /\ r \in Nat \cup {EAGAIN, EIO}
  <2>1. data[o].len \in Nat
    BY DEF IInv, TypeOK
  <2> QED  BY <2>1 DEF Complete, EAGAIN, EIO
<1>3. /\ data' \in [Offsets -> [read : BOOLEAN, base : 0 .. BS, len : 0 .. BS,
                                buf : [0 .. BS - 1 -> Positions \cup {Hole}]]]
      /\ out' \in [Positions -> Positions \cup {Hole}]
      /\ \A x \in Offsets : /\ data'[x].read = data[x].read
                            /\ data'[x].base = data[x].base
                            /\ data'[x].len = data[x].len
  <2>1. CASE \E n \in 1 .. data[o].len : Transfer(o, n)
    BY Zenon, <2>1, TransferTypes
  <2>2. CASE UNCHANGED <<data, out>>
    BY Zenon, <2>2 DEF IInv, TypeOK
  <2> QED  BY <2>1, <2>2 DEF Complete
<1>4. Fault \/ UNCHANGED faults
  BY Zenon DEF Complete
<1>5. res' \in [Offsets -> Nat \cup {EAGAIN, EIO}] /\ res'[o] = r
      /\ \A x \in Offsets : x # o => res'[x] = res[x]
  BY Zenon, <1>2 DEF IInv, TypeOK
<1>6. TypeOK'
  BY Zenon, <1>1, <1>3, <1>4, <1>5, FaultsInRange DEF IInv, TypeOK, Complete, progVars
<1>7. Layout'
  <2>1. ASSUME NEW x \in Offsets
        PROVE  /\ data'[x].base + data'[x].len <= FirstLen(x)
               /\ where'[x] = "complete" => res'[x] <= data'[x].len
    <3>1. CASE x = o
      BY Zenon, <1>1, <1>2, <1>3, <1>5, <3>1 DEF IInv, Layout
    <3>2. CASE x # o
      BY Zenon, <1>1, <1>3, <1>5, <3>2 DEF IInv, Layout
    <3> QED  BY <3>1, <3>2
  <2>2. \A x \in Offsets : x >= offset' => where'[x] = "unused"
    BY Zenon, <1>1 DEF IInv, Layout, Complete, progVars
  <2> QED  BY <2>1, <2>2 DEF IInv, Layout, Complete, progVars, FirstLen
<1>8. LiveReads' = LiveReads /\ LiveWrites' = LiveWrites
  BY <1>1, <1>3 DEF LiveReads, LiveWrites, Live, In
<1>9. NoAbort' /\ SlotsAccounted'
  BY Zenon, <1>8 DEF IInv, NoAbort, SlotsAccounted, Complete, progVars
<1> QED
  BY Zenon, <1>6, <1>7, <1>9 DEF IInv

\* main tears the ring down: requests in flight may be cancelled.
LEMMA ExitMoves ==
  ASSUME IInv, Exit
  PROVE  /\ where' \in [Offsets -> Places]
         /\ \A o \in Offsets : \/ where'[o] = where[o]
                               \/ where[o] = "inflight" /\ where'[o] = "cancelled"
BY Zenon DEF IInv, TypeOK, Exit, In, Places

LEMMA ExitIInv == ASSUME IInv, Exit PROVE IInv'
<1>1. pc' \in PCs /\ pc' # "aborted" /\ got_comp' \in BOOLEAN
  BY Zenon DEF IInv, TypeOK, PCs, Exit
<1>2. TypeOK'
  BY Zenon, <1>1, ExitMoves DEF IInv, TypeOK, Exit
<1>3. Layout'
  BY Zenon, ExitMoves DEF IInv, Layout, Exit
<1>4. NoAbort' /\ SlotsAccounted'
  BY Zenon, <1>1, ExitMoves, MoveStep DEF Exit
<1> QED
  BY Zenon, <1>2, <1>3, <1>4 DEF IInv

-----------------------------------------------------------------------------
\* Every step of the program and of the kernel keeps the invariant.
LEMMA NextIInv == IInv /\ [Next]_vars => IInv'
<1> SUFFICES ASSUME IInv, [Next]_vars PROVE IInv'
  BY Zenon
<1>0. pc \in PCs /\ pc # "aborted" /\ got_comp \in BOOLEAN /\ had_reads \in Nat /\ reads \in Nat
  BY Zenon DEF IInv, TypeOK, NoAbort
<1>1. CASE Outer
  BY Zenon, <1>0, <1>1, ControlStep DEF Outer, PCs
<1>2. CASE QueueRead
  BY Zenon, <1>2, QueueReadIInv
<1>3. CASE QueueReadFails
  BY Zenon, <1>0, <1>3, ControlStep DEF QueueReadFails, PCs
<1>4. CASE EndFill
  BY Zenon, <1>0, <1>4, ControlStep DEF EndFill, PCs
<1>5. CASE Submit
  BY <1>5, SubmitIInv
<1>6. CASE NoSubmit
  BY Zenon, <1>0, <1>6, ControlStep DEF NoSubmit, PCs
<1>7. CASE EndReap
  BY Zenon, <1>0, <1>7, ControlStep DEF EndReap, PCs
<1>8. CASE WaitFails
  BY Zenon, <1>0, <1>8, ControlStep DEF WaitFails, PCs
<1>9. ASSUME NEW o \in Offsets,
             Retry(o) \/ RequestFails(o) \/ RequeueShort(o) \/ ReadDone(o) \/ WriteDone(o)
      PROVE  IInv'
  <2>1. CASE RequestFails(o)
    BY Zenon, <1>0, <2>1, ControlStep DEF RequestFails, Reaped, PCs
  <2> QED
    BY Zenon, <1>9, <2>1, RetryIInv, RequeueShortIInv, ReadDoneIInv, WriteDoneIInv
<1>10. CASE Kernel
  BY Zenon, <1>10, CompleteIInv DEF Kernel
<1>11. CASE UNCHANGED vars
  BY Zenon, <1>0, <1>11, ControlStep DEF vars
<1> QED
  BY Zenon, <1>1, <1>2, <1>3, <1>4, <1>5, <1>6, <1>7, <1>8, <1>9, <1>10, <1>11, ExitIInv
  DEF Next, Program, Finished

\* The type invariant of copy_file holds in every reachable state.
THEOREM TypeCorrect == Spec => []TypeOK
<1>1. IInv => TypeOK
  BY Zenon DEF IInv
<1> QED
  BY <1>1, InitIInv, NextIInv, PTL DEF Spec

\* reads + writes is at every moment the number of allocated io_data, at
\* most QD, whatever fails.
THEOREM SlotsAlwaysAccounted == Spec => []SlotsAccounted
<1>1. IInv => SlotsAccounted
  BY Zenon DEF IInv
<1> QED
  BY <1>1, InitIInv, NextIInv, PTL DEF Spec

\* assert(sqe) in queue_prepped never fails.
THEOREM AssertHolds == Spec => []NoAbort
<1>1. IInv => NoAbort
  BY Zenon DEF IInv
<1> QED
  BY <1>1, InitIInv, NextIInv, PTL DEF Spec
-----------------------------------------------------------------------------
(* What copy_file has done when it returns *)

\* Blocks handed out do not overlap and lie before the read position.
Spaced ==
  \A o \in Offsets : where[o] # "unused" =>
    /\ o + FirstLen(o) <= offset
    /\ \A q \in Offsets : where[q] # "unused" /\ o < q => o + FirstLen(o) <= q

\* write_left is what is still to be read and what is being read: whole
\* blocks, and possibly the short one at the end of the file.
LeftToWrite ==
  /\ (\A o \in LiveReads : FirstLen(o) = BS) => write_left = insize + BS * reads
  /\ \A o \in LiveReads :
       FirstLen(o) # BS => write_left = insize + BS * (reads - 1) + FirstLen(o)

\* A read of this round waits in the ring until io_uring_submit.
NewIsQueued == pc \in {"fill", "submit"} /\ had_reads # reads => In("queued") # {}

Returns == Spaced /\ LeftToWrite /\ NewIsQueued /\ ReturnsAfterReading

\* Only the last block is short.
LEMMA ShortIsLast ==
  ASSUME NEW o \in Offsets, FirstLen(o) # BS
  PROVE  o + FirstLen(o) = Size /\ FirstLen(o) \in 1 .. BS - 1
BY DEF FirstLen, Offsets, Positions

\* Steps that allocate nothing and turn no read into a write.
LEMMA SameReads ==
  ASSUME Spaced, LeftToWrite, UNCHANGED <<offset, insize, write_left, reads>>,
         \A o \in Offsets : /\ where'[o] = "unused" <=> where[o] = "unused"
                            /\ data[o].read => (where'[o] = "freed" <=> where[o] = "freed")
                            /\ data'[o].read = data[o].read
  PROVE  Spaced' /\ LeftToWrite' /\ LiveReads' = LiveReads
<1>1. LiveReads' = LiveReads
  BY Zenon DEF LiveReads, Live, In
<1>2. \A o : FirstLen(o)' = FirstLen(o)
  BY Zenon DEF FirstLen
<1>3. Spaced'
  BY Zenon, <1>2 DEF Spaced
<1>4. LeftToWrite'
  BY Zenon, <1>1, <1>2 DEF LeftToWrite
<1> QED  BY Zenon, <1>1, <1>3, <1>4

\* A new read adds its block to what is being read.
LEMMA QueueReadReturns == ASSUME IInv, Returns, QueueRead PROVE Returns'
<1>1. /\ offset \in Offsets /\ where[offset] = "unused" /\ insize \in Nat /\ reads \in Nat
      /\ insize = Size - offset /\ write_left \in Int
  BY DEF IInv, QueueRead, Layout, TypeOK, Offsets, Positions
<1>2. /\ FirstLen(offset) \in 1 .. BS /\ \A o \in Offsets : o \in Int /\ FirstLen(o) \in 1 .. BS
      /\ \A o : FirstLen(o)' = FirstLen(o)
  BY <1>1, FirstLenBounds DEF FirstLen, Offsets, Positions
<1>3. /\ pc' = "fill" /\ write_left' = write_left
      /\ insize' = insize - FirstLen(offset) /\ offset' = offset + FirstLen(offset)
      /\ reads' = reads + 1
      /\ where'[offset] = "queued" /\ data'[offset].read
      /\ \A o \in Offsets : o # offset => where'[o] = where[o] /\ data'[o] = data[o]
  BY Zenon, <1>1 DEF IInv, TypeOK, QueueRead, Prepared
<1>4. \A o \in Offsets : where[o] # "unused" => o + FirstLen(o) <= offset
  BY Zenon DEF Returns, Spaced
<1>5. LiveReads' = LiveReads \cup {offset} /\ \A o \in LiveReads : o \in Offsets /\ where[o] # "unused"
  BY Zenon, <1>1, <1>3 DEF LiveReads, Live, In
<1>6. \A o \in LiveReads : FirstLen(o) = BS
  <2> SUFFICES ASSUME NEW o \in LiveReads, FirstLen(o) # BS PROVE FALSE
    BY Zenon
  <2>1. o \in Offsets /\ o + FirstLen(o) <= offset
    BY Zenon, <1>4, <1>5
  <2>2. o + FirstLen(o) = Size
    BY Zenon, <2>1, ShortIsLast
  <2> QED  BY <1>1, <2>1, <2>2 DEF Offsets, Positions
<1>7. write_left = insize + BS * reads
  BY Zenon, <1>6 DEF Returns, LeftToWrite
<1>8. Spaced'
  <2>1. ASSUME NEW o \in Offsets, where'[o] # "unused"
        PROVE  /\ o + FirstLen(o) <= offset'
               /\ \A q \in Offsets : where'[q] # "unused" /\ o < q => o + FirstLen(o) <= q
    <3>1. CASE o = offset
      <4>1. o + FirstLen(o) <= offset'
        BY <1>1, <1>2, <1>3, <3>1
      <4>2. ASSUME NEW q \in Offsets, where'[q] # "unused", o < q PROVE FALSE
        <5>1. q + FirstLen(q) <= offset
          BY <1>2, <1>3, <1>4, <3>1, <4>2
        <5> QED  BY <1>2, <3>1, <4>2, <5>1
      <4> QED  BY <4>1, <4>2
    <3>2. CASE o # offset
      <4>1. where[o] # "unused" /\ o + FirstLen(o) <= offset
        BY Zenon, <1>3, <1>4, <2>1, <3>2
      <4>2. o + FirstLen(o) <= offset'
        BY <1>1, <1>2, <1>3, <4>1
      <4> QED  BY <1>3, <4>1, <4>2 DEF Returns, Spaced
    <3> QED  BY <3>1, <3>2
  <2> QED  BY <1>2, <2>1 DEF Spaced
<1>9. LeftToWrite'
  <2>1. BS * (reads + 1) = BS * reads + BS /\ BS * reads \in Int /\ reads + 1 - 1 = reads
    BY <1>1
  <2>2. write_left' = insize' + BS * (reads' - 1) + FirstLen(offset)
    BY <1>1, <1>2, <1>3, <1>7, <2>1
  <2>3. FirstLen(offset) = BS => write_left' = insize' + BS * reads'
    BY <1>1, <1>2, <1>3, <1>7, <2>1
  <2> QED  BY <1>2, <1>5, <1>6, <2>2, <2>3 DEF LeftToWrite
<1>10. NewIsQueued' /\ ReturnsAfterReading'
  BY Zenon, <1>1, <1>3 DEF NewIsQueued, ReturnsAfterReading, In
<1> QED  BY Zenon, <1>8, <1>9, <1>10 DEF Returns

\* A finished read takes its block out of what is left to write.
LEMMA ReadDoneReturns == ASSUME IInv, Returns, NEW o \in Offsets, ReadDone(o) PROVE Returns'
<1> DEFINE W == [where EXCEPT ![o] = "queued"]
<1>1. /\ where[o] = "complete" /\ data[o].read /\ pc = "reap" /\ pc' = pc
      /\ data' = [data EXCEPT ![o] = Prepared(@, FALSE, FirstLen(o))]
      /\ \E T \in SUBSET (In("queued") \cup {o}) : SubmitOutcome(W, T)
      /\ write_left' = write_left - FirstLen(o) /\ reads' = reads - 1
      /\ offset' = offset /\ insize' = insize
  BY Zenon, RoomForCompleted DEF ReadDone, Reaped, QueueWrite
<1>2. W \in [Offsets -> Places] /\ W[o] = "queued" /\ \A x \in Offsets : x # o => W[x] = where[x]
  BY Zenon DEF IInv, TypeOK, Places
<1>3. \A x \in Offsets : \/ where'[x] = W[x]
                         \/ W[x] = "queued" /\ where'[x] = "inflight"
  BY Zenon, <1>1, <1>2, SubmitMoves
<1> HIDE DEF W
<1>4. \A x \in Offsets : /\ where'[x] = "unused" <=> where[x] = "unused"
                         /\ where'[x] = "freed" <=> where[x] = "freed"
  BY Zenon, <1>1, <1>2, <1>3
<1>5. ~data'[o].read /\ \A x \in Offsets : x # o => data'[x] = data[x]
  BY Zenon, <1>1 DEF IInv, TypeOK, Prepared
<1>6. LiveReads' = LiveReads \ {o} /\ o \in LiveReads
  BY Zenon, <1>1, <1>4, <1>5 DEF LiveReads, Live, In
<1>7. /\ \A x : FirstLen(x)' = FirstLen(x)
      /\ \A x \in LiveReads : x \in Offsets /\ x \in Int /\ x < Size /\ where[x] # "unused"
      /\ insize \in Nat /\ reads \in Nat /\ write_left \in Int
  BY DEF FirstLen, LiveReads, Live, In, Offsets, Positions, IInv, TypeOK
<1>8. Spaced'
  BY Zenon, <1>1, <1>4, <1>7 DEF Returns, Spaced
<1>9. /\ BS * (reads - 1) = BS * reads - BS /\ BS * (reads - 1 - 1) = BS * (reads - 1) - BS
      /\ BS * reads \in Int /\ BS * (reads - 1) \in Int /\ BS * (reads - 1 - 1) \in Int
  BY <1>7
<1>10. LeftToWrite'
  <2>1. CASE FirstLen(o) = BS
    <3>1. ASSUME \A x \in LiveReads' : FirstLen(x) = BS
          PROVE  write_left' = insize' + BS * reads'
      <4>1. \A x \in LiveReads : FirstLen(x) = BS
        BY Zenon, <1>6, <2>1, <3>1
      <4>2. write_left = insize + BS * reads
        BY Zenon, <4>1 DEF Returns, LeftToWrite
      <4> QED  BY <1>1, <1>7, <1>9, <2>1, <4>2
    <3>2. ASSUME NEW x \in LiveReads', FirstLen(x) # BS
          PROVE  write_left' = insize' + BS * (reads' - 1) + FirstLen(x)
      <4>1. x \in LiveReads
        BY Zenon, <1>6
      <4>2. write_left = insize + BS * (reads - 1) + FirstLen(x)
        BY Zenon, <3>2, <4>1 DEF Returns, LeftToWrite
      <4>3. FirstLen(x) \in 1 .. BS - 1
        BY Zenon, <1>7, <3>2, <4>1, ShortIsLast
      <4> QED  BY <1>1, <1>7, <1>9, <2>1, <4>2, <4>3
    <3> QED  BY <1>7, <3>1, <3>2 DEF LeftToWrite
  <2>2. CASE FirstLen(o) # BS
    <3>1. o + FirstLen(o) = Size /\ FirstLen(o) \in 1 .. BS - 1 /\ o \in Int /\ o < Size
      BY Zenon, <1>6, <1>7, <2>2, ShortIsLast
    <3>2. write_left = insize + BS * (reads - 1) + FirstLen(o)
      BY Zenon, <1>6, <2>2 DEF Returns, LeftToWrite
    <3>3. write_left' = insize' + BS * reads'
      BY <1>1, <1>7, <1>9, <3>1, <3>2
    <3>4. ASSUME NEW x \in LiveReads', FirstLen(x) # BS PROVE FALSE
      <4>1. x \in LiveReads /\ x # o
        BY Zenon, <1>6
      <4>2. x + FirstLen(x) = Size /\ x \in Int /\ x < Size
        BY Zenon, <1>7, <3>4, <4>1, ShortIsLast
      <4>3. x < o => x + FirstLen(x) <= o
        BY Zenon, <1>6, <1>7, <4>1 DEF Returns, Spaced
      <4>4. o < x => o + FirstLen(o) <= x
        BY Zenon, <1>6, <1>7, <4>1 DEF Returns, Spaced
      <4> QED  BY <3>1, <4>1, <4>2, <4>3, <4>4
    <3> QED  BY <1>7, <3>3, <3>4 DEF LeftToWrite
  <2> QED  BY <2>1, <2>2
<1>11. NewIsQueued' /\ ReturnsAfterReading'
  BY Zenon, <1>1 DEF NewIsQueued, ReturnsAfterReading
<1> QED  BY Zenon, <1>8, <1>10, <1>11 DEF Returns

\* The loop ends only when nothing is being read.
LEMMA OuterReturns == ASSUME IInv, Returns, Outer PROVE Returns'
<1>1. /\ UNCHANGED <<offset, insize, write_left, reads, data, where>>
      /\ \/ pc' = "fill" /\ had_reads' = reads
         \/ pc' = "done" /\ insize = 0 /\ write_left = 0
  BY Zenon DEF Outer, MoreToDo
<1>2. Spaced' /\ LeftToWrite' /\ LiveReads' = LiveReads
  BY Zenon, <1>1, SameReads DEF Returns
<1>3. ASSUME insize = 0, write_left = 0 PROVE offset = Size /\ LiveReads = {}
  <2>1. offset = Size /\ reads \in Nat /\ reads = Cardinality(LiveReads)
    BY <1>3 DEF IInv, Layout, TypeOK, SlotsAccounted, NoAbort
  <2>2. CASE \A o \in LiveReads : FirstLen(o) = BS
    <3>1. BS * reads = 0
      BY <1>3, <2>1, <2>2 DEF Returns, LeftToWrite
    <3>2. reads = 0
      BY <2>1, <3>1
    <3>3. IsFiniteSet(LiveReads)
      BY Zenon, FiniteOffsets DEF LiveReads, Live
    <3> QED  BY Zenon, <2>1, <3>2, <3>3, FS_EmptySet
  <2>3. ASSUME NEW o \in LiveReads, FirstLen(o) # BS PROVE FALSE
    <3>1. o \in Offsets /\ IsFiniteSet(LiveReads)
      BY Zenon, FiniteOffsets DEF LiveReads, Live
    <3>2. write_left = insize + BS * (reads - 1) + FirstLen(o)
      BY <2>3, Zenon DEF Returns, LeftToWrite
    <3>3. FirstLen(o) \in 1 .. BS - 1
      BY Zenon, <2>3, <3>1, ShortIsLast
    <3>4. reads # 0
      BY Zenon, <2>1, <3>1, FS_EmptySet
    <3>5. BS * (reads - 1) >= 0 /\ BS * (reads - 1) \in Int
      BY <2>1, <3>4
    <3> QED  BY <1>3, <3>2, <3>3, <3>5
  <2> QED  BY <2>1, <2>2, <2>3
<1>4. NewIsQueued'
  BY Zenon, <1>1 DEF NewIsQueued
<1>5. ReturnsAfterReading'
  BY Zenon, <1>1, <1>2, <1>3 DEF ReturnsAfterReading
<1> QED  BY Zenon, <1>2, <1>4, <1>5 DEF Returns

LEMMA NextReturns ==
  ASSUME IInv, IInv', Returns, [Next]_vars
  PROVE  Returns'
<1>1. CASE Outer
  BY Zenon, <1>1, OuterReturns
<1>2. CASE QueueRead
  BY Zenon, <1>2, QueueReadReturns
<1>3. CASE QueueReadFails \/ EndFill \/ NoSubmit \/ EndReap \/ WaitFails \/ UNCHANGED vars
  <2>1. /\ UNCHANGED <<had_reads, offset, insize, write_left, reads, data, where>>
        /\ \/ pc' = pc /\ faults' = faults
           \/ pc' \in {"reap", "loop", "failed"}
           \/ pc = "fill" /\ pc' = "submit"
    BY Zenon, <1>3 DEF QueueReadFails, EndFill, NoSubmit, EndReap, WaitFails, vars
  <2>2. Spaced' /\ LeftToWrite' /\ LiveReads' = LiveReads
    BY Zenon, <2>1, SameReads DEF Returns
  <2> QED  BY <2>1, <2>2 DEF Returns, NewIsQueued, ReturnsAfterReading, In
<1>4. CASE Submit
  <2>1. PICK T \in SUBSET In("queued") :
          /\ SubmitOutcome(where, T)
          /\ IF T = {} THEN pc' = "done" ELSE pc' = "reap"
    BY Zenon, <1>4 DEF Submit
  <2>2. \A o \in Offsets : \/ where'[o] = where[o]
                           \/ where[o] = "queued" /\ where'[o] = "inflight"
    BY Zenon, <2>1, SubmitMoves DEF IInv, TypeOK
  <2>3. Spaced' /\ LeftToWrite'
    BY Zenon, <1>4, <2>2, SameReads DEF Submit, Returns
  <2>4. T = {} => In("queued")' # {} /\ Fault
    BY Zenon, <1>4, <2>1 DEF Submit, SubmitOutcome, Taken, In, Returns, NewIsQueued
  <2>5. Fault => faults' < MaxFaults
    BY DEF Fault, IInv, TypeOK
  <2> QED  BY Zenon, <2>1, <2>3, <2>4, <2>5 DEF Returns, NewIsQueued, ReturnsAfterReading
<1>5. ASSUME NEW o \in Offsets,
             Retry(o) \/ RequestFails(o) \/ RequeueShort(o) \/ WriteDone(o)
      PROVE  Returns'
  <2>1. /\ pc = "reap" /\ pc' \in {"reap", "failed"} /\ where[o] = "complete"
        /\ UNCHANGED <<offset, insize, write_left, reads>>
    BY Zenon, <1>5 DEF Retry, RequestFails, RequeueShort, WriteDone, Reaped, QueuePrepped, IInv, NoAbort
  <2>2. /\ \A x \in Offsets : data'[x].read = data[x].read
        /\ \A x \in Offsets : x # o => where'[x] = where[x]
        /\ where'[o] \in {"complete", "queued"} \/ (where'[o] = "freed" /\ ~data[o].read)
    <3>1. CASE Retry(o)
      BY Zenon, <2>1, <3>1 DEF Retry, QueuePrepped, IInv, TypeOK
    <3>2. CASE RequestFails(o)
      BY Zenon, <2>1, <3>2 DEF RequestFails
    <3>3. CASE RequeueShort(o)
      BY Zenon, <2>1, <3>3 DEF RequeueShort, QueuePrepped, Resumed, IInv, TypeOK
    <3>4. CASE WriteDone(o)
      BY Zenon, <2>1, <3>4 DEF WriteDone, IInv, TypeOK
    <3> QED  BY <1>5, <3>1, <3>2, <3>3, <3>4
  <2>3. Spaced' /\ LeftToWrite'
    BY Zenon, <2>1, <2>2, SameReads DEF Returns
  <2> QED  BY <2>1, <2>3 DEF Returns, NewIsQueued, ReturnsAfterReading
<1>6. ASSUME NEW o \in Offsets, Complete(o) PROVE Returns'
  <2>1. /\ where[o] = "inflight" /\ where'[o] = "complete"
        /\ \A x \in Offsets : x # o => where'[x] = where[x]
        /\ UNCHANGED <<pc, had_reads, offset, insize, write_left, reads>>
    BY Zenon, <1>6 DEF IInv, TypeOK, Complete, progVars
  <2>2. \A x \in Offsets : data'[x].read = data[x].read
    <3>1. CASE \E n \in 1 .. data[o].len : Transfer(o, n)
      BY Zenon, <3>1, TransferTypes
    <3> QED  BY <1>6, <3>1 DEF Complete
  <2>3. Spaced' /\ LeftToWrite' /\ LiveReads' = LiveReads
    BY Zenon, <2>1, <2>2, SameReads DEF Returns
  <2>4. In("queued")' = In("queued")
    BY Zenon, <2>1 DEF In
  <2>5. faults < MaxFaults => faults' < MaxFaults
    BY <1>6 DEF Complete, Fault, IInv, TypeOK
  <2> QED  BY Zenon, <2>1, <2>3, <2>4, <2>5 DEF Returns, NewIsQueued, ReturnsAfterReading
<1>7. CASE Exit
  <2>1. pc' = "exited" /\ UNCHANGED <<offset, insize, write_left, reads, data>>
    BY Zenon, <1>7 DEF Exit
  <2>2. Spaced' /\ LeftToWrite'
    BY Zenon, <1>7, <2>1, ExitMoves, SameReads DEF Returns
  <2> QED  BY Zenon, <2>1, <2>2 DEF Returns, NewIsQueued, ReturnsAfterReading
<1> QED
  BY Zenon, <1>1, <1>2, <1>3, <1>4, <1>5, <1>6, <1>7, ReadDoneReturns DEF Next, Program, Kernel, Finished

LEMMA InitReturns == Init => Returns
<1> SUFFICES ASSUME Init PROVE Returns
  OBVIOUS
<1>1. LiveReads = {} /\ \A o \in Offsets : where[o] = "unused"
  BY Zenon DEF Init, LiveReads, Live, In
<1>2. BS * 0 = 0
  OBVIOUS
<1> QED
  BY <1>1, <1>2 DEF Init, Returns, Spaced, LeftToWrite, NewIsQueued, ReturnsAfterReading

Full == IInv /\ Returns

LEMMA InitFull == Init => Full
  BY InitIInv, InitReturns, Zenon DEF Full

LEMMA NextFull == Full /\ [Next]_vars => Full'
  BY NextIInv, NextReturns, Zenon DEF Full

\* copy_file returns 0 only when the write of every block has been queued, or
\* io_uring_submit took nothing and left entries in the ring.
THEOREM AlwaysReturnsAfterReading == Spec => []ReturnsAfterReading
<1>1. Full => ReturnsAfterReading
  BY Zenon DEF Full, Returns
<1> QED
  BY <1>1, InitFull, NextFull, PTL DEF Spec
=============================================================================
