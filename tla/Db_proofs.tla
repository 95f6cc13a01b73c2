----------------------------- MODULE Db_proofs -----------------------------
(* The files of the database are sound while any number of processes work on   *)
(* them: the steps that write to the files, and the theorems.                    *)
EXTENDS Db_inv

(* Every step *)

\* _db_dodelete keeps the invariant.
LEMMA DeleteKeeps ==
  ASSUME IInv, NoneHalfDeleted, NEW p \in Procs, DoDelete(p)
  PROVE  IInv'
  \* and it is still on the chain, behind the place that leads to it.
<1>FoundStays. ASSUME IInv, p \in Alives, Unmoved(p), pc[p] \in FoundPcs, pc'[p] \in FoundPcs,
             SameRecord(db[p], db'[p]), db'[p].ptroff = db[p].ptroff, db'[p].ptrval = db[p].ptrval,
             pc'[p] = "d_idx" => db'[p].ptr = chain[FREE_OFF] /\ db'[p].save = db[p].ptrval
      PROVE  Reading(p)' /\ Walking(p)'
  <2> USE <1>FoundStays
  <2>1. Read(p)'
    <3>1. Read(p)
      BY Zenon DEF IInv, Local, Reading
    <3> QED  BY <3>1, ReadStays, Zenon
  <2>2. Reading(p)'
    BY <2>1, Zenon DEF Reading, FoundPcs
  <2>3. /\ db[p].ptroff \in At(chainoff(p)) /\ chain[db[p].ptroff] = db[p].idxoff
        /\ db[p].ptrval = chain[db[p].idxoff] /\ KeyAt(db[p].idxoff) = op[p].key
    BY Zenon DEF IInv, Local, Walking
  <2>4. /\ db'[p].ptroff \in At(chainoff(p))' /\ chain'[db'[p].ptroff] = db'[p].idxoff
        /\ db'[p].ptrval = chain'[db'[p].idxoff] /\ idx'[Rec(db'[p].idxoff)].key = op'[p].key
    BY <2>3, ZenonT(30) DEF Unmoved, SameRecord, KeyAt
  <2>5. Walking(p)'
    BY <2>4, Zenon DEF Walking, FoundPcs, KeyAt, Unmoved
  <2> QED  BY <2>2, <2>5, Zenon
  \* _db_dodelete locks the free list.
<1>DeleteLock. ASSUME IInv, p \in Alives, pc[p] = "d_lock", Lock(p, FREE_OFF, TRUE), Goto(p, "d_dat"),
             UNCHANGED <<files, db>>, Alive
      PROVE  IInv'
  <2> USE <1>DeleteLock
  <2>1. db[p] \in DbType /\ Quiet(p, "d_dat", db[p])
    BY SameDb, Zenon DEF Quiet
  <2>2. Takes(p, "d_dat", FREE_OFF, TRUE) /\ "d_dat" \in Pcs \ Unlinking /\ pc[p] \notin Unlinking
    BY Zenon  DEF Takes, Pcs, Unlinking, ChainPcs, FreePcs, DatPcs, IdxPcs, NextPcs, ScanPcs,
           DeletePcs, StorePcs
  <2>3. GoesOn(p, "d_dat")
    <3>1. op[p].name # "fetch"
      BY CallingIs, Zenon DEF DeletePcs
    <3> QED  BY <3>1, Zenon DEF GoesOn, Pcs, Unlinking, ChainPcs, FreePcs, DatPcs, IdxPcs, NextPcs, ScanPcs,
           DeletePcs, StorePcs
  <2>4. pc'[p] = "d_dat" /\ db'[p] = db[p] /\ Unmoved(p)
    BY <2>1, <2>2, RegionFacts, LockUnmoved, Zenon
  <2>5. Arrives(p, "d_dat", db[p])
    <3>1. Reading(p)' /\ Walking(p)'
      BY <2>4, <1>FoundStays, Zenon DEF FoundPcs, SameRecord
    <3> QED  BY <3>1, Zenon DEF Arrives, Unlinking, ReadPcs, WalkPcs, FoundPcs, AbsentPcs, StorePcs,
           TakePcs, OwnPcs, AddPcs
  <2> QED  BY <2>1, <2>2, <2>3, <2>5, RegionFacts, LockStep, ZenonT(30)
  \* _db_dodelete reads the head of the free list and saves the record's chain ptr.
<1>DeleteFree. ASSUME IInv, NoneHalfDeleted, p \in Alives, pc[p] = "d_free", Goto(p, "d_idx"),
             Set(p, [db[p] EXCEPT !.ptr = ptr[FREE_OFF], !.save = db[p].ptrval]),
             UNCHANGED <<files, locks>>, Alive
      PROVE  IInv'
  <2> USE <1>DeleteFree
  <2> DEFINE d == db[p]  e == [d EXCEPT !.ptr = ptr[FREE_OFF], !.save = d.ptrval]
  <2>1. d \in DbType /\ ptr[FREE_OFF] \in {0} \cup Recs /\ ptr[FREE_OFF] = chain[FREE_OFF]
    <3>1. FREE_OFF \in At(FREE_OFF)
      BY Zenon DEF At
    <3> QED  BY <3>1, DbFacts, Ptrs, FreeChain, Zenon
  <2>2. d.ptrval \in {0} \cup Recs
    BY <2>1, Zenon DEF DbType
  <2>3. /\ e \in DbType /\ e.ptr = ptr[FREE_OFF] /\ e.save = d.ptrval /\ SameRecord(d, e)
        /\ e.ptroff = d.ptroff /\ e.ptrval = d.ptrval
    BY <2>1, <2>2, Zenon DEF DbType, SameRecord
  <2>4. Quiet(p, "d_idx", e) /\ locks' = locks
    BY Zenon DEF Quiet
  <2> HIDE DEF e
  <2>5. Holds(p, "d_idx") /\ "d_idx" \in Pcs \ Unlinking /\ pc[p] \notin Unlinking
    BY Zenon DEF Holds, Pcs, Unlinking, ChainPcs, FreePcs, DatPcs, IdxPcs, NextPcs, ScanPcs,
           DeletePcs, StorePcs
  <2>6. GoesOn(p, "d_idx")
    <3>1. op[p].name # "fetch"
      BY CallingIs, Zenon DEF DeletePcs
    <3> QED  BY <3>1, Zenon DEF GoesOn, Pcs, Unlinking, ChainPcs, FreePcs, DatPcs, IdxPcs, NextPcs, ScanPcs,
           DeletePcs, StorePcs
  <2>7. pc'[p] = "d_idx" /\ db'[p] = e /\ Unmoved(p)
    BY <2>3, <2>4, <2>5, PrivateUnmoved, Zenon
  <2>8. Arrives(p, "d_idx", e)
    <3>1. Reading(p)' /\ Walking(p)'
      BY <2>1, <2>3, <2>7, <1>FoundStays, Zenon DEF FoundPcs
    <3> QED  BY <2>3, <3>1, Zenon DEF SameRecord, Arrives, Unlinking, ReadPcs, WalkPcs, FoundPcs, AbsentPcs, StorePcs,
           TakePcs, OwnPcs, AddPcs
  <2> QED  BY <2>3, <2>4, <2>5, <2>6, <2>8, PrivateStep, ZenonT(30)
  \* _db_dodelete lets the free list go.
<1>DeleteUnlock. ASSUME IInv, p \in Alives, pc[p] = "d_unlock", un_lock(p, FREE_OFF),
             Goto(p, IF op[p].name = "delete" THEN "unlock" ELSE "reptr"), UNCHANGED <<files, db>>, Alive
      PROVE  IInv'
  <2> USE <1>DeleteUnlock
  <2> DEFINE v == IF op[p].name = "delete" THEN "unlock" ELSE "reptr"
  <2>1. db[p] \in DbType /\ Quiet(p, v, db[p])
    BY SameDb, Zenon DEF Quiet
  <2>2. v \in {"unlock", "reptr"} /\ (v = "reptr" => op[p].name # "delete")
    BY Zenon
  <2> HIDE DEF v
  <2>3. chainoff(p) # FREE_OFF /\ op[p].name \in {"fetch", "delete", "insert", "replace", "store"}
    <3>1. pc[p] \in ChainPcs
      BY Zenon DEF Pcs, Unlinking, ChainPcs, FreePcs, DatPcs, IdxPcs, NextPcs, ScanPcs,
           DeletePcs, StorePcs
    <3> QED  BY <3>1, CallFacts, Zenon
  <2>4. Leaves(p, v, FREE_OFF) /\ v \in Pcs \ Unlinking /\ pc[p] \notin Unlinking
    BY <2>2, <2>3, Zenon DEF Leaves, Pcs, Unlinking, ChainPcs, FreePcs, DatPcs, IdxPcs, NextPcs, ScanPcs,
           DeletePcs, StorePcs
  <2>5. GoesOn(p, v)
    <3>1. op[p].name # "fetch"
      BY CallingIs, Zenon DEF DeletePcs
    <3>2. v = "reptr" => op[p].name \in {"insert", "replace", "store"}
      BY <2>2, <2>3, <3>1, Zenon
    <3> QED  BY <2>2, <3>2, Zenon DEF GoesOn, Pcs, Unlinking, ChainPcs, FreePcs, DatPcs, IdxPcs, NextPcs, ScanPcs,
           DeletePcs, StorePcs
  <2>6. pc'[p] = v /\ db'[p] = db[p] /\ Unmoved(p)
    BY <2>1, <2>4, UnlockUnmoved, ZenonT(30)
  <2>7. Arrives(p, v, db[p])
    <3>1. Storing(p)'
      BY <2>2, <2>6, StoringStays, Zenon DEF AbsentPcs, StorePcs
    <3> QED  BY <2>2, <3>1, Zenon DEF Arrives, Unlinking, ReadPcs, WalkPcs, FoundPcs, AbsentPcs, StorePcs,
           TakePcs, OwnPcs, AddPcs
  <2> QED  BY <2>1, <2>4, <2>5, <2>7, UnlockStep, ZenonT(30)
  \* _db_dodelete blanks the data: the record is half deleted from here, and locked.
<1>DeleteDat. ASSUME IInv, NoneHalfDeleted, p \in Alives, pc[p] = "d_dat", writedat(db[p], Blank),
             Goto(p, "d_free"), UNCHANGED <<ptr, idx, locks, db>>, Alive
      PROVE  IInv'
  <2> USE <1>DeleteDat
  <2>1. /\ pc[p] \in FoundPcs /\ "d_free" \in FoundPcs /\ pc[p] \notin Unlinking \cup {"d_free", "d_idx"}
        /\ "d_free" \in Pcs \ Unlinking /\ Holds(p, "d_free")
    BY Zenon DEF Holds, FoundPcs, Pcs, Unlinking, ChainPcs, FreePcs, DatPcs, IdxPcs, NextPcs, ScanPcs,
           DeletePcs, StorePcs
  <2>2. Writes(p, "d_free", db[p])
    BY SameDb, Zenon DEF Writes
  <2>3. GoesOn(p, "d_free")
    <3>1. op[p].name # "fetch"
      BY CallingIs, Zenon DEF DeletePcs
    <3> QED  BY <3>1, Zenon DEF GoesOn, Pcs, Unlinking, ChainPcs, FreePcs, DatPcs, IdxPcs, NextPcs, ScanPcs,
           DeletePcs, StorePcs
  <2>4. /\ Read(p) /\ db[p].idxoff \in List(chainoff(p)) /\ chainoff(p) \in Heads
    BY <2>1, FoundFacts, Zenon
  <2>5. pc'[p] = "d_free" /\ db'[p] = db[p] /\ Unmoved(p)
    BY <2>1, <2>2, DatUnmoved, Zenon
  <2>6. Reading(p)' /\ Walking(p)'
    BY <2>1, <2>5, <1>FoundStays, Zenon DEF SameRecord
  <2>7. Reaches(p, "d_free", db[p])
    BY <2>6, Zenon DEF Reaches, ReadPcs, WalkPcs, Unlinking, FoundPcs, AbsentPcs, StorePcs,
           TakePcs, OwnPcs, AddPcs
  <2>8. Blank \in AllData \cup {Blank} /\ "d_free" \in {"d_free", "d_idx"}
    BY Zenon
  <2> QED  BY <2>1, <2>2, <2>3, <2>4, <2>7, <2>8, OverStep, ZenonT(30)
  \* _db_dodelete's last write: the chain becomes what it was taken to be.
<1>DeleteChain. ASSUME IInv, NoneHalfDeleted, p \in Alives, pc[p] = "d_chain", writeptr(db[p].ptroff, db[p].save),
             Goto(p, "d_unlock"), UNCHANGED <<idx, dat, locks, db>>, Alive
      PROVE  IInv'
  <2> USE <1>DeleteChain
  <2> DEFINE d == db[p]  c == chainoff(p)
  <2>1. /\ pc[p] \in Unlinking /\ pc[p] \notin {"d_free", "d_idx"} /\ "d_unlock" \in Pcs
        /\ "d_unlock" \notin Unlinking /\ Holds(p, "d_unlock") /\ pc[p] \in DeletePcs /\ pc[p] \in AbsentPcs
    BY Zenon DEF Holds, AbsentPcs, Pcs, Unlinking, ChainPcs, FreePcs, DatPcs, IdxPcs, NextPcs, ScanPcs,
           DeletePcs, StorePcs
  <2>2. p \in Procs /\ d \in DbType /\ Heads \cup Recs = 0 .. nhash + Len(idx) /\ Writes(p, "d_unlock", d)
    BY SameDb, DbFacts, Zenon DEF Writes
  <2>3. /\ \A q \in Procs : q # p => pc[q] \notin Unlinking
        /\ c \in Heads /\ d.ptroff \in At(c) /\ pc[p] \in ChainPcs /\ op[p].name # "fetch"
    BY <2>1, <2>2, Unlinker, UnlinkerAt, Zenon
  <2>4. d.ptroff \in Heads \cup Recs /\ d.save \in {0} \cup Recs
    BY <2>2, Zenon DEF DbType
  <2>5. PtrWritten(p, "d_unlock", d.ptroff, d.save)
    BY <2>2, <2>4, Zenon DEF PtrWritten
  <2>6. /\ Moves(p) /\ DOMAIN ptr = Heads \cup Recs /\ DOMAIN ptr' = Heads \cup Recs
        /\ ptr'[d.ptroff] = d.save /\ Recs' = Recs /\ op' = op /\ c' = c
        /\ (\A r \in Heads \cup Recs : r # d.ptroff => ptr'[r] = ptr[r])
        /\ pc'[p] = "d_unlock" /\ db'[p] = d
    <3>1. PtrDone(p, "d_unlock", d.ptroff, d.save)
      BY <2>1, <2>5, PtrFacts, Zenon
    <3> QED  BY <3>1, Zenon DEF PtrDone
  <2>7. \A r \in Heads \cup Recs : chain'[r] = chain[r]
    <3>1. \A q \in Procs : pc'[q] \notin Unlinking
      BY <2>1, <2>3, <2>6, Zenon DEF Moves
    <3>2. \A r \in Heads \cup Recs : chain'[r] = ptr'[r]
      BY <2>6, <3>1, ChainIs, SMT, Z3 DEF chain
    <3>3. \A r \in Heads \cup Recs : chain[r] = IF r = d.ptroff THEN d.save ELSE ptr[r]
      BY <2>1, <2>2, <2>3, <2>6, ChainIs, SMT, Z3 DEF chain
    <3> QED  BY <2>6, <3>2, <3>3, Zenon
  <2>8. ASSUME NEW o \in Heads PROVE SameList(o) /\ SoundList(chain', idx', o)
    <3>1. \A r \in At(o) : chain'[r] = chain[r]
      BY <2>7, Ptrs, Zenon
    <3> QED  BY <2>1, <2>5, <3>1, PtrList, ZenonT(30)
  <2>9. OneList(c) /\ Chains'
    BY <2>8, Zenon DEF OneList, Chains
  <2>10. Reach(chain', Recs', c) = List(c) /\ idx' = idx
    BY <2>3, <2>8, Zenon DEF SameList, List
  <2>11. ListWrite(p, c, d.ptroff)
    <3>1. \A q \in Alives : Owns(q) => db[q].idxoff \in Recs /\ \A o \in Heads : db[q].idxoff \notin List(o)
      BY Zenon DEF IInv, Local, Owning
    <3>2. c \notin Recs
      BY <2>3, Layout, Zenon
    <3>3. \A q \in Alives : Owns(q) => db[q].idxoff # d.ptroff /\ db[q].idxoff \notin Reach(chain', Recs', c)
      BY <2>3, <2>10, <3>1, <3>2, ZenonT(30) DEF At
    <3> QED  BY <2>3, <2>9, <3>3, Zenon DEF Guards, ListWrite
  <2>12. GoesOn(p, "d_unlock")
    BY <2>1, <2>3, Zenon DEF GoesOn, Pcs, Unlinking, ChainPcs, FreePcs, DatPcs, IdxPcs, NextPcs, ScanPcs,
           DeletePcs, StorePcs
  <2>13. Storing(p)'
    <3>1. \A r \in List(c) : KeyAt(r) # op[p].key
      BY <2>1, Zenon DEF IInv, Local, Storing
    <3>2. \A r \in Reach(chain', Recs', c') : idx'[Rec(r)].key # op'[p].key
      BY <2>6, <2>10, <3>1, ZenonT(30) DEF KeyAt
    <3> QED  BY <2>6, <3>2, Zenon DEF Storing, StorePcs, List, KeyAt
  <2>14. Reaches(p, "d_unlock", d)
    BY <2>13, Zenon DEF Reaches, ReadPcs, WalkPcs, Unlinking, FoundPcs, AbsentPcs, StorePcs,
           TakePcs, OwnPcs, AddPcs
  <2> QED  BY <2>1, <2>5, <2>11, <2>12, <2>14, PtrStep, ZenonT(30)
  \* _db_dodelete writes the free list's head: the record is free.
<1>DeleteHead. ASSUME IInv, NoneHalfDeleted, p \in Alives, pc[p] = "d_head", writeptr(FREE_OFF, db[p].idxoff),
             Goto(p, "d_chain"), UNCHANGED <<idx, dat, locks, db>>, Alive
      PROVE  IInv'
  <2> USE <1>DeleteHead
  <2> DEFINE d == db[p]  c == chainoff(p)  x == db[p].idxoff
  <2>1. /\ pc[p] \in Unlinking /\ pc[p] \notin {"d_free", "d_idx"} /\ "d_chain" \in Pcs
        /\ "d_chain" \in Unlinking /\ Holds(p, "d_chain") /\ pc[p] \in AbsentPcs /\ Owns(p)
        /\ pc[p] \in FreePcs /\ "d_chain" \notin StorePcs
    BY Zenon DEF Holds, AbsentPcs, Owns, Pcs, Unlinking, ChainPcs, FreePcs, DatPcs, IdxPcs, NextPcs, ScanPcs,
           DeletePcs, StorePcs
  <2>2. p \in Procs /\ d \in DbType /\ Writes(p, "d_chain", d)
    BY SameDb, DbFacts, Zenon DEF Writes
  <2>3. /\ \A q \in Procs : q # p => pc[q] \notin Unlinking
        /\ c \in Heads /\ c # FREE_OFF /\ d.ptroff \in At(c) /\ pc[p] \in ChainPcs /\ op[p].name # "fetch"
    BY <2>1, <2>2, Unlinker, UnlinkerAt, ZenonT(30)
  <2>4. /\ x \in Recs /\ (\A o \in Heads : x \notin List(o)) /\ KeyAt(x) = Blank /\ ptr[x] = chain[FREE_OFF]
    <3>1. Local(p)
      BY Zenon DEF IInv
    <3> QED  BY <2>1, <3>1, Zenon DEF Local, Owning
  <2>5. /\ FREE_OFF \in Heads /\ FREE_OFF \notin Recs /\ c \notin Recs /\ At(c) \cap At(FREE_OFF) = {}
        /\ d.ptroff \in Heads \cup Recs
    BY <2>3, Layout, Ptrs, Zenon
  <2>6. d.ptroff # FREE_OFF /\ d.ptroff # x
    BY <2>3, <2>4, <2>5, Zenon DEF At
  <2>7. PtrWritten(p, "d_chain", FREE_OFF, x)
    BY <2>2, <2>4, <2>5, Zenon DEF PtrWritten
  <2>8. /\ Moves(p) /\ DOMAIN ptr = Heads \cup Recs /\ DOMAIN ptr' = Heads \cup Recs
        /\ ptr'[FREE_OFF] = x /\ op' = op /\ chainoff(p)' = c
        /\ (\A r \in Heads \cup Recs : r # FREE_OFF => ptr'[r] = ptr[r])
        /\ pc'[p] = "d_chain" /\ db'[p] = d
    <3>1. PtrDone(p, "d_chain", FREE_OFF, x)
      BY <2>1, <2>7, PtrFacts, Zenon
    <3> QED  BY <3>1, Zenon DEF PtrDone
  <2>9. /\ \A r \in Heads \cup Recs : chain[r] = IF r = d.ptroff THEN d.save ELSE ptr[r]
        /\ \A r \in Heads \cup Recs : chain'[r] = IF r = d.ptroff THEN d.save ELSE ptr'[r]
    <3>1. \A q \in Procs : q # p => pc'[q] \notin Unlinking
      BY <2>3, <2>8, Zenon DEF Moves
    <3>2. pc'[p] \in Unlinking
      BY <2>1, <2>8, ZenonT(30)
    <3>3. \A r \in Heads \cup Recs : chain[r] = IF r = d.ptroff THEN d.save ELSE ptr[r]
      BY <2>1, <2>2, <2>3, <2>8, ChainIs, SMT, Z3 DEF chain
    <3>4. \A r \in Heads \cup Recs : chain'[r] = IF r = db'[p].ptroff THEN db'[p].save ELSE ptr'[r]
      BY <2>2, <2>8, <3>1, <3>2, ChainIs, SMT, Z3 DEF chain
    <3> QED  BY <2>8, <3>3, <3>4, Zenon
  <2>10. /\ chain'[FREE_OFF] = x /\ chain'[x] = chain[FREE_OFF]
         /\ \A r \in Heads \cup Recs : r # FREE_OFF /\ r # x => chain'[r] = chain[r]
    BY <2>4, <2>5, <2>6, <2>8, <2>9, ZenonT(30)
  <2>11. Pushes(p, "d_chain", FREE_OFF)
    BY <2>1, <2>4, <2>5, <2>7, <2>10, ZenonT(30) DEF Pushes, Guards
  <2>12. ListWrite(p, FREE_OFF, FREE_OFF)
    BY <2>1, <2>11, PushLists, Zenon
  <2>13. SameList(c)
    BY <2>3, <2>12, Zenon DEF ListWrite, OneList
  <2>14. Storing(p)'
    BY <2>1, <2>8, <2>13, StoringKept, Zenon
  <2>15. Walking(p)'
    <3>1. d.ptroff \in Reach(chain', Recs', c) \cup {c}
      <4>1. \A o \in Heads : o # FREE_OFF => Reach(chain', Recs', o) = List(o)
        BY <2>12, Zenon DEF ListWrite, OneList, SameList, List
      <4> QED  BY <2>3, <4>1, Zenon DEF At
    <3>2. db'[p].ptroff \in At(chainoff(p))'
      BY <2>8, <3>1, Zenon DEF At, List
    <3> QED  BY <2>8, <3>2, Zenon DEF Walking, FoundPcs
  <2>16. GoesOn(p, "d_chain")
    BY <2>1, <2>3, Zenon DEF GoesOn, Pcs, Unlinking, ChainPcs, FreePcs, DatPcs, IdxPcs, NextPcs, ScanPcs,
           DeletePcs, StorePcs
  <2>17. Reaches(p, "d_chain", d)
    BY <2>14, <2>15, ZenonT(30) DEF Reaches, ReadPcs, WalkPcs, Unlinking, FoundPcs, AbsentPcs, StorePcs,
           TakePcs, OwnPcs, AddPcs
  <2> QED  BY <2>1, <2>7, <2>12, <2>16, <2>17, PtrStep, ZenonT(30)
  \* _db_dodelete writes the blank record: for the others it is still on its chain, but
  \* no more than the last write is left to take it off.
<1>DeleteIdx. ASSUME IInv, NoneHalfDeleted, p \in Alives, pc[p] = "d_idx", writeidx(db[p], Blank, db[p].ptr),
             Goto(p, "d_head"), Set(p, [db[p] EXCEPT !.ptrval = db[p].ptr]), UNCHANGED <<dat, locks>>, Alive
      PROVE  IInv'
  <2> USE <1>DeleteIdx
  <2> DEFINE d == db[p]  c == chainoff(p)  x == d.idxoff  a == d.ptroff  e == [d EXCEPT !.ptrval = d.ptr]
  <2>1. /\ pc[p] \in FoundPcs /\ pc[p] \in FreePcs /\ pc[p] \in ChainPcs /\ "d_head" \in Pcs
        /\ "d_head" \in Unlinking /\ Holds(p, "d_head") /\ Unlinking \subseteq FreePcs /\ pc[p] \in DeletePcs
        /\ pc[p] \notin Unlinking /\ "n_dat" \in ScanPcs
    BY Zenon DEF Holds, FoundPcs, Pcs, Unlinking, ChainPcs, FreePcs, DatPcs, IdxPcs, NextPcs, ScanPcs,
           DeletePcs, StorePcs
  <2>2. /\ c \in Heads /\ c # FREE_OFF /\ Read(p) /\ x \in List(c) /\ x \in Recs /\ x # 0
        /\ KeyAt(x) = op[p].key /\ a \in At(c) /\ chain[a] = x /\ d.ptrval = chain[x] /\ d \in DbType
    BY <2>1, FoundFacts, Zenon
  <2>3. d.ptr = chain[FREE_OFF] /\ d.save = chain[x] /\ op[p].name # "fetch"
    <3>1. Local(p)
      BY Zenon DEF IInv
    <3> QED  BY <2>1, <2>2, <3>1, Zenon DEF Local, Walking, Calling
  <2>4. d.ptr \in {0} \cup Recs
    BY <2>2, Zenon DEF DbType
  <2>5. e \in DbType /\ e.ptroff = a /\ e.save = chain[x] /\ e.idxoff = x
    BY <2>2, <2>3, <2>4, Zenon DEF DbType
  <2>6. Writes(p, "d_head", e)
    BY Zenon DEF Writes
  <2> HIDE DEF e
  <2>7. IdxWritten(p, "d_head", e, Blank, d.ptr)
    BY <2>2, <2>4, <2>5, <2>6, Zenon DEF IdxWritten
  <2>8. /\ Types' /\ Moves(p) /\ Recs' = Recs /\ Len(idx') = Len(idx) /\ ptr'[x] = d.ptr
        /\ DOMAIN ptr = Heads \cup Recs /\ DOMAIN ptr' = Heads \cup Recs
        /\ (\A r \in Heads \cup Recs : r # x => ptr'[r] = ptr[r])
        /\ (\A r \in Recs : r # x => idx'[Rec(r)].key = idx[Rec(r)].key)
        /\ idx'[Rec(x)].key = Blank /\ pc'[p] = "d_head" /\ db'[p] = e /\ op' = op /\ chainoff(p)' = c
    <3>1. IdxDone(p, "d_head", e, Blank, d.ptr)
      BY <2>1, <2>7, IdxFacts, Zenon
    <3> QED  BY <3>1, Zenon DEF IdxDone
  <2>9. p \in Procs /\ \A q \in Procs : pc[q] \notin Unlinking
    <3>1. \A q \in Alives : pc[q] \notin Unlinking
      BY <2>1, Exclusion, Zenon
    <3> QED  BY <3>1, Zenon DEF NoneHalfDeleted, Alives, Unlinking
  <2>10. /\ \A r \in Heads \cup Recs : chain[r] = ptr[r]
         /\ \A r \in Heads \cup Recs : chain'[r] = IF r = a THEN chain[x] ELSE ptr'[r]
    <3>1. \A r \in Heads \cup Recs : chain[r] = ptr[r]
      BY <2>8, <2>9, ChainIs, SMT, Z3 DEF chain
    <3>2. pc'[p] \in Unlinking /\ \A q \in Procs : q # p => pc'[q] \notin Unlinking
      BY <2>1, <2>8, <2>9, Zenon DEF Moves
    <3>3. \A r \in Heads \cup Recs : chain'[r] = IF r = db'[p].ptroff THEN db'[p].save ELSE ptr'[r]
      BY <2>8, <2>9, <3>2, ChainIs, SMT, Z3 DEF chain
    <3> QED  BY <2>5, <2>8, <3>1, <3>3, Zenon
  <2>11. /\ List(c) \subseteq Recs /\ c \notin Recs /\ FREE_OFF \in Heads /\ FREE_OFF \notin Recs
         /\ \A o \in Heads : o # c => At(o) \cap At(c) = {}
    BY <2>2, Layout, Ptrs, Zenon
  <2>12. \A r \in Heads \cup Recs : r # a /\ r # x => chain'[r] = chain[r]
    BY <2>8, <2>10, Zenon
  <2>13. OffList(chain, chain', idx, idx', c, a)
    <3>1. Closed(chain, Places(idx), c) /\ 0 \notin Places(idx) /\ c \notin Places(idx)
      BY <2>2, Layout, Zenon DEF Recs
    <3>2. Places(idx') = Places(idx)
      BY <2>8, Zenon DEF Places
    <3>3. Closed(chain', Places(idx), c)
      <4>1. Closed(chain', Recs', c)
        BY <2>2, <2>8, TypesLinks, ZenonT(30)
      <4> QED  BY <2>8, <4>1, Zenon DEF Recs
    <3>4. SoundList(chain, idx, c)
      BY <2>2, Zenon DEF IInv, Chains
    <3>5. a \in Reach(chain, Places(idx), c) \cup {c}
      BY <2>2, Zenon DEF At, List, Recs
    <3>6. a \in Heads \cup Recs
      BY <2>2, Ptrs, Zenon
    <3>7. chain[a] # 0 /\ chain'[a] = chain[chain[a]]
      BY <2>2, <2>10, <3>6, ZenonT(30)
    <3>8. \A r \in Reach(chain, Places(idx), c) \cup {c} : r # a /\ r # chain[a] => chain'[r] = chain[r]
      BY <2>2, <2>11, <2>12, Zenon DEF List, Recs
    <3>9. \A r \in Reach(chain, Places(idx), c) : r # chain[a] => idx'[Rec(r)].key = idx[Rec(r)].key
      BY <2>2, <2>8, <2>11, ZenonT(30) DEF List, Recs
    <3>10. TakenOff(chain, chain', idx, idx', c, a)
      BY <3>1, <3>2, <3>3, <3>4, <3>5, <3>7, <3>8, <3>9, Zenon DEF TakenOff
    <3> QED  BY <3>10, UnlinkSound, Zenon
  <2>14. Reach(chain', Recs', c) = List(c) \ {x} /\ SoundList(chain', idx', c) /\ a # x
    BY <2>2, <2>8, <2>13, Zenon DEF OffList, List, Recs
  <2>15. ASSUME NEW o \in Heads, o # c PROVE SameList(o) /\ SoundList(chain', idx', o) /\ x \notin At(o)
    <3>1. x \notin At(o) /\ a \notin At(o)
      BY <2>2, <2>11, <2>15, Zenon DEF At
    <3>2. \A r \in At(o) : r \in Heads \cup Recs
      BY Ptrs, Zenon
    <3>3. \A r \in At(o) : chain'[r] = chain[r]
      BY <2>12, <3>1, <3>2, Zenon
    <3>4. \A r \in List(o) : idx'[Rec(r)].key = idx[Rec(r)].key
      <4>1. List(o) \subseteq Recs
        BY Layout, Zenon
      <4> QED  BY <2>8, <3>1, <4>1, Zenon DEF At
    <3>5. Recs \subseteq Recs'
      BY <2>8, Zenon
    <3> QED  BY <2>8, <3>1, <3>3, <3>4, <3>5, ListKept, ZenonT(30)
  <2>16. \A q \in Alives : q # p => (Owns(q) => db[q].idxoff # x) /\ pc[q] # "n_dat"
    <3>1. \A q \in Alives : Owns(q) => db[q].idxoff # x
      BY <2>2, Zenon DEF IInv, Local, Owning
    <3>2. \A q \in Alives : q # p => pc[q] \notin ScanPcs
      BY <2>1, Exclusion, Zenon
    <3> QED  BY <2>1, <3>1, <3>2, Zenon
  <2>17. Spares(p, c)
    <3>1. OneList(c) /\ Chains'
      BY <2>2, <2>14, <2>15, Zenon DEF OneList, Chains
    <3>2. Reach(chain', Recs', c) \subseteq List(c) /\ Guards(p, c)
      BY <2>1, <2>3, <2>14, Zenon DEF Guards
    <3> QED  BY <2>2, <2>16, <3>1, <3>2, Zenon DEF Spares
  <2>18. Walking(p)'
    <3>1. a \in Reach(chain', Recs', c) \cup {c}
      BY <2>2, <2>14, Zenon DEF At
    <3>2. db'[p].ptroff \in At(chainoff(p))'
      BY <2>5, <2>8, <3>1, Zenon DEF At, List
    <3> QED  BY <2>8, <3>2, Zenon DEF Walking, FoundPcs
  <2>19. Storing(p)'
    <3>1. \A r, s \in List(c) : KeyAt(r) = KeyAt(s) => r = s
      BY <2>2, Zenon DEF IInv, Chains, SoundList, KeyAt, List, Recs
    <3>2. \A r \in List(c) \ {x} : idx'[Rec(r)].key # op[p].key
      BY <2>2, <2>8, <2>11, <3>1, Zenon DEF KeyAt
    <3>3. \A r \in Reach(chain', Recs', chainoff(p)') : idx'[Rec(r)].key # op'[p].key
      BY <2>8, <2>14, <3>2, Zenon
    <3> QED  BY <2>8, <3>3, Zenon DEF Storing, StorePcs, List, KeyAt
  <2>20. Owning(p)'
    <3>1. \A o \in Heads : x \notin Reach(chain', Recs', o)
      <4>1. \A o \in Heads : o # c => Reach(chain', Recs', o) = List(o) /\ x \notin List(o)
        BY <2>15, Zenon DEF SameList, List, At
      <4> QED  BY <2>14, <4>1, Zenon
    <3>2. chain'[FREE_OFF] = chain[FREE_OFF]
      <4>1. FREE_OFF # a /\ FREE_OFF # x
        BY <2>2, <2>11, Zenon DEF At
      <4> QED  BY <2>11, <2>12, <4>1, Zenon
    <3>3. db'[p].idxoff \in Recs' /\ \A o \in Heads : db'[p].idxoff \notin List(o)'
      BY <2>2, <2>5, <2>8, <3>1, Zenon DEF List
    <3>4. idx'[Rec(db'[p].idxoff)].key = Blank /\ ptr'[db'[p].idxoff] = chain'[FREE_OFF]
      BY <2>3, <2>5, <2>8, <3>2, Zenon
    <3> QED  BY <2>8, <3>3, <3>4, Zenon DEF Owning, KeyAt
  <2>21. GoesOn(p, "d_head")
    BY <2>1, <2>3, Zenon DEF GoesOn, Pcs, Unlinking, ChainPcs, FreePcs, DatPcs, IdxPcs, NextPcs, ScanPcs,
           DeletePcs, StorePcs
  <2>22. Reaches(p, "d_head", e)
    BY <2>5, <2>16, <2>18, <2>19, <2>20, Zenon DEF Reaches, ReadPcs, WalkPcs, Unlinking, FoundPcs, AbsentPcs, StorePcs,
           TakePcs, OwnPcs, AddPcs
  <2> QED  BY <2>1, <2>7, <2>17, <2>21, <2>22, IdxStep, ZenonT(30)
<1>1. p \in Alives /\ Alive
  BY Zenon DEF DoDelete, Alives
<1>2. CASE pc[p] = "d_lock" /\ Lock(p, FREE_OFF, TRUE) /\ Goto(p, "d_dat") /\ UNCHANGED <<files, db>>
  BY <1>1, <1>2, <1>DeleteLock, Zenon
<1>3. CASE pc[p] = "d_dat" /\ writedat(db[p], Blank) /\ Goto(p, "d_free") /\ UNCHANGED <<ptr, idx, locks, db>>
  BY <1>1, <1>3, <1>DeleteDat, Zenon
<1>4. CASE /\ pc[p] = "d_free" /\ Goto(p, "d_idx")
           /\ Set(p, [db[p] EXCEPT !.ptr = ptr[FREE_OFF], !.save = db[p].ptrval])
           /\ UNCHANGED <<files, locks>>
  BY <1>1, <1>4, <1>DeleteFree, Zenon
<1>5. CASE /\ pc[p] = "d_idx" /\ writeidx(db[p], Blank, db[p].ptr) /\ Goto(p, "d_head")
           /\ Set(p, [db[p] EXCEPT !.ptrval = db[p].ptr]) /\ UNCHANGED <<dat, locks>>
  BY <1>1, <1>5, <1>DeleteIdx, Zenon
<1>6. CASE /\ pc[p] = "d_head" /\ writeptr(FREE_OFF, db[p].idxoff) /\ Goto(p, "d_chain")
           /\ UNCHANGED <<idx, dat, locks, db>>
  BY <1>1, <1>6, <1>DeleteHead, Zenon
<1>7. CASE /\ pc[p] = "d_chain" /\ writeptr(db[p].ptroff, db[p].save) /\ Goto(p, "d_unlock")
           /\ UNCHANGED <<idx, dat, locks, db>>
  BY <1>1, <1>7, <1>DeleteChain, Zenon
<1>8. CASE /\ pc[p] = "d_unlock" /\ un_lock(p, FREE_OFF)
           /\ Goto(p, IF op[p].name = "delete" THEN "unlock" ELSE "reptr") /\ UNCHANGED <<files, db>>
  BY <1>1, <1>8, <1>DeleteUnlock, Zenon
<1> QED  BY <1>2, <1>3, <1>4, <1>5, <1>6, <1>7, <1>8, ZenonT(30) DEF DoDelete

\* _db_findfree keeps the invariant.
LEMMA FreeKeeps ==
  ASSUME IInv, NoneHalfDeleted, NEW p \in Procs, FindFree(p)
  PROVE  IInv'
  \* The search of the free list goes on, or ends without a record.
<1>FreeWalk. ASSUME IInv, p \in Alives, pc[p] \in {"f_ptr", "f_body"}, NEW e \in DbType, WalkFree(p, e),
             e.ptroff \in At(FREE_OFF), e.ptr = chain[e.ptroff], e.save = db[p].save,
             UNCHANGED <<files, locks>>, Alive
      PROVE  IInv'
  <2> USE <1>FreeWalk
  <2> DEFINE v == IF e.ptr = 0 THEN "f_unlock" ELSE "f_hdr"
  <2>1. Quiet(p, v, e) /\ locks' = locks
    BY Zenon DEF Quiet, WalkFree
  <2>2. v \in {"f_unlock", "f_hdr"} /\ (v = "f_unlock" => e.ptr = 0) /\ (v = "f_hdr" => e.ptr # 0)
    BY Zenon
  <2> HIDE DEF v
  <2>3. Holds(p, v) /\ v \in Pcs \ Unlinking /\ pc[p] \notin Unlinking
    BY <2>2, Zenon DEF Holds, Pcs, Unlinking, ChainPcs, FreePcs, DatPcs, IdxPcs, NextPcs, ScanPcs,
           DeletePcs, StorePcs
  <2>4. pc[p] \in StorePcs \ {"r_dat", "ptr", "reptr"} /\ pc[p] \in AbsentPcs
    BY Zenon DEF StorePcs, AbsentPcs
  <2>5. GoesOn(p, v)
    <3>1. op[p].name \in {"insert", "replace", "store"}
      BY <2>4, CallingIs, Zenon
    <3> QED  BY <2>2, <3>1, Zenon DEF GoesOn, Pcs, Unlinking, ChainPcs, FreePcs, DatPcs, IdxPcs, NextPcs, ScanPcs,
           DeletePcs, StorePcs
  <2>6. pc'[p] = v /\ db'[p] = e /\ Unmoved(p)
    BY <2>1, <2>3, PrivateUnmoved, Zenon
  <2>7. Arrives(p, v, e)
    <3>1. Storing(p)'
      BY <2>4, <2>6, SaveIs, StoringStays, ZenonT(30)
    <3>2. v = "f_hdr" => Freeing(p)'
      <4>1. v = "f_hdr" => e.ptr \in Recs
        BY <2>2, Ptrs, WalkFacts, Zenon
      <4> QED  BY <2>6, <4>1, Zenon DEF Freeing, Unmoved
    <3>3. v = "f_unlock" => Reading(p)' /\ Owning(p)' /\ ~Owns(p)'
      BY <2>2, <2>6, Zenon DEF Reading, Owning, Owns, FoundPcs
    <3> QED  BY <2>2, <3>1, <3>2, <3>3, Zenon DEF Arrives, Unlinking, ReadPcs, WalkPcs, FoundPcs, AbsentPcs, StorePcs,
           TakePcs, OwnPcs, AddPcs
  <2> QED  BY <2>1, <2>3, <2>5, <2>7, PrivateStep, Zenon
  \* _db_findfree reads the head of the free list.
<1>FreePtr. ASSUME IInv, NoneHalfDeleted, p \in Alives, pc[p] = "f_ptr",
             WalkFree(p, [db[p] EXCEPT !.ptroff = FREE_OFF, !.ptr = ptr[FREE_OFF]]),
             UNCHANGED <<files, locks>>, Alive
      PROVE  IInv'
  <2> USE <1>FreePtr
  <2> DEFINE d == db[p]  e == [d EXCEPT !.ptroff = FREE_OFF, !.ptr = ptr[FREE_OFF]]
  <2>1. FREE_OFF \in Heads /\ FREE_OFF \in At(FREE_OFF)
    BY Ptrs, Zenon DEF At
  <2>2. /\ d \in DbType /\ ptr[FREE_OFF] \in {0} \cup Recs /\ ptr[FREE_OFF] = chain[FREE_OFF]
        /\ FREE_OFF \in 0 .. nhash + Len(idx)
    BY <2>1, DbFacts, Ptrs, FreeChain, Zenon
  <2>3. e \in DbType /\ e.ptroff = FREE_OFF /\ e.ptr = chain[FREE_OFF] /\ e.save = d.save
    BY <2>2, Zenon DEF DbType
  <2>4. WalkFree(p, e)
    BY Zenon
  <2> HIDE DEF e
  <2> QED  BY <2>1, <2>3, <2>4, <1>FreeWalk, Zenon
  \* _db_findfree is at a record of the free list, behind the place that leads to it.
<1>FreeFacts. ASSUME IInv, NoneHalfDeleted, p \in Alives, pc[p] \in {"f_hdr", "f_body", "f_take"}
      PROVE  LET d == db[p] IN
             /\ d \in DbType /\ d.ptroff \in At(FREE_OFF) /\ d.ptr \in Recs /\ d.ptr # 0
             /\ chain[d.ptroff] = d.ptr /\ d.ptr \in At(FREE_OFF) /\ d.ptr \in List(FREE_OFF)
             /\ ptr[d.ptr] = chain[d.ptr]
             /\ chain[d.ptr] \in {0} \cup Recs /\ d.save = chain[chainoff(p)]
             /\ pc[p] # "f_hdr" => d.idxoff = d.ptr /\ d.ptrval = chain[d.ptr]
  <2> USE <1>FreeFacts
  <2> DEFINE d == db[p]
  <2>1. d \in DbType
    BY DbFacts, Zenon
  <2>2. /\ d.ptroff \in At(FREE_OFF) /\ d.ptr \in Recs /\ chain[d.ptroff] = d.ptr
        /\ pc[p] # "f_hdr" => d.idxoff = d.ptr /\ d.ptrval = chain[d.ptr]
    <3>1. Freeing(p)
      BY Zenon DEF IInv, Local
    <3> QED  BY <3>1, Zenon DEF Freeing
  <2>3. d.ptr # 0
    BY <2>2, Ptrs, Zenon
  <2>4. d.ptr \in At(FREE_OFF) /\ d.ptr \in List(FREE_OFF)
    BY <2>2, <2>3, Ptrs, WalkFacts, Zenon
  <2>5. ptr[d.ptr] = chain[d.ptr]
    BY <2>4, FreeChain, Zenon
  <2>6. chain[d.ptr] \in {0} \cup Recs
    BY <2>2, Ptrs, Zenon
  <2>7. d.save = chain[chainoff(p)]
    BY SaveIs, Zenon DEF StorePcs
  <2> QED  BY <2>1, <2>2, <2>3, <2>4, <2>5, <2>6, <2>7, Zenon
  \* _db_findfree reads a free record's ptr and length ...
<1>FreeHdr. ASSUME IInv, NoneHalfDeleted, p \in Alives, pc[p] = "f_hdr", Goto(p, "f_body"),
             Set(p, ReadHeader(db[p], db[p].ptr)), UNCHANGED <<files, locks>>, Alive
      PROVE  IInv'
  <2> USE <1>FreeHdr
  <2> DEFINE d == db[p]  x == d.ptr  e == ReadHeader(d, x)
  <2>1. /\ d \in DbType /\ d.ptroff \in At(FREE_OFF) /\ x \in Recs /\ chain[d.ptroff] = x
        /\ ptr[x] = chain[x] /\ chain[x] \in {0} \cup Recs /\ d.save = chain[chainoff(p)]
    BY <1>FreeFacts, Zenon
  <2>2. /\ e \in DbType /\ e.idxoff = x /\ e.ptrval = ptr[x] /\ e.idxlen = Shape(idx[Rec(x)])
        /\ e.ptr = x /\ e.ptroff = d.ptroff /\ e.save = d.save
    <3>1. x \in Nat /\ Shape(idx[Rec(x)]) \in Nat \X Nat \X Nat
      BY <2>1, DbFacts, Zenon
    <3> QED  BY <2>1, <3>1, Zenon DEF ReadHeader, DbType
  <2>3. Quiet(p, "f_body", e) /\ locks' = locks
    BY Zenon DEF Quiet
  <2> HIDE DEF e
  <2>4. Holds(p, "f_body") /\ "f_body" \in Pcs \ Unlinking /\ pc[p] \notin Unlinking
    BY Zenon DEF Holds, Pcs, Unlinking, ChainPcs, FreePcs, DatPcs, IdxPcs, NextPcs, ScanPcs,
           DeletePcs, StorePcs
  <2>5. pc[p] \in StorePcs \ {"r_dat", "ptr", "reptr"} /\ pc[p] \in AbsentPcs
    BY Zenon DEF StorePcs, AbsentPcs
  <2>6. GoesOn(p, "f_body")
    <3>1. op[p].name \in {"insert", "replace", "store"}
      BY <2>5, CallingIs, Zenon
    <3> QED  BY <3>1, Zenon DEF GoesOn, Pcs, Unlinking, ChainPcs, FreePcs, DatPcs, IdxPcs, NextPcs, ScanPcs,
           DeletePcs, StorePcs
  <2>7. pc'[p] = "f_body" /\ db'[p] = e /\ Unmoved(p)
    BY <2>2, <2>3, <2>4, PrivateUnmoved, ZenonT(30)
  <2>8. Arrives(p, "f_body", e)
    <3>1. Storing(p)'
      BY <2>1, <2>2, <2>5, <2>7, StoringStays, ZenonT(30)
    <3>2. Reading(p)'
      BY <2>1, <2>2, <2>7, ZenonT(30) DEF Reading, FoundPcs, Shape, Unmoved
    <3>3. Freeing(p)'
      BY <2>1, <2>2, <2>7, Zenon DEF Freeing, Unmoved
    <3> QED  BY <3>1, <3>2, <3>3, Zenon DEF Arrives, Unlinking, ReadPcs, WalkPcs, FoundPcs, AbsentPcs, StorePcs,
           TakePcs, OwnPcs, AddPcs
  <2> QED  BY <2>2, <2>3, <2>4, <2>6, <2>8, PrivateStep, Zenon
  \* ... and the record: it is taken when its lengths are right, or the next one is looked at.
<1>FreeBody. ASSUME IInv, NoneHalfDeleted, p \in Alives, pc[p] = "f_body", NEW d, d = ReadRecord(db[p]),
             IF d.keylen = KeyLen[op[p].key] /\ d.datlen = DatLen[op[p].data]
               THEN Goto(p, "f_take") /\ Set(p, d)
               ELSE WalkFree(p, [d EXCEPT !.ptroff = d.ptr, !.ptr = d.ptrval]),
             UNCHANGED <<files, locks>>, Alive
      PROVE  IInv'
  <2> USE <1>FreeBody
  <2> DEFINE x == db[p].ptr
  <2>1. /\ db[p] \in DbType /\ db[p].ptroff \in At(FREE_OFF) /\ x \in Recs /\ chain[db[p].ptroff] = x
        /\ x \in At(FREE_OFF) /\ chain[x] \in {0} \cup Recs /\ db[p].save = chain[chainoff(p)]
        /\ db[p].idxoff = x /\ db[p].ptrval = chain[x]
    BY <1>FreeFacts, Zenon
  <2>2. /\ d \in DbType /\ d.keylen = idx[Rec(x)].keylen /\ d.idxoff = x
        /\ d.datoff = idx[Rec(x)].datoff /\ d.datlen = idx[Rec(x)].datlen
        /\ d.ptroff = db[p].ptroff /\ d.ptr = x /\ d.ptrval = chain[x] /\ d.save = db[p].save
    <3>1. /\ idx[Rec(x)].key \in Keys \cup {Blank, NULL} /\ idx[Rec(x)].keylen \in Nat
          /\ idx[Rec(x)].datoff \in Nat /\ idx[Rec(x)].datlen \in Nat
      BY <2>1, DbFacts, Zenon
    <3>2. d = [db[p] EXCEPT !.key = idx[Rec(x)].key, !.keylen = idx[Rec(x)].keylen,
                            !.datoff = idx[Rec(x)].datoff, !.datlen = idx[Rec(x)].datlen]
      BY <2>1, Zenon DEF ReadRecord
    <3>3. /\ d \in DbType /\ d.keylen = idx[Rec(x)].keylen /\ d.idxoff = db[p].idxoff
          /\ d.datoff = idx[Rec(x)].datoff /\ d.datlen = idx[Rec(x)].datlen
          /\ d.ptroff = db[p].ptroff /\ d.ptr = db[p].ptr /\ d.ptrval = db[p].ptrval /\ d.save = db[p].save
      <4>1. db[p] \in DbType
        BY <2>1, Zenon
      <4> QED  BY <3>1, <3>2, <4>1, ZenonT(30) DEF DbType
    <3> QED  BY <2>1, <3>3, Zenon
  <2>3. CASE Goto(p, "f_take") /\ Set(p, d)
    <3>1. Quiet(p, "f_take", d) /\ locks' = locks
      BY <2>3, Zenon DEF Quiet
    <3>2. Holds(p, "f_take") /\ "f_take" \in Pcs \ Unlinking /\ pc[p] \notin Unlinking
      BY Zenon DEF Holds, Pcs, Unlinking, ChainPcs, FreePcs, DatPcs, IdxPcs, NextPcs, ScanPcs,
           DeletePcs, StorePcs
    <3>3. pc[p] \in StorePcs \ {"r_dat", "ptr", "reptr"} /\ pc[p] \in AbsentPcs
      BY Zenon DEF StorePcs, AbsentPcs
    <3>4. GoesOn(p, "f_take")
      <4>1. op[p].name \in {"insert", "replace", "store"}
        BY <3>3, CallingIs, Zenon
      <4> QED  BY <4>1, Zenon DEF GoesOn, Pcs, Unlinking, ChainPcs, FreePcs, DatPcs, IdxPcs, NextPcs, ScanPcs,
           DeletePcs, StorePcs
    <3>5. pc'[p] = "f_take" /\ db'[p] = d /\ Unmoved(p)
      BY <2>2, <3>1, <3>2, PrivateUnmoved, Zenon
    <3>6. Arrives(p, "f_take", d)
      <4>1. Storing(p)'
        BY <2>1, <2>2, <3>3, <3>5, StoringStays, Zenon
      <4>2. Reading(p)'
        <5>1. Read(p)'
          BY <2>1, <2>2, <3>5, Zenon DEF Read, Unmoved
        <5> QED  BY <3>5, <5>1, Zenon DEF Reading
      <4>3. Freeing(p)'
        BY <2>1, <2>2, <3>5, Zenon DEF Freeing, Unmoved
      <4> QED  BY <4>1, <4>2, <4>3, Zenon DEF Arrives, Unlinking, ReadPcs, WalkPcs, FoundPcs, AbsentPcs, StorePcs,
           TakePcs, OwnPcs, AddPcs
    <3> QED  BY <2>2, <3>1, <3>2, <3>4, <3>6, PrivateStep, Zenon
  <2>4. CASE WalkFree(p, [d EXCEPT !.ptroff = d.ptr, !.ptr = d.ptrval])
    <3> DEFINE e == [d EXCEPT !.ptroff = d.ptr, !.ptr = d.ptrval]
    <3>1. WalkFree(p, e)
      BY <2>4, Zenon
    <3>2. d \in DbType /\ x \in 0 .. nhash + Len(idx) /\ d.ptr = x /\ d.ptrval = chain[x]
          /\ chain[x] \in {0} \cup Recs
      BY <2>1, <2>2, DbFacts, Zenon
    <3>3. e \in DbType /\ e.ptroff = x /\ e.ptr = chain[x] /\ e.save = d.save
      BY <3>2, ZenonT(30) DEF DbType
    <3> HIDE DEF e
    <3> QED  BY <2>1, <2>2, <3>1, <3>3, <1>FreeWalk, Zenon
  <2> QED  BY <2>3, <2>4, Zenon
  \* _db_findfree takes a record off the free list: it is the process's own.
<1>FreeTake. ASSUME IInv, NoneHalfDeleted, p \in Alives, pc[p] = "f_take", writeptr(db[p].ptroff, db[p].ptrval),
             Goto(p, "f_unlock"), UNCHANGED <<idx, dat, locks, db>>, Alive
      PROVE  IInv'
  <2> USE <1>FreeTake
  <2> DEFINE d == db[p]  c == chainoff(p)  x == db[p].ptr  a == db[p].ptroff  L == List(FREE_OFF)
  <2>1. /\ pc[p] \notin Unlinking /\ pc[p] \notin {"d_free", "d_idx"} /\ "f_unlock" \in Pcs
        /\ "f_unlock" \notin Unlinking /\ Holds(p, "f_unlock") /\ pc[p] \in AbsentPcs
        /\ pc[p] \in FreePcs /\ pc[p] \in StorePcs /\ Unlinking \subseteq FreePcs
    BY Zenon DEF Holds, AbsentPcs, Pcs, Unlinking, ChainPcs, FreePcs, DatPcs, IdxPcs, NextPcs, ScanPcs,
           DeletePcs, StorePcs
  <2>2. /\ d \in DbType /\ a \in At(FREE_OFF) /\ x \in Recs /\ x # 0 /\ chain[a] = x /\ x \in L
        /\ chain[x] \in {0} \cup Recs /\ d.save = chain[c] /\ d.idxoff = x /\ d.ptrval = chain[x]
    BY <1>FreeFacts, Zenon
  <2>3. /\ FREE_OFF \in Heads /\ FREE_OFF \notin Recs /\ a \in Heads \cup Recs /\ L \subseteq Recs
        /\ \A o \in Heads : o # FREE_OFF => At(o) \cap At(FREE_OFF) = {}
    BY <2>2, Layout, Ptrs, Zenon
  <2>4. Writes(p, "f_unlock", d)
    BY SameDb, Zenon DEF Writes
  <2>5. PtrWritten(p, "f_unlock", a, chain[x])
    BY <2>2, <2>3, <2>4, Zenon DEF PtrWritten
  <2>6. /\ Types' /\ Moves(p) /\ DOMAIN ptr = Heads \cup Recs /\ DOMAIN ptr' = Heads \cup Recs
        /\ ptr'[a] = chain[x] /\ op' = op /\ chainoff(p)' = c /\ Recs' = Recs /\ idx' = idx
        /\ (\A r \in Heads \cup Recs : r # a => ptr'[r] = ptr[r])
        /\ pc'[p] = "f_unlock" /\ db'[p] = d
    <3>1. PtrDone(p, "f_unlock", a, chain[x])
      BY <2>1, <2>5, PtrFacts, Zenon
    <3> QED  BY <3>1, Zenon DEF PtrDone
  <2>7. chain'[a] = chain[x] /\ \A r \in Heads \cup Recs : r # a => chain'[r] = chain[r]
    <3>1. /\ \A r \in Heads \cup Recs : ptr'[r] = ptr[r] => chain'[r] = chain[r]
          /\ \A r \in Heads \cup Recs :
               (\A q \in Alives : pc[q] \in Unlinking => r \notin At(chainoff(q))) => chain'[r] = ptr'[r]
      BY <2>1, <2>6, ChainKept, Zenon
    <3>2. \A q \in Alives : pc[q] \notin Unlinking
      BY <2>1, Exclusion, Zenon
    <3> QED  BY <2>3, <2>6, <3>1, <3>2, ZenonT(30)
  <2>8. ASSUME NEW o \in Heads, o # FREE_OFF PROVE SameList(o) /\ SoundList(chain', idx', o)
    <3>1. \A r \in At(o) : r \in Heads \cup Recs /\ r # a
      BY <2>2, <2>3, <2>8, Ptrs, Zenon
    <3>2. \A r \in At(o) : chain'[r] = chain[r]
      BY <2>7, <3>1, Zenon
    <3> QED  BY <2>1, <2>5, <3>2, PtrList, Zenon
  <2>9. Reach(chain', Places(idx), FREE_OFF) = L \ {x} /\ SoundList(chain', idx, FREE_OFF)
    <3>2. Closed(chain, Places(idx), FREE_OFF) /\ 0 \notin Places(idx) /\ FREE_OFF \notin Places(idx)
      BY <2>3, Layout, Zenon DEF Recs
    <3>3. Closed(chain', Places(idx), FREE_OFF)
      <4>1. Closed(chain', Recs', FREE_OFF)
        BY <2>3, <2>6, TypesLinks, Zenon
      <4> QED  BY <2>6, <4>1, Zenon DEF Recs
    <3>4. SoundList(chain, idx, FREE_OFF)
      BY <2>3, Zenon DEF IInv, Chains
    <3>5. a \in Reach(chain, Places(idx), FREE_OFF) \cup {FREE_OFF}
      BY <2>2, Zenon DEF At, List, Recs
    <3>6. \A r \in Reach(chain, Places(idx), FREE_OFF) \cup {FREE_OFF} : r # a => chain'[r] = chain[r]
      BY <2>3, <2>7, Zenon DEF List, Recs
    <3>7. TakenOff(chain, chain', idx, idx, FREE_OFF, a)
      BY <2>2, <2>7, <3>2, <3>3, <3>4, <3>5, <3>6, Zenon DEF TakenOff
    <3>8. OffList(chain, chain', idx, idx, FREE_OFF, a)
      BY <3>7, UnlinkSound, Zenon
    <3> QED  BY <2>2, <3>8, Zenon DEF OffList, List, Recs
  <2>10. OneList(FREE_OFF) /\ Chains'
    BY <2>6, <2>8, <2>9, Zenon DEF OneList, Chains
  <2>11. \A q \in Alives : q # p /\ Owns(q) => db[q].idxoff \in Recs /\ db[q].idxoff \notin L
    BY <2>3, Zenon DEF IInv, Local, Owning
  <2>12. ListWrite(p, FREE_OFF, a)
    <3>1. Reach(chain', Recs', FREE_OFF) \subseteq L
      BY <2>6, <2>9, Zenon DEF Recs
    <3>2. \A q \in Alives : q # p /\ Owns(q) =>
            db[q].idxoff # a /\ db[q].idxoff \notin Reach(chain', Recs', FREE_OFF)
      BY <2>2, <2>3, <2>11, <3>1, Zenon DEF At
    <3> QED  BY <2>1, <2>3, <2>10, <3>2, Zenon DEF ListWrite, Guards
  <2>13. /\ op[p].name \in {"insert", "replace", "store"} /\ pc[p] \in ChainPcs /\ c \in Heads
         /\ c # FREE_OFF
    BY <2>1, StoreFacts, ZenonT(30)
  <2>14. Storing(p)'
    <3>1. SameList(c)
      BY <2>8, <2>13, Zenon
    <3> QED  BY <2>1, <2>2, <2>6, <3>1, StoringKept, Zenon
  <2>15. Reading(p)'
    <3>1. Read(p)
      BY Zenon DEF IInv, Local, Reading
    <3>2. Read(p)'
      BY <2>6, <3>1, Zenon DEF Read
    <3> QED  BY <2>6, <3>2, Zenon DEF Reading, FoundPcs
  <2>16. Owning(p)'
    <3>1. \A o \in Heads : x \notin Reach(chain', Recs', o)
      <4> TAKE o \in Heads
      <4>1. CASE o = FREE_OFF
        BY <2>6, <2>9, <4>1, Zenon DEF Recs
      <4>2. CASE o # FREE_OFF
        BY <2>2, <2>3, <2>8, <4>2, Zenon DEF SameList, At, List
      <4> QED  BY <4>1, <4>2, Zenon
    <3>2. KeyAt(x) = Blank
      BY <2>2, <2>3, Zenon DEF IInv, Chains, SoundList, KeyAt, List, Recs
    <3>3. db'[p].idxoff \in Recs' /\ \A o \in Heads : db'[p].idxoff \notin List(o)'
      BY <2>2, <2>6, <3>1, Zenon DEF List
    <3>4. idx'[Rec(db'[p].idxoff)].key = Blank
      BY <2>2, <2>6, <3>2, ZenonT(30) DEF KeyAt
    <3> QED  BY <2>6, <3>3, <3>4, Zenon DEF Owning, KeyAt
  <2>17. GoesOn(p, "f_unlock")
    BY <2>1, <2>13, Zenon DEF GoesOn, Pcs, Unlinking, ChainPcs, FreePcs, DatPcs, IdxPcs, NextPcs, ScanPcs,
           DeletePcs, StorePcs
  <2>18. \A q \in Alives : q # p /\ Owns(q) => db[q].idxoff # d.idxoff
    BY <2>2, <2>11, Zenon
  <2>19. Reaches(p, "f_unlock", d)
    BY <2>14, <2>15, <2>16, <2>18, Zenon DEF Reaches, ReadPcs, WalkPcs, Unlinking, FoundPcs, AbsentPcs, StorePcs,
           TakePcs, OwnPcs, AddPcs
  <2> QED  BY <2>1, <2>5, <2>12, <2>17, <2>19, PtrStep, Zenon
<1>1. p \in Alives /\ Alive
  BY Zenon DEF FindFree, Alives
<1>2. CASE /\ pc[p] = "ptr" /\ Goto(p, "f_lock") /\ Set(p, [db[p] EXCEPT !.save = ptr[chainoff(p)]])
           /\ UNCHANGED <<files, locks>>
  BY <1>1, <1>2, StorePtr, Zenon
<1>3. CASE pc[p] = "f_lock" /\ Lock(p, FREE_OFF, TRUE) /\ Goto(p, "f_ptr") /\ UNCHANGED <<files, db>>
  BY <1>1, <1>3, StoreLock, Zenon DEF LocksFor
<1>4. CASE /\ pc[p] = "f_ptr" /\ WalkFree(p, [db[p] EXCEPT !.ptroff = FREE_OFF, !.ptr = ptr[FREE_OFF]])
           /\ UNCHANGED <<files, locks>>
  BY <1>1, <1>4, <1>FreePtr, Zenon
<1>5. CASE /\ pc[p] = "f_hdr" /\ Goto(p, "f_body") /\ Set(p, ReadHeader(db[p], db[p].ptr))
           /\ UNCHANGED <<files, locks>>
  BY <1>1, <1>5, <1>FreeHdr, Zenon
<1>6. CASE /\ pc[p] = "f_body"
           /\ LET d == ReadRecord(db[p])
              IN  IF d.keylen = KeyLen[op[p].key] /\ d.datlen = DatLen[op[p].data]
                    THEN Goto(p, "f_take") /\ Set(p, d)
                    ELSE WalkFree(p, [d EXCEPT !.ptroff = d.ptr, !.ptr = d.ptrval])
           /\ UNCHANGED <<files, locks>>
  BY <1>1, <1>6, <1>FreeBody, Zenon
<1>7. CASE /\ pc[p] = "f_take" /\ writeptr(db[p].ptroff, db[p].ptrval) /\ Goto(p, "f_unlock")
           /\ UNCHANGED <<idx, dat, locks, db>>
  BY <1>1, <1>7, <1>FreeTake, Zenon
<1>8. CASE /\ pc[p] = "f_unlock" /\ un_lock(p, FREE_OFF)
           /\ Goto(p, IF db[p].ptr = 0 THEN "a_dlock" ELSE "u_dat") /\ UNCHANGED <<files, db>>
  <2>1. CASE db[p].ptr = 0
    BY <1>1, <1>8, <2>1, StoreUnlock, Zenon DEF UnlocksFor
  <2>2. CASE db[p].ptr # 0
    BY <1>1, <1>8, <2>2, StoreUnlock, Zenon DEF UnlocksFor
  <2> QED  BY <2>1, <2>2, Zenon
<1> QED  BY <1>2, <1>3, <1>4, <1>5, <1>6, <1>7, <1>8, Zenon DEF FindFree

\* db_store keeps the invariant when it replaces data or uses a free record.
LEMMA ReuseKeeps ==
  ASSUME IInv, NoneHalfDeleted, NEW p \in Procs, Reuse(p)
  PROVE  IInv'
  \* db_store writes new data of the same length over the old.
<1>ReplaceDat. ASSUME IInv, NoneHalfDeleted, p \in Alives, pc[p] = "r_dat", writedat(db[p], op[p].data),
             Goto(p, "unlock"), UNCHANGED <<ptr, idx, db>>, locks' = locks, Alive
      PROVE  IInv'
  <2> USE <1>ReplaceDat
  <2>1. /\ pc[p] \in FoundPcs /\ pc[p] \notin Unlinking \cup {"d_free", "d_idx"} /\ pc[p] \in StorePcs
        /\ "unlock" \in Pcs \ Unlinking /\ Holds(p, "unlock") /\ GoesOn(p, "unlock")
        /\ pc[p] \in ChainPcs \cup {"lock"}
    BY Zenon DEF Holds, GoesOn, FoundPcs, Pcs, Unlinking, ChainPcs, FreePcs, DatPcs, IdxPcs, NextPcs, ScanPcs,
           DeletePcs, StorePcs
  <2>2. Writes(p, "unlock", db[p])
    BY SameDb, Zenon DEF Writes
  <2>3. op[p].data \in DataOf[op[p].key] /\ op[p].data \in AllData
    BY <2>1, CallFacts, CallingIs, RequestFacts, Zenon
  <2>4. /\ Read(p) /\ db[p].idxoff \in List(chainoff(p)) /\ chainoff(p) \in Heads
        /\ KeyAt(db[p].idxoff) = op[p].key
    BY <2>1, FoundFacts, ZenonT(30)
  <2>5. Reaches(p, "unlock", db[p])
    BY Zenon DEF Reaches, ReadPcs, WalkPcs, Unlinking, FoundPcs, AbsentPcs, StorePcs,
           TakePcs, OwnPcs, AddPcs
  <2>6. op[p].data \in AllData \cup {Blank} /\ op[p].data \in DataOf[KeyAt(db[p].idxoff)]
    BY <2>3, <2>4, Zenon
  <2> QED  BY <2>1, <2>2, <2>4, <2>5, <2>6, OverStep, ZenonT(30)
  \* db_store writes the data of the free record it has taken.
<1>ReuseDat. ASSUME IInv, NoneHalfDeleted, p \in Alives, pc[p] = "u_dat", writedat(db[p], op[p].data),
             Goto(p, "u_idx"), UNCHANGED <<ptr, idx, db>>, locks' = locks, Alive
      PROVE  IInv'
  <2> USE <1>ReuseDat
  <2> DEFINE d == db[p]
  <2>1. /\ pc[p] \notin Unlinking \cup {"d_free", "d_idx"} /\ pc[p] \in StorePcs /\ pc[p] \in AbsentPcs
        /\ "u_idx" \in Pcs \ Unlinking /\ Holds(p, "u_idx")
        /\ pc[p] \in StorePcs \ {"r_dat", "ptr", "reptr"} /\ Owns(p)
    BY Zenon DEF Holds, Owns, AbsentPcs, Pcs, Unlinking, ChainPcs, FreePcs, DatPcs, IdxPcs, NextPcs, ScanPcs,
           DeletePcs, StorePcs
  <2>2. Writes(p, "u_idx", db[p])
    BY SameDb, Zenon DEF Writes
  <2>3. op[p].data \in AllData /\ op[p].name \in {"insert", "replace", "store"}
    BY <2>1, StoreFacts, ZenonT(30)
  <2>4. GoesOn(p, "u_idx")
    BY <2>3, Zenon DEF GoesOn, Pcs, Unlinking, ChainPcs, FreePcs, DatPcs, IdxPcs, NextPcs, ScanPcs,
           DeletePcs, StorePcs
  <2>5. pc'[p] = "u_idx" /\ db'[p] = db[p] /\ Unmoved(p)
    BY <2>1, <2>2, DatUnmoved, ZenonT(30)
  <2>6. /\ Read(p) /\ d.idxoff \in Recs /\ (\A o \in Heads : d.idxoff \notin List(o))
        /\ KeyAt(d.idxoff) = Blank
    BY <2>1, ZenonT(30) DEF IInv, Local, Reading, Owning
  <2>7. Reading(p)'
    <3>1. Read(p)'
      BY <2>5, <2>6, ReadStays, Zenon DEF SameRecord
    <3> QED  BY <2>5, <3>1, Zenon DEF Reading, FoundPcs
  <2>8. Storing(p)'
    BY <2>1, <2>5, SaveIs, StoringStays, Zenon
  <2>9. Owning(p)'
    <3>1. dat'[d.datoff] = [data |-> op[p].data, len |-> d.datlen]
      <4>1. d.datoff \in DOMAIN dat /\ d.datlen \in Nat
        BY <2>1, <2>6, DatOwn, Zenon
      <4>2. op[p].data \in AllData \cup {Blank}
        BY <2>3, ZenonT(30)
      <4> QED  BY <4>1, <4>2, DatOver, Zenon
    <3>2. dat'[d.datoff].data = op[p].data
      <4> DEFINE y == dat'[d.datoff]  a == op[p].data  n == d.datlen
      <4>1. y = [data |-> a, len |-> n]
        BY <3>1, Zenon
      <4> HIDE DEF y, a, n
      <4>2. y.data = a
        BY <4>1, DataFields, Zenon
      <4> QED  BY <4>2, Zenon DEF y, a
    <3>3. /\ d.idxoff \in Recs' /\ (\A o \in Heads : d.idxoff \notin List(o)')
          /\ idx'[Rec(d.idxoff)].key = Blank /\ op' = op
      BY <2>5, <2>6, Zenon DEF Unmoved, KeyAt
    <3> QED  BY <2>5, <3>2, <3>3, Zenon DEF Owning, KeyAt
  <2>10. Reaches(p, "u_idx", d)
    <3>1. \A q \in Alives : q # p /\ Owns(q) => db[q].idxoff # d.idxoff
      BY <2>1, Zenon DEF IInv, Apart
    <3> QED  BY <2>7, <2>8, <2>9, <3>1, Zenon DEF Reaches, ReadPcs, WalkPcs, Unlinking, FoundPcs, AbsentPcs, StorePcs,
           TakePcs, OwnPcs, AddPcs
  <2>11. op[p].data \in AllData \cup {Blank}
    BY <2>3, ZenonT(30)
  <2> QED  BY <2>1, <2>2, <2>4, <2>6, <2>10, <2>11, OverStep, ZenonT(30)
  \* db_store gives the record it took from the free list its key.
<1>ReuseIdx. ASSUME IInv, NoneHalfDeleted, p \in Alives, pc[p] = "u_idx", writeidx(db[p], op[p].key, db[p].save),
             Goto(p, "u_link"), UNCHANGED <<dat, db>>, locks' = locks, Alive
      PROVE  IInv'
  <2> USE <1>ReuseIdx
  <2> DEFINE d == db[p]  c == chainoff(p)  x == d.idxoff  k == op[p].key
  <2>1. /\ pc[p] \in StorePcs /\ pc[p] \in AbsentPcs /\ "u_link" \in Pcs /\ Owns(p)
        /\ pc[p] \notin Unlinking /\ "u_link" \notin Unlinking /\ Holds(p, "u_link")
        /\ pc[p] \in StorePcs \ {"r_dat", "ptr", "reptr"}
    BY Zenon DEF Holds, Owns, AbsentPcs, Pcs, Unlinking, ChainPcs, FreePcs, DatPcs, IdxPcs, NextPcs, ScanPcs,
           DeletePcs, StorePcs
  <2>2. /\ op[p].name \in {"insert", "replace", "store"} /\ k \in Keys /\ k # Blank
        /\ op[p].data \in DataOf[k] /\ pc[p] \in ChainPcs /\ c \in Heads /\ c # FREE_OFF /\ d \in DbType
    BY <2>1, StoreFacts, ZenonT(30)
  <2>3. /\ Read(p) /\ x \in Recs /\ (\A o \in Heads : x \notin List(o)) /\ KeyAt(x) = Blank
        /\ dat[d.datoff].data = op[p].data
    <3>1. Local(p)
      BY Zenon DEF IInv
    <3> QED  BY <2>1, <3>1, Zenon DEF Local, Reading, Owning
  <2>4. d.save = chain[c] /\ d.save \in {0} \cup Recs
    BY <2>1, <2>2, SaveIs, Zenon DEF DbType
  <2>5. Writes(p, "u_link", d)
    BY SameDb, Zenon DEF Writes
  <2>6. IdxWritten(p, "u_link", d, k, d.save)
    BY <2>2, <2>3, <2>4, <2>5, Zenon DEF IdxWritten
  <2>7. /\ Types' /\ Moves(p) /\ Recs' = Recs /\ ptr'[x] = d.save
        /\ DOMAIN ptr = Heads \cup Recs /\ DOMAIN ptr' = Heads \cup Recs
        /\ (\A r \in Heads \cup Recs : r # x => ptr'[r] = ptr[r])
        /\ (\A r \in Recs : r # x => idx'[Rec(r)].key = idx[Rec(r)].key)
        /\ idx'[Rec(x)].key = k /\ pc'[p] = "u_link" /\ db'[p] = d /\ op' = op /\ chainoff(p)' = c
    <3>1. IdxDone(p, "u_link", d, k, d.save)
      BY <2>1, <2>6, IdxFacts, Zenon
    <3> QED  BY <3>1, Zenon DEF IdxDone
  <2>8. \A r \in Heads \cup Recs : r # x => chain'[r] = chain[r]
    <3>1. \A r \in Heads \cup Recs : ptr'[r] = ptr[r] => chain'[r] = chain[r]
      BY <2>1, <2>7, ChainKept, Zenon
    <3> QED  BY <2>7, <3>1, ZenonT(30)
  <2>9. ASSUME NEW o \in Heads PROVE SameList(o) /\ SoundList(chain', idx', o)
    <3>1. List(o) \subseteq Recs /\ x \notin At(o)
      <4>1. List(o) \subseteq Recs /\ o \notin Recs
        BY Layout, Zenon
      <4> QED  BY <2>3, <4>1, Zenon DEF At
    <3>2. \A r \in At(o) : chain'[r] = chain[r]
      BY <2>8, <3>1, Zenon DEF At
    <3>3. \A r \in List(o) : idx'[Rec(r)].key = idx[Rec(r)].key
      BY <2>7, <3>1, Zenon DEF At
    <3>4. Recs \subseteq Recs'
      BY <2>7, Zenon
    <3> QED  BY <2>7, <3>2, <3>3, <3>4, ListKept, Zenon
  <2>10. \A o \in Heads : Reach(chain', Recs', o) = List(o)
    BY <2>9, Zenon DEF SameList, List
  <2>11. \A q \in Alives : q # p /\ (Owns(q) \/ pc[q] = "n_dat") => db[q].idxoff # x
    <3>1. \A q \in Alives : q # p /\ Owns(q) => db[q].idxoff # x
      BY <2>1, Zenon DEF IInv, Apart
    <3>2. \A q \in Alives : pc[q] = "n_dat" => KeyAt(db[q].idxoff) # Blank
      BY Zenon DEF IInv, Local, Scanning
    <3> QED  BY <2>3, <3>1, <3>2, Zenon
  <2>12. Spares(p, c)
    <3>1. OneList(c) /\ Chains'
      BY <2>9, Zenon DEF OneList, Chains
    <3>2. Reach(chain', Recs', c) \subseteq List(c)
      BY <2>2, <2>10, ZenonT(30)
    <3>3. Guards(p, c)
      BY <2>2, Zenon DEF Guards
    <3> QED  BY <2>2, <2>11, <3>1, <3>2, <3>3, Zenon DEF Spares
  <2>13. Storing(p)'
    <3>1. SameList(c)
      BY <2>2, <2>9, ZenonT(30)
    <3> QED  BY <2>1, <2>4, <2>7, <3>1, StoringKept, Zenon
  <2>14. Owning(p)'
    <3>1. db'[p].idxoff \in Recs' /\ \A o \in Heads : db'[p].idxoff \notin List(o)'
      BY <2>3, <2>7, <2>10, Zenon DEF List
    <3>2. idx'[Rec(db'[p].idxoff)].key = op'[p].key /\ ptr'[db'[p].idxoff] = db'[p].save
      BY <2>7, ZenonT(30)
    <3> QED  BY <2>7, <3>1, <3>2, Zenon DEF Owning, KeyAt
  <2>15. GoesOn(p, "u_link")
    BY <2>1, <2>2, Zenon DEF GoesOn, Pcs, Unlinking, ChainPcs, FreePcs, DatPcs, IdxPcs, NextPcs, ScanPcs,
           DeletePcs, StorePcs
  <2>16. Reaches(p, "u_link", d)
    BY <2>11, <2>13, <2>14, Zenon DEF Reaches, ReadPcs, WalkPcs, Unlinking, FoundPcs, AbsentPcs, StorePcs,
           TakePcs, OwnPcs, AddPcs
  <2>17. dat[d.datoff].data \in DataOf[k]
    BY <2>2, <2>3, Zenon
  <2> QED  BY <2>1, <2>6, <2>12, <2>15, <2>16, <2>17, IdxStep, ZenonT(30)
<1>1. p \in Alives /\ Alive /\ locks' = locks
  BY Zenon DEF Reuse, Alives
<1>2. CASE /\ pc[p] \in {"u_dat", "r_dat"} /\ writedat(db[p], op[p].data)
           /\ Goto(p, IF pc[p] = "u_dat" THEN "u_idx" ELSE "unlock") /\ UNCHANGED <<ptr, idx, db>>
  <2>1. CASE pc[p] = "u_dat"
    <3>1. Goto(p, "u_idx")
      BY <1>2, <2>1, Zenon
    <3> QED  BY <1>1, <1>2, <2>1, <3>1, <1>ReuseDat, Zenon
  <2>2. CASE pc[p] = "r_dat"
    <3>1. Goto(p, "unlock")
      BY <1>2, <2>2, Zenon
    <3> QED  BY <1>1, <1>2, <2>2, <3>1, <1>ReplaceDat, ZenonT(30)
  <2> QED  BY <1>2, <2>1, <2>2, Zenon
<1>3. CASE /\ pc[p] = "u_idx" /\ writeidx(db[p], op[p].key, db[p].save) /\ Goto(p, "u_link")
           /\ UNCHANGED <<dat, db>>
  BY <1>1, <1>3, <1>ReuseIdx, Zenon
<1>4. CASE /\ pc[p] = "u_link" /\ writeptr(chainoff(p), db[p].idxoff) /\ Goto(p, "unlock")
           /\ UNCHANGED <<idx, dat, db>>
  BY <1>1, <1>4, LinkStep, Zenon
<1> QED  BY <1>2, <1>3, <1>4, Zenon DEF Reuse

\* db_store keeps the invariant when it adds a record.
LEMMA AppendKeeps ==
  ASSUME IInv, NoneHalfDeleted, NEW p \in Procs, AppendRec(p)
  PROVE  IInv'
  \* The end of the data file, and of the index file, is sought.
<1>StoreSeek. ASSUME IInv, p \in Alives, NEW e \in DbType, NEW v, e.save = db[p].save,
             \/ pc[p] = "a_dseek" /\ v = "a_dat" /\ e.datoff = Len(dat) + 1
             \/ /\ pc[p] = "a_iseek" /\ v = "a_idx" /\ e.idxoff = nhash + Len(idx) + 1
                /\ e.datoff = db[p].datoff /\ e.datlen = db[p].datlen,
             Goto(p, v), Set(p, e), UNCHANGED <<files, locks>>, Alive
      PROVE  IInv'
  <2> USE <1>StoreSeek
  <2>1. Quiet(p, v, e) /\ locks' = locks
    BY Zenon DEF Quiet
  <2>2. pc[p] \in StorePcs \ {"r_dat", "ptr", "reptr"} /\ pc[p] \in AbsentPcs
    BY Zenon DEF StorePcs, AbsentPcs
  <2>3. Holds(p, v) /\ v \in Pcs \ Unlinking /\ pc[p] \notin Unlinking
    BY Zenon  DEF Holds, Pcs, Unlinking, ChainPcs, FreePcs, DatPcs, IdxPcs, NextPcs, ScanPcs,
           DeletePcs, StorePcs
  <2>4. GoesOn(p, v)
    <3>1. op[p].name \in {"insert", "replace", "store"}
      BY <2>2, CallingIs, Zenon
    <3> QED  BY <3>1, Zenon DEF GoesOn, Pcs, Unlinking, ChainPcs, FreePcs, DatPcs, IdxPcs, NextPcs, ScanPcs,
           DeletePcs, StorePcs
  <2>5. pc'[p] = v /\ db'[p] = e /\ Unmoved(p)
    BY <2>1, <2>3, PrivateUnmoved, ZenonT(30)
  <2>6. Arrives(p, v, e)
    <3>1. Storing(p)'
      BY <2>2, <2>5, SaveIs, StoringStays, ZenonT(30)
    <3>2. v = "a_idx" => Appending(p)' /\ Adds(p)
      BY <2>5, AppendingStays, Zenon DEF Adds, files
    <3>3. v = "a_dat" => Appending(p)' /\ ~Adds(p)'
      BY <2>5, Zenon DEF Appending, Adds, Unmoved, files
    <3> QED  BY <3>1, <3>2, <3>3, Zenon DEF Arrives, Unlinking, ReadPcs, WalkPcs, FoundPcs, AbsentPcs, StorePcs,
           TakePcs, OwnPcs, AddPcs
  <2> QED  BY <2>1, <2>3, <2>4, <2>6, PrivateStep, Zenon
  \* _db_writedat seeks the end of the data file, which it has locked.
<1>SeekDat. ASSUME IInv, p \in Alives, pc[p] = "a_dseek", Goto(p, "a_dat"),
             Set(p, [db[p] EXCEPT !.datoff = Len(dat) + 1, !.datlen = DatLen[op[p].data],
                                  !.keylen = KeyLen[op[p].key]]),
             UNCHANGED <<files, locks>>, Alive
      PROVE  IInv'
  <2> USE <1>SeekDat
  <2> DEFINE e == [db[p] EXCEPT !.datoff = Len(dat) + 1, !.datlen = DatLen[op[p].data],
                                !.keylen = KeyLen[op[p].key]]
  <2>1. Len(dat) + 1 \in Nat
    BY SMT, Z3 DEF IInv, Types
  <2>2. DatLen[op[p].data] \in Nat /\ KeyLen[op[p].key] \in Nat
    <3>1. pc[p] \in ChainPcs /\ pc[p] \in StorePcs
      BY Zenon DEF Pcs, Unlinking, ChainPcs, FreePcs, DatPcs, IdxPcs, NextPcs, ScanPcs,
           DeletePcs, StorePcs
    <3>2. op[p] \in Requests /\ op[p].name \in {"insert", "replace", "store"}
      BY <3>1, CallFacts, CallingIs, Zenon
    <3>3. op[p].data \in AllData /\ op[p].key \in Keys
      BY <3>2, RequestFacts, Zenon
    <3> QED  BY <3>3, DbAssumption, Zenon
  <2>3. db[p] \in DbType
    BY DbFacts, Zenon
  <2>4. e \in DbType /\ e.datoff = Len(dat) + 1 /\ e.save = db[p].save
    BY <2>1, <2>2, <2>3, Zenon DEF DbType
  <2>5. Set(p, e)
    BY Zenon
  <2> HIDE DEF e
  <2> QED  BY <2>4, <2>5, <1>StoreSeek, Zenon
  \* _db_writeidx seeks the end of the index file, which it has locked.
<1>SeekIdx. ASSUME IInv, p \in Alives, pc[p] = "a_iseek", Goto(p, "a_idx"),
             Set(p, [db[p] EXCEPT !.idxoff = nhash + Len(idx) + 1]), UNCHANGED <<files, locks>>, Alive
      PROVE  IInv'
  <2> USE <1>SeekIdx
  <2> DEFINE e == [db[p] EXCEPT !.idxoff = nhash + Len(idx) + 1]
  <2>1. nhash + Len(idx) + 1 \in Nat
    BY DbAssumption, SMT, Z3 DEF IInv, Types
  <2>2. db[p] \in DbType
    BY DbFacts, Zenon
  <2>3. /\ e \in DbType /\ e.idxoff = nhash + Len(idx) + 1 /\ e.save = db[p].save
        /\ e.datoff = db[p].datoff /\ e.datlen = db[p].datlen
    BY <2>1, <2>2, Zenon DEF DbType
  <2>4. Set(p, e)
    BY Zenon
  <2> HIDE DEF e
  <2> QED  BY <2>3, <2>4, <1>StoreSeek, ZenonT(30)
  \* _db_writedat adds a data record at the end of the data file.
<1>DatAdd. ASSUME IInv, NEW d, d.datoff = Len(dat) + 1, d.datlen \in Nat, NEW data \in AllData \cup {Blank},
             writedat(d, data)
      PROVE  /\ dat' \in Seq([data : AllData \cup {Blank}, len : Nat]) /\ d.datoff \in DOMAIN dat'
             /\ dat'[d.datoff] = [data |-> data, len |-> d.datlen]
             /\ \A i \in DOMAIN dat : i \in DOMAIN dat' /\ i # d.datoff /\ dat'[i] = dat[i]
  <2> USE <1>DatAdd
  <2> DEFINE r == [data |-> data, len |-> d.datlen]
  <2>1. dat \in Seq([data : AllData \cup {Blank}, len : Nat])
    BY Zenon DEF IInv, Types
  <2>2. r \in [data : AllData \cup {Blank}, len : Nat]
    BY Zenon
  <2>3. ~(d.datoff <= Len(dat))
    BY <2>1, SMT, Z3
  <2>4. dat' = Append(dat, r)
    BY <2>3, Zenon DEF writedat
  <2> HIDE DEF r
  <2>5. dat' \in Seq([data : AllData \cup {Blank}, len : Nat]) /\ Len(dat') = Len(dat) + 1
    BY <2>1, <2>2, <2>4, SMT, Z3
  <2>6. d.datoff \in DOMAIN dat' /\ dat'[d.datoff] = r
    BY <2>1, <2>4, <2>5, SMT, Z3
  <2>7. \A i \in DOMAIN dat : i \in DOMAIN dat' /\ i # d.datoff /\ dat'[i] = dat[i]
    BY <2>1, <2>4, <2>5, SMT, Z3
  <2> QED  BY <2>5, <2>6, <2>7, Zenon DEF r
  \* db_store adds a data record, which no index record names yet.
<1>AppendDat. ASSUME IInv, NoneHalfDeleted, p \in Alives, pc[p] = "a_dat", writedat(db[p], op[p].data),
             Goto(p, "a_dunlock"), UNCHANGED <<ptr, idx, locks, db>>, Alive
      PROVE  IInv'
  <2> USE <1>AppendDat
  <2> DEFINE d == db[p]
  <2>1. /\ pc[p] \notin Unlinking /\ pc[p] \notin {"d_free", "d_idx"} /\ pc[p] \in StorePcs
        /\ pc[p] \in AbsentPcs /\ "a_dunlock" \in Pcs \ Unlinking /\ Holds(p, "a_dunlock")
        /\ pc[p] \in StorePcs \ {"r_dat", "ptr", "reptr"} /\ pc[p] \in DatPcs /\ "a_dunlock" \in Pcs
    BY Zenon DEF Holds, AbsentPcs, Pcs, Unlinking, ChainPcs, FreePcs, DatPcs, IdxPcs, NextPcs, ScanPcs,
           DeletePcs, StorePcs
  <2>2. Writes(p, "a_dunlock", db[p])
    BY SameDb, Zenon DEF Writes
  <2>3. /\ op[p].data \in AllData \cup {Blank} /\ op[p].name \in {"insert", "replace", "store"}
        /\ d \in DbType
    BY <2>1, StoreFacts, ZenonT(30)
  <2>4. GoesOn(p, "a_dunlock")
    BY <2>3, Zenon DEF GoesOn, Pcs, Unlinking, ChainPcs, FreePcs, DatPcs, IdxPcs, NextPcs, ScanPcs,
           DeletePcs, StorePcs
  <2>5. pc'[p] = "a_dunlock" /\ db'[p] = db[p] /\ Unmoved(p)
    BY <2>1, <2>2, DatUnmoved, Zenon
  <2>6. d.datoff = Len(dat) + 1 /\ d.datlen \in Nat
    <3>1. d.datoff = Len(dat) + 1
      BY Zenon DEF IInv, Local, Appending
    <3> QED  BY <2>3, <3>1, Zenon DEF DbType
  <2>7. /\ dat' \in Seq([data : AllData \cup {Blank}, len : Nat]) /\ d.datoff \in DOMAIN dat'
        /\ dat'[d.datoff] = [data |-> op[p].data, len |-> d.datlen]
        /\ \A i \in DOMAIN dat : i \in DOMAIN dat' /\ i # d.datoff /\ dat'[i] = dat[i]
    BY <2>3, <2>6, <1>DatAdd, Zenon
  <2>8. Storing(p)'
    BY <2>1, <2>5, SaveIs, StoringStays, Zenon
  <2>9. \A i \in DOMAIN idx : idx[i].datoff \in DOMAIN dat
    BY ZenonT(30) DEF IInv, Records
  <2>10. Appending(p)'
    <3>1. \A i \in DOMAIN idx' : idx'[i].datoff # d.datoff
      BY <2>7, <2>9, Zenon
    <3>2. op' = op
      BY <2>5, Zenon DEF Unmoved
    <3> QED  BY <2>5, <2>7, <3>1, <3>2, Zenon DEF Appending, Adds
  <2>11. \A q \in Alives : Adds(q) => db[q].datoff \in DOMAIN dat
    BY Zenon DEF IInv, Local, Appending
  <2>12. \A q \in Alives : pc[q] = "u_idx" => db[q].datoff \in DOMAIN dat
    <3> SUFFICES ASSUME NEW q \in Alives, pc[q] = "u_idx" PROVE db[q].datoff \in DOMAIN dat
      BY ZenonT(30)
    <3>1. Read(q)
      BY Zenon DEF IInv, Local, Reading
    <3> QED  BY <2>9, <3>1, RecFacts, Zenon DEF Read
  <2>13. Reaches(p, "a_dunlock", d)
    <3>1. \A q \in Alives : q # p /\ Adds(q) => db[q].datoff # d.datoff
      BY <2>7, <2>11, Zenon
    <3> QED  BY <2>8, <2>10, <3>1, Zenon DEF Reaches, ReadPcs, WalkPcs, Unlinking, FoundPcs, AbsentPcs, StorePcs,
           TakePcs, OwnPcs, AddPcs
  <2>14. Records'
    <3>1. \A q \in Procs : q # p => pc'[q] = pc[q] /\ db'[q] = db[q]
      BY <2>1, <2>2, WriteMoves, Zenon
    <3>2. \A i \in DOMAIN idx : dat'[idx[i].datoff] = dat[idx[i].datoff] /\ idx[i].datoff \in DOMAIN dat'
      BY <2>7, <2>9, Zenon
    <3>3. \A i : (\E q \in Procs : pc[q] \in {"d_free", "d_idx"} /\ db[q].idxoff = nhash + i)
                   => \E q \in Procs : pc'[q] \in {"d_free", "d_idx"} /\ db'[q].idxoff = nhash + i
      BY <2>1, <3>1, Zenon
    <3>4. idx' = idx /\ Records
      BY Zenon DEF IInv
    <3>5. ASSUME NEW i \in DOMAIN idx
          PROVE  /\ idx[i].datoff \in DOMAIN dat' /\ dat'[idx[i].datoff].len = idx[i].datlen
                 /\ \A j \in DOMAIN idx : idx[i].datoff = idx[j].datoff => i = j
                 /\ idx[i].key # Blank /\ dat'[idx[i].datoff].data \notin DataOf[idx[i].key] =>
                      \E q \in Procs : pc'[q] \in {"d_free", "d_idx"} /\ db'[q].idxoff = nhash + i
      BY <3>2, <3>3, <3>4, Zenon DEF Records
    <3> QED  BY <3>4, <3>5, Zenon DEF Records
  <2>15. DatOnly(d.datoff)
    BY <2>7, Zenon DEF DatOnly
  <2>16. \A q \in Alives : q # p => /\ pc[q] = "u_idx" \/ Adds(q) => db[q].datoff # d.datoff
                                    /\ pc[q] = "a_dat" => Len(dat') = Len(dat)
    <3>1. \A q \in Alives : q # p => pc[q] # "a_dat"
      <4>1. "a_dat" \in DatPcs
        BY Zenon DEF DatPcs
      <4> QED  BY <2>1, <4>1, Exclusion, Zenon
    <3> QED  BY <2>7, <2>11, <2>12, <3>1, Zenon
  <2> QED  BY <2>1, <2>2, <2>4, <2>13, <2>14, <2>15, <2>16, DatStep, Zenon
  \* What _db_writeidx does to the state when it adds a record.
<1>AddFacts. ASSUME IInv, p \in Alives, NEW v \in Pcs, Writes(p, v, db[p]), dat' = dat, NEW k \in Keys,
             writeidx(db[p], k, db[p].save), db[p].idxoff = nhash + Len(idx) + 1
      PROVE  /\ Added(db[p].idxoff, k) /\ ptr'[db[p].idxoff] = db[p].save
             /\ idx'[Rec(db[p].idxoff)].datoff = db[p].datoff /\ idx'[Rec(db[p].idxoff)].datlen = db[p].datlen
  <2> USE <1>AddFacts
  <2> DEFINE d == db[p]  x == d.idxoff  n == Len(idx)
             R == [key : Keys \cup {Blank}, keylen : Nat, datoff : Nat, datlen : Nat]
             z == [key |-> k, keylen |-> d.keylen, datoff |-> d.datoff, datlen |-> d.datlen]
  <2>1. d \in DbType /\ Heads \cup Recs = 0 .. nhash + n
    BY DbFacts, Zenon
  <2>2. d.keylen \in Nat /\ d.datoff \in Nat /\ d.datlen \in Nat /\ d.save \in {0} \cup Recs
    BY <2>1, Zenon DEF DbType
  <2>3. idx \in Seq(R) /\ dat \in Seq([data : AllData \cup {Blank}, len : Nat])
    BY Zenon DEF IInv, Types
  <2>4. z \in R /\ z.key = k /\ z.datoff = d.datoff /\ z.datlen = d.datlen
    BY <2>2, Zenon
  <2> HIDE DEF R
  <2>5. n \in Nat /\ nhash \in Nat /\ DOMAIN idx = 1 .. n /\ Recs = nhash + 1 .. nhash + n
    BY <2>3, PlaceFacts, Zenon DEF Recs, Places
  <2>6. Rec(x) = n + 1 /\ ~ (Rec(x) <= n) /\ x \notin Recs
    BY <2>5, SMT, Z3 DEF Rec
  <2>7. idx' = Append(idx, z)
    BY <2>6, Zenon DEF writeidx
  <2> HIDE DEF z
  <2>8. /\ idx' \in Seq(R) /\ Len(idx') = n + 1 /\ DOMAIN idx' = 1 .. n + 1 /\ idx'[n + 1] = z
        /\ \A i \in 1 .. n : idx'[i] = idx[i]
    BY <2>3, <2>4, <2>5, <2>7, SMT, Z3
  <2>9. Recs' = Recs \cup {x} /\ 0 .. nhash + Len(idx') = (Heads \cup Recs) \cup {x}
    <3>1. Recs' = nhash + 1 .. nhash + (n + 1)
      BY <2>8, Zenon DEF Recs, Places
    <3>2. Recs' = Recs \cup {x}
      BY <2>5, <3>1, SMT, Z3
    <3>3. 0 .. nhash + Len(idx') = (0 .. nhash + n) \cup {x}
      BY <2>5, <2>8, SMT, Z3
    <3> QED  BY <2>1, <3>2, <3>3, Zenon
  <2>10. ptr \in [Heads \cup Recs -> {0} \cup Recs] /\ x \notin Heads
    <3>1. x \notin Heads
      BY <2>5, SMT, Z3 DEF Heads
    <3> QED  BY <3>1, Layout, Zenon
  <2>11. /\ ptr' \in [(Heads \cup Recs) \cup {x} -> {0} \cup Recs'] /\ ptr'[x] = d.save
         /\ \A r \in Heads \cup Recs : ptr'[r] = ptr[r]
    <3>1. ptr' = [o \in (Heads \cup Recs) \cup {x} |-> IF o = x THEN d.save ELSE ptr[o]]
      <4>1. DOMAIN ptr = Heads \cup Recs
        BY <2>10, Zenon
      <4>2. ptr' = [o \in DOMAIN ptr \cup {x} |-> IF o = x THEN d.save ELSE ptr[o]]
        BY Zenon DEF writeidx
      <4> QED  BY <4>1, <4>2, Zenon
    <3>2. \A o \in (Heads \cup Recs) \cup {x} : (IF o = x THEN d.save ELSE ptr[o]) \in {0} \cup Recs'
      BY <2>2, <2>9, <2>10, Zenon
    <3> QED  BY <2>6, <2>10, <3>1, <3>2, Zenon
  <2>12. FilesAre
    <3>1. Len(idx) <= Len(idx')
      BY <2>5, <2>8, SMT, Z3
    <3> QED  BY <2>3, <2>8, <2>9, <2>11, <3>1, Zenon DEF FilesAre, R
  <2>13. Types'
    BY <2>1, <2>12, WriteTypes, Zenon
  <2>14. SameShapes
    <3>1. \A r \in Recs : Rec(r) \in DOMAIN idx
      BY RecFacts, Zenon
    <3> QED  BY <2>5, <2>8, <2>9, <3>1, Zenon DEF SameShapes
  <2>15. DOMAIN idx' = DOMAIN idx \cup {Rec(x)} /\ Rec(x) \notin DOMAIN idx
    BY <2>5, <2>6, <2>8, SMT, Z3
  <2>16. DOMAIN ptr = Heads \cup Recs /\ DOMAIN ptr' = Heads \cup Recs'
    BY <2>9, <2>10, <2>11, Zenon
  <2>17. idx'[Rec(x)] = z /\ \A i \in DOMAIN idx : idx'[i] = idx[i]
    BY <2>5, <2>6, <2>8, Zenon
  <2> QED  BY <2>4, <2>6, <2>9, <2>11, <2>13, <2>14, <2>15, <2>16, <2>17, Zenon DEF Added
  \* db_store adds an index record: the data record it names is its own.
<1>AppendIdx. ASSUME IInv, NoneHalfDeleted, p \in Alives, pc[p] = "a_idx", writeidx(db[p], op[p].key, db[p].save),
             Goto(p, "a_iunlock"), UNCHANGED <<dat, locks, db>>, Alive
      PROVE  IInv'
  <2> USE <1>AppendIdx
  <2> DEFINE d == db[p]  c == chainoff(p)  x == d.idxoff  k == op[p].key
  <2>1. /\ pc[p] \in StorePcs /\ pc[p] \in AbsentPcs /\ "a_iunlock" \in Pcs /\ Adds(p)
        /\ pc[p] \notin Unlinking /\ "a_iunlock" \notin Unlinking /\ Holds(p, "a_iunlock")
        /\ pc[p] \in StorePcs \ {"r_dat", "ptr", "reptr"} /\ pc[p] \in IdxPcs /\ "a_idx" \in IdxPcs
        /\ pc[p] \notin {"d_free", "d_idx"}
    BY Zenon DEF Holds, Adds, AbsentPcs, Pcs, Unlinking, ChainPcs, FreePcs, DatPcs, IdxPcs, NextPcs, ScanPcs,
           DeletePcs, StorePcs
  <2>2. /\ op[p].name \in {"insert", "replace", "store"} /\ k \in Keys /\ k # Blank
        /\ op[p].data \in DataOf[k] /\ pc[p] \in ChainPcs /\ c \in Heads /\ d \in DbType
    BY <2>1, StoreFacts, Zenon
  <2>3. /\ d.datoff \in DOMAIN dat /\ (\A i \in DOMAIN idx : idx[i].datoff # d.datoff)
        /\ dat[d.datoff] = [data |-> op[p].data, len |-> d.datlen] /\ x = nhash + Len(idx) + 1
    <3>1. Local(p)
      BY Zenon DEF IInv
    <3> QED  BY <2>1, <3>1, Zenon DEF Local, Appending
  <2>4. d.save = chain[c]
    BY <2>1, SaveIs, Zenon
  <2>5. Writes(p, "a_iunlock", d) /\ dat' = dat
    BY SameDb, Zenon DEF Writes
  <2>6. /\ Added(x, k) /\ ptr'[x] = d.save /\ idx'[Rec(x)].datoff = d.datoff
        /\ idx'[Rec(x)].datlen = d.datlen
    BY <2>1, <2>2, <2>3, <2>5, <1>AddFacts, Zenon
  <2>7. /\ Types' /\ SameShapes /\ Recs' = Recs \cup {x} /\ x \notin Recs
        /\ DOMAIN idx' = DOMAIN idx \cup {Rec(x)} /\ Rec(x) \notin DOMAIN idx
        /\ (\A i \in DOMAIN idx : idx'[i] = idx[i])
        /\ DOMAIN ptr = Heads \cup Recs /\ DOMAIN ptr' = Heads \cup Recs'
        /\ (\A r \in Heads \cup Recs : ptr'[r] = ptr[r]) /\ idx'[Rec(x)].key = k
    BY <2>6, Zenon DEF Added
  <2>8. /\ Moves(p) /\ pc'[p] = "a_iunlock" /\ db'[p] = d /\ op' = op /\ chainoff(p)' = c
    BY <2>1, <2>5, WriteMoves, Zenon
  <2>9. \A r \in Recs : idx'[Rec(r)] = idx[Rec(r)]
    BY <2>7, RecFacts, Zenon
  <2>10. \A r \in Heads \cup Recs : chain'[r] = chain[r]
    <3>1. \A r \in DOMAIN ptr \cap DOMAIN ptr' : ptr'[r] = ptr[r] => chain'[r] = chain[r]
      BY <2>1, <2>8, ChainKept, Zenon
    <3> QED  BY <2>7, <3>1, ZenonT(30)
  <2>11. ASSUME NEW o \in Heads PROVE SameList(o) /\ SoundList(chain', idx', o)
    <3>1. List(o) \subseteq Recs
      BY Layout, Zenon
    <3>2. \A r \in At(o) : chain'[r] = chain[r]
      BY <2>10, <3>1, Zenon DEF At
    <3>3. \A r \in List(o) : idx'[Rec(r)].key = idx[Rec(r)].key
      BY <2>9, <3>1, Zenon
    <3>4. Recs \subseteq Recs'
      BY <2>7, Zenon
    <3> QED  BY <2>7, <3>2, <3>3, <3>4, ListKept, Zenon
  <2>12. Chains' /\ \A o \in Heads : Reach(chain', Recs', o) = List(o)
    BY <2>11, Zenon DEF Chains, SameList, List
  <2>13. Records'
    <3>1. Records
      BY Zenon DEF IInv
    <3>2. \A i : (\E q \in Procs : pc[q] \in {"d_free", "d_idx"} /\ db[q].idxoff = nhash + i)
                   => \E q \in Procs : pc'[q] \in {"d_free", "d_idx"} /\ db'[q].idxoff = nhash + i
      BY <2>1, <2>8, Zenon DEF Moves
    <3>3. ASSUME NEW i \in DOMAIN idx
          PROVE  /\ idx'[i] = idx[i] /\ idx'[i].datoff \in DOMAIN dat /\ dat[idx'[i].datoff].len = idx'[i].datlen
                 /\ (\A j \in DOMAIN idx' : idx'[i].datoff = idx'[j].datoff => i = j)
                 /\ idx'[i].key # Blank /\ dat[idx'[i].datoff].data \notin DataOf[idx'[i].key] =>
                      \E q \in Procs : pc'[q] \in {"d_free", "d_idx"} /\ db'[q].idxoff = nhash + i
      <4>1. idx'[i] = idx[i]
        BY <2>7, Zenon
      <4>2. ASSUME NEW j \in DOMAIN idx', idx'[i].datoff = idx'[j].datoff PROVE i = j
        <5>1. j # Rec(x)
          BY <2>3, <2>6, <4>1, <4>2, Zenon
        <5>2. j \in DOMAIN idx /\ idx'[j] = idx[j]
          BY <2>7, <4>2, <5>1, Zenon
        <5> QED  BY <3>1, <4>1, <4>2, <5>2, Zenon DEF Records
      <4> QED  BY <3>1, <3>2, <4>1, <4>2, Zenon DEF Records
    <3>4. LET i == Rec(x) IN
          /\ idx'[i].datoff \in DOMAIN dat /\ dat[idx'[i].datoff].len = idx'[i].datlen
          /\ \A j \in DOMAIN idx' : idx'[i].datoff = idx'[j].datoff => i = j
          /\ dat[idx'[i].datoff].data \in DataOf[idx'[i].key]
      <4>1. dat[d.datoff].data = op[p].data /\ dat[d.datoff].len = d.datlen
        BY <2>3, SMT, Z3
      <4>2. \A j \in DOMAIN idx' : d.datoff = idx'[j].datoff => Rec(x) = j
        BY <2>3, <2>7, Zenon
      <4> QED  BY <2>2, <2>3, <2>6, <2>7, <4>1, <4>2, Zenon
    <3>5. ASSUME NEW i \in DOMAIN idx'
          PROVE  /\ idx'[i].datoff \in DOMAIN dat /\ dat[idx'[i].datoff].len = idx'[i].datlen
                 /\ (\A j \in DOMAIN idx' : idx'[i].datoff = idx'[j].datoff => i = j)
                 /\ idx'[i].key # Blank /\ dat[idx'[i].datoff].data \notin DataOf[idx'[i].key] =>
                      \E q \in Procs : pc'[q] \in {"d_free", "d_idx"} /\ db'[q].idxoff = nhash + i
      BY <2>7, <3>3, <3>4, Zenon
    <3> QED  BY <2>5, <3>5, Zenon DEF Records
  <2>14. ASSUME NEW q \in Alives, q # p PROVE SameFor(q)
    <3>1. Local(q)
      BY Zenon DEF IInv
    <3>2. /\ pc[q] \in ChainPcs => SameList(chainoff(q))
          /\ pc[q] \in FreePcs => SameList(FREE_OFF)
      <4>1. pc[q] \in ChainPcs => chainoff(q) \in Heads
        BY CallFacts, Zenon
      <4> QED  BY <2>11, <4>1, Ptrs, Zenon
    <3>3. Owns(q) => /\ idx'[Rec(db[q].idxoff)].key = idx[Rec(db[q].idxoff)].key
                     /\ ptr'[db[q].idxoff] = ptr[db[q].idxoff]
                     /\ \A o \in Heads : db[q].idxoff \notin List(o)'
      <4>1. Owns(q) => db[q].idxoff \in Recs /\ \A o \in Heads : db[q].idxoff \notin List(o)
        BY <3>1, Zenon DEF Local, Owning
      <4>2. \A o \in Heads : List(o)' = List(o)
        BY <2>11, Zenon DEF SameList
      <4> QED  BY <2>7, <2>9, <4>1, <4>2, Zenon
    <3>4. /\ pc[q] = "n_dat" => idx'[Rec(db[q].idxoff)].key = idx[Rec(db[q].idxoff)].key
          /\ pc[q] = "u_idx" => db[q].datoff \in DOMAIN dat'
      <4>1. pc[q] \in {"n_dat", "u_idx"} => Read(q)
        BY <3>1, Zenon DEF Local, Reading
      <4>2. Read(q) => db[q].idxoff \in Recs /\ db[q].datoff \in DOMAIN dat
        BY RecFacts, Zenon DEF Read, IInv, Records
      <4> QED  BY <2>5, <2>9, <4>1, <4>2, Zenon
    <3>5. Adds(q) => db[q].datoff \in DOMAIN dat' /\ \A j \in DOMAIN idx' : idx'[j].datoff # db[q].datoff
      <4>1. Adds(q) => db[q].datoff \in DOMAIN dat /\ \A j \in DOMAIN idx : idx[j].datoff # db[q].datoff
        BY <3>1, Zenon DEF Local, Appending
      <4>2. Adds(q) => db[q].datoff # d.datoff
        BY <2>1, <2>14, Zenon DEF IInv, Apart
      <4> QED  BY <2>5, <2>6, <2>7, <4>1, <4>2, Zenon
    <3>6. pc[q] # "a_idx"
      BY <2>1, <2>14, Exclusion, ZenonT(30)
    <3> QED  BY <2>5, <3>2, <3>3, <3>4, <3>5, <3>6, Zenon DEF SameFor
  <2>15. Storing(p)'
    <3>1. SameList(c)
      BY <2>2, <2>11, ZenonT(30)
    <3> QED  BY <2>1, <2>4, <2>8, <3>1, StoringKept, Zenon
  <2>16. Owning(p)'
    <3>1. \A o \in Heads : List(o) \subseteq Recs
      BY Layout, Zenon
    <3>2. db'[p].idxoff \in Recs' /\ \A o \in Heads : db'[p].idxoff \notin List(o)'
      BY <2>7, <2>8, <2>12, <3>1, Zenon DEF List
    <3>3. idx'[Rec(db'[p].idxoff)].key = op'[p].key /\ ptr'[db'[p].idxoff] = db'[p].save
      BY <2>6, <2>7, <2>8, Zenon
    <3> QED  BY <2>8, <3>2, <3>3, Zenon DEF Owning, KeyAt
  <2>17. \A q \in Alives : q # p /\ Owns(q) => db[q].idxoff # x
    <3>1. \A q \in Alives : Owns(q) => db[q].idxoff \in Recs
      BY ZenonT(30) DEF IInv, Local, Owning
    <3> QED  BY <2>7, <3>1, Zenon
  <2>18. GoesOn(p, "a_iunlock")
    BY <2>1, <2>2, ZenonT(30) DEF GoesOn, Pcs, Unlinking, ChainPcs, FreePcs, DatPcs, IdxPcs, NextPcs, ScanPcs,
           DeletePcs, StorePcs
  <2>19. Reaches(p, "a_iunlock", d)
    BY <2>15, <2>16, <2>17, Zenon DEF Reaches, ReadPcs, WalkPcs, Unlinking, FoundPcs, AbsentPcs, StorePcs,
           TakePcs, OwnPcs, AddPcs
  <2> QED  BY <2>1, <2>5, <2>7, <2>12, <2>13, <2>14, <2>18, <2>19, WriteStep, Zenon
<1>1. p \in Alives /\ Alive
  BY Zenon DEF AppendRec, Alives
<1>2. CASE /\ pc[p] = "reptr" /\ Goto(p, "a_dlock") /\ Set(p, [db[p] EXCEPT !.save = ptr[chainoff(p)]])
           /\ UNCHANGED <<files, locks>>
  BY <1>1, <1>2, StorePtr, Zenon
<1>3. CASE pc[p] = "a_dlock" /\ Lock(p, DatFile, TRUE) /\ Goto(p, "a_dseek") /\ UNCHANGED <<files, db>>
  BY <1>1, <1>3, StoreLock, Zenon DEF LocksFor
<1>4. CASE /\ pc[p] = "a_dseek" /\ Goto(p, "a_dat")
           /\ Set(p, [db[p] EXCEPT !.datoff = Len(dat) + 1, !.datlen = DatLen[op[p].data],
                                   !.keylen = KeyLen[op[p].key]])
           /\ UNCHANGED <<files, locks>>
  BY <1>1, <1>4, <1>SeekDat, ZenonT(30)
<1>5. CASE /\ pc[p] = "a_dat" /\ writedat(db[p], op[p].data) /\ Goto(p, "a_dunlock")
           /\ UNCHANGED <<ptr, idx, locks, db>>
  BY <1>1, <1>5, <1>AppendDat, Zenon
<1>6. CASE pc[p] = "a_dunlock" /\ un_lock(p, DatFile) /\ Goto(p, "a_ilock") /\ UNCHANGED <<files, db>>
  BY <1>1, <1>6, StoreUnlock, Zenon DEF UnlocksFor
<1>7. CASE pc[p] = "a_ilock" /\ Lock(p, IdxTail, TRUE) /\ Goto(p, "a_iseek") /\ UNCHANGED <<files, db>>
  BY <1>1, <1>7, StoreLock, Zenon DEF LocksFor
<1>8. CASE /\ pc[p] = "a_iseek" /\ Goto(p, "a_idx")
           /\ Set(p, [db[p] EXCEPT !.idxoff = nhash + Len(idx) + 1]) /\ UNCHANGED <<files, locks>>
  BY <1>1, <1>8, <1>SeekIdx, Zenon
<1>9. CASE /\ pc[p] = "a_idx" /\ writeidx(db[p], op[p].key, db[p].save) /\ Goto(p, "a_iunlock")
           /\ UNCHANGED <<dat, locks, db>>
  BY <1>1, <1>9, <1>AppendIdx, Zenon
<1>10. CASE pc[p] = "a_iunlock" /\ un_lock(p, IdxTail) /\ Goto(p, "a_link") /\ UNCHANGED <<files, db>>
  BY <1>1, <1>10, StoreUnlock, Zenon DEF UnlocksFor
<1>11. CASE /\ pc[p] = "a_link" /\ db[p].idxoff <= PTR_MAX
            /\ writeptr(chainoff(p), db[p].idxoff) /\ Goto(p, "unlock")
            /\ UNCHANGED <<idx, dat, locks, db>>
  <2>1. UNCHANGED <<idx, dat, db>> /\ locks' = locks /\ pc[p] \in {"u_link", "a_link"}
    BY <1>11, Zenon
  <2> QED  BY <1>1, <1>11, <2>1, LinkStep, Zenon
<1> QED  BY <1>2, <1>3, <1>4, <1>5, <1>6, <1>7, <1>8, <1>9, <1>10, <1>11, Zenon DEF AppendRec

-----------------------------------------------------------------------------
(* The theorems *)

\* The invariant says what FilesSound says.
LEMMA SoundThen ==
  ASSUME IInv, NoneHalfDeleted, ScanSeesWhole
  PROVE  FilesSound /\ TypeOK
<1>1. ASSUME NEW o \in Lists PROVE SoundList(ptr, idx, o)
  <2>1. o \in Heads
    BY DbAssumption, SMT, Z3 DEF Lists, Heads, FREE_OFF
  <2>2. ASSUME NEW q \in Alives, pc[q] \in Unlinking PROVE chainoff(q) # o
    <3>1. q \in Procs
      BY Zenon DEF Alives
    <3>2. chainoff(q) # FREE_OFF
      BY <2>2, <3>1, UnlinkerAt, Zenon
    <3>3. o # FREE_OFF => ~ HalfDeleted(o)
      BY Zenon DEF Lists
    <3> QED  BY <2>2, <3>1, <3>2, <3>3, Zenon DEF HalfDeleted, Unlinking
  <2>3. \A r \in At(o) : ptr[r] = chain[r]
    BY <2>1, <2>2, Unbroken, Zenon
  <2>4. 0 \notin Recs /\ Closed(chain, Recs, o) /\ \A r \in Heads \cup Recs : ptr[r] \in {0} \cup Recs
    BY <2>1, Layout, Ptrs, Zenon
  <2>5. Closed(ptr, Recs, o)
    BY <2>1, <2>4, Zenon DEF Closed
  <2>6. Recs \subseteq Recs /\ \A r \in Reach(chain, Recs, o) \cup {o} : ptr[r] = chain[r]
    BY <2>3, Zenon DEF At, List
  <2>7. Reach(ptr, Recs, o) = Reach(chain, Recs, o)
    BY <2>4, <2>5, <2>6, ReachSame, SMT, Z3
  <2>8. SoundList(chain, idx, o)
    BY <2>1, Zenon DEF IInv, Chains
  <2>9. \A r, s \in Reach(ptr, Recs, o) \cup {o} : r # s /\ ptr[r] = ptr[s] => ptr[r] = 0
    BY <2>6, <2>7, <2>8, Zenon DEF SoundList, Recs
  <2> QED  BY <2>7, <2>8, <2>9, Zenon DEF SoundList, Recs
<1>2. ASSUME NEW p \in Procs \ dead
      PROVE  /\ pc[p] \in {"body", "f_body", "n_body"} => RecordFits(db[p])
             /\ pc[p] \in {"getdat", "n_dat"} => DataFits(db[p])
  <2>1. Local(p)
    BY Zenon DEF IInv, Alives
  <2>2. pc[p] \in {"body", "f_body", "n_body"} => RecordFits(db[p])
    BY <2>1, Zenon DEF Local, Reading, RecordFits
  <2>3. ASSUME pc[p] \in {"getdat", "n_dat"} PROVE DataFits(db[p])
    <3>1. Read(p)
      BY <2>1, <2>3, Zenon DEF Local, Reading, FoundPcs
    <3>2. db[p].datoff \in DOMAIN dat /\ dat[db[p].datoff].len = db[p].datlen
      BY <3>1, RecFacts, Zenon DEF Read, IInv, Records
    <3>3. dat \in Seq([data : AllData \cup {Blank}, len : Nat])
      BY Zenon DEF IInv, Types
    <3> QED  BY <3>2, <3>3, SMT, Z3 DEF DataFits
  <2> QED  BY <2>2, <2>3, Zenon
<1>3. FilesSound
  BY <1>1, <1>2, Zenon DEF FilesSound, ListsSound, SaneReads
<1>4. TypeOK
  <2>1. /\ \A i \in DOMAIN idx : idx[i].key \in Keys \cup {Blank} /\ idx[i].datoff \in DOMAIN dat
        /\ \A i \in DOMAIN dat : dat[i].data \in AllData \cup {Blank}
    <3>1. /\ \A i \in DOMAIN idx : idx[i] \in [key : Keys \cup {Blank}, keylen : Nat, datoff : Nat, datlen : Nat]
          /\ \A i \in DOMAIN dat : dat[i] \in [data : AllData \cup {Blank}, len : Nat]
      <4>1. /\ idx \in Seq([key : Keys \cup {Blank}, keylen : Nat, datoff : Nat, datlen : Nat])
            /\ dat \in Seq([data : AllData \cup {Blank}, len : Nat])
        BY Zenon DEF IInv, Types
      <4>2. ASSUME NEW S, NEW s \in Seq(S) PROVE \A i \in DOMAIN s : s[i] \in S
        BY SMT, Z3
      <4> QED  BY <4>1, <4>2, Zenon
    <3>2. \A i \in DOMAIN idx : idx[i].datoff \in DOMAIN dat
      BY Zenon DEF IInv, Records
    <3> QED  BY <3>1, <3>2, Zenon
  <2>2. /\ DOMAIN ptr = 0 .. nhash + Len(idx)
        /\ \A o \in DOMAIN ptr : ptr[o] \in {0} \cup (nhash + 1 .. nhash + Len(idx))
    BY Zenon DEF IInv, Types, Recs, Places
  <2>3. \A l \in locks : l.p \in Procs \ dead /\ l.r \in 0 .. DatFile /\ l.w \in BOOLEAN
    BY Zenon DEF IInv, Types, Alives
  <2> QED  BY <2>1, <2>2, <2>3, Zenon DEF TypeOK, IInv, Types
<1> QED  BY <1>3, <1>4, Zenon

\* What every behaviour keeps.  FilesSound of a step needs it of the step before, and
\* the processes that have ended decide whether it is promised at all.
Inv ==
  /\ Frame /\ (NoneHalfDeleted => IInv /\ ScanSeesWhole)
  /\ fails = 0 => \A q \in dead : pc[q] = "a_link"

\* Inv holds at first.
LEMMA InvInit ==
  ASSUME Init
  PROVE  Inv
<1>1. Frame /\ dead = {} /\ IInv /\ ScanSeesWhole
  BY InitHolds, Zenon
<1> QED  BY <1>1, Zenon DEF Inv

\* Every step keeps the invariant while nobody has ended half way through a delete.
LEMMA StepKeeps ==
  ASSUME IInv, NoneHalfDeleted, NEW p \in Procs, Step(p) \/ CallFails(p)
  PROVE  IInv'
<1>1. ASSUME p \notin dead, Die(p), calls' = calls, fails' \in 0 .. MaxFails PROVE IInv'
  <2>1. p \in Alives /\ calls' \in 0 .. MaxCalls
    BY <1>1, Zenon DEF Alives, IInv, Types
  <2> QED  BY <1>1, <2>1, DieKeeps, Zenon
<1>2. fails \in 0 .. MaxFails /\ MaxFails \in Nat
  BY DbAssumption, Zenon DEF IInv, Types
<1>3. CASE PtrTooLarge(p)
  BY <1>1, <1>2, <1>3, Zenon DEF PtrTooLarge
<1>4. CASE CallFails(p)
  <2>1. fails' \in 0 .. MaxFails
    BY <1>2, <1>4, SMT, Z3 DEF CallFails
  <2> QED  BY <1>1, <1>4, <2>1, Zenon DEF CallFails
<1> QED  BY <1>3, <1>4, FindKeeps, CallKeeps, NextKeeps, DeleteKeeps, FreeKeeps, ReuseKeeps,
            AppendKeeps, Zenon DEF Step

\* Every step keeps Inv.
LEMMA InvNext ==
  ASSUME Inv, [Next]_vars
  PROVE  Inv'
  \* What a process that has ended returned, or was about to, stays as it is.
<1>ScanKeeps. ASSUME IInv, IInv', ScanSeesWhole, DeadStay
      PROVE  ScanSeesWhole'
  <2> USE <1>ScanKeeps
  <2> SUFFICES ASSUME NEW p \in Procs, pc'[p] = "n_unlock", db'[p].res # NULL,
                      \A q \in dead' : pc'[q] \notin {"d_free", "d_idx"}
               PROVE  db'[p].res \in DataOf[db'[p].key]
    BY Zenon DEF ScanSeesWhole
  <2>1. CASE p \in dead'
    <3>1. pc'[p] = pc[p] /\ db'[p] = db[p] /\ \A q \in dead : pc[q] \notin {"d_free", "d_idx"}
      BY <2>1, Zenon DEF DeadStay
    <3> QED  BY <3>1, Zenon DEF ScanSeesWhole
  <2>2. CASE p \notin dead'
    <3>1. Scanning(p)'
      BY <2>2, Zenon DEF IInv, Local, Alives
    <3> QED  BY <3>1, Zenon DEF Scanning
  <2> QED  BY <2>1, <2>2, Zenon
<1>1. CASE UNCHANGED vars
  <2>1. /\ ptr' = ptr /\ idx' = idx /\ dat' = dat /\ locks' = locks /\ pc' = pc /\ op' = op
        /\ db' = db /\ dead' = dead /\ calls' = calls /\ fails' = fails
    BY <1>1, Zenon DEF vars
  <2>2. Frame' = Frame /\ NoneHalfDeleted' = NoneHalfDeleted /\ ScanSeesWhole' = ScanSeesWhole
    BY <2>1, Zenon DEF Frame, NoneHalfDeleted, ScanSeesWhole
  <2>3. IInv' = IInv
    <3>1. /\ Recs' = Recs /\ Alives' = Alives /\ chain' = chain /\ DbType' = DbType
          /\ \A p : Owns(p)' = Owns(p) /\ Adds(p)' = Adds(p) /\ chainoff(p)' = chainoff(p)
          /\ \A p, r, w : Held(p, r, w)' = Held(p, r, w)
      BY <2>1, Zenon DEF Recs, Alives, chain, DbType, Owns, Adds, chainoff, Held
    <3>2. /\ \A p : Read(p)' = Read(p)
          /\ \A o : List(o)' = List(o) /\ At(o)' = At(o) /\ KeyAt(o)' = KeyAt(o)
      BY <2>1, <3>1, Zenon DEF Read, List, At, KeyAt
    <3>3. /\ Types' = Types /\ Exclusive' = Exclusive /\ Apart' = Apart
          /\ Records' = Records /\ Chains' = Chains
      BY <2>1, <3>1, ZenonT(30) DEF Types, Exclusive, Apart, Records, Chains
    <3>4. ASSUME NEW p PROVE Local(p)' = Local(p)
      <4>1. Locked(p)' = Locked(p) /\ Calling(p)' = Calling(p) /\ Reading(p)' = Reading(p)
        BY <2>1, <3>1, <3>2, Zenon DEF Locked, Calling, Reading
      <4>2. Walking(p)' = Walking(p)
        BY <2>1, <3>1, <3>2, Zenon DEF Walking
      <4>3. Storing(p)' = Storing(p) /\ Freeing(p)' = Freeing(p)
        BY <2>1, <3>1, <3>2, Zenon DEF Storing, Freeing
      <4>4. Owning(p)' = Owning(p) /\ Appending(p)' = Appending(p) /\ Scanning(p)' = Scanning(p)
        BY <2>1, <3>1, <3>2, Zenon DEF Owning, Appending, Scanning
      <4> QED  BY <4>1, <4>2, <4>3, <4>4, Zenon DEF Local
    <3> QED  BY <3>1, <3>3, <3>4, Zenon DEF IInv
  <2> QED  BY <2>1, <2>2, <2>3, Zenon DEF Inv
<1>2. CASE Next
  <2>1. PICK p \in Procs : Step(p) \/ CallFails(p)
    BY <1>2, Zenon DEF Next
  <2>2. DeadStay
    BY <2>1, StepFrame, Zenon DEF Inv
  <2>3. NoneHalfDeleted' => NoneHalfDeleted
    BY <2>2, Zenon DEF DeadStay, NoneHalfDeleted
  <2>4. NoneHalfDeleted => IInv'
    BY <2>1, StepKeeps, Zenon DEF Inv
  <2>5. NoneHalfDeleted => ScanSeesWhole'
    BY <2>2, <2>4, <1>ScanKeeps, Zenon DEF Inv
  <2>6. fails' = 0 => \A q \in dead' : pc'[q] = "a_link"
    BY <2>2, Zenon DEF DeadStay, Inv
  <2> QED  BY <2>2, <2>3, <2>4, <2>5, <2>6, Zenon DEF Inv, DeadStay
<1> QED  BY <1>1, <1>2, Zenon

\* Inv says of the files what FilesSound and TypeOK say.
LEMMA InvThen ==
  ASSUME Inv
  PROVE  /\ NoneHalfDeleted => FilesSound /\ TypeOK
         /\ fails = 0 => FilesSound /\ TypeOK
<1>1. NoneHalfDeleted => FilesSound /\ TypeOK
  BY SoundThen, Zenon DEF Inv
<1>2. fails = 0 => NoneHalfDeleted
  BY Zenon DEF Inv, NoneHalfDeleted
<1> QED  BY <1>1, <1>2, Zenon

\* Any number of processes may store, delete, fetch and scan at once in db.c, and any
\* of them may end at any system call.  As long as none ended in _db_dodelete after it
\* wrote the blank index record and before it took it off its chain, each chain and
\* the free list is sound, no sanity check of _db_readidx or _db_readdat fails, and
\* db_nextrec returns no record that is half deleted.
THEOREM FilesStaySound == Spec => [](NoneHalfDeleted => FilesSound)
<1>1. Init => Inv
  BY InvInit, Zenon
<1>2. Inv /\ [Next]_vars => Inv'
  BY InvNext, Zenon
<1>3. Inv => (NoneHalfDeleted => FilesSound)
  BY InvThen, Zenon
<1> QED  BY <1>1, <1>2, <1>3, PTL DEF Spec

\* While no system call has failed the files of db.c are sound: processes that only
\* interleave cannot harm them.  (A process may still end in _db_writeptr, on an
\* offset that is too large.)
THEOREM NoFailureSound == Spec => [](fails = 0 => FilesSound)
<1>1. Init => Inv
  BY InvInit, Zenon
<1>2. Inv /\ [Next]_vars => Inv'
  BY InvNext, Zenon
<1>3. Inv => (fails = 0 => FilesSound)
  BY InvThen, Zenon
<1> QED  BY <1>1, <1>2, <1>3, PTL DEF Spec

\* Offsets in the index and data files, locks and calls of db.c have their types,
\* as long as nobody has ended half way through taking a record off its chain.
THEOREM TypesKept == Spec => [](NoneHalfDeleted => TypeOK)
<1>1. Init => Inv
  BY InvInit, Zenon
<1>2. Inv /\ [Next]_vars => Inv'
  BY InvNext, Zenon
<1>3. Inv => (NoneHalfDeleted => TypeOK)
  BY InvThen, Zenon
<1> QED  BY <1>1, <1>2, <1>3, PTL DEF Spec
=============================================================================
